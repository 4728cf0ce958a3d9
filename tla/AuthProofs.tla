------------------------------ MODULE AuthProofs ------------------------------
(* What AuthSession keeps for every number of requests in flight, of tokens, *)
(* of passwords and of faults.                                               *)
EXTENDS AuthProperties, TLAPS

(***************************************************************************)
(* What a request in flight carries, whatever the others do.               *)
(***************************************************************************)
SignInSteps == {"readIp", "findUser", "incrUser", "expireUser", "incrIp", "expireIp",
                "lock", "clearUser", "clearIp", "saveUser", "mintRedis", "mintRow",
                "mintRedisAgain"}
RefreshSteps == {"refreshRedis", "refreshRow", "refreshUser", "refreshSet",
                 "refreshInsert", "refreshDrop", "refreshRevoke"}
GuardSteps == {"authenticate", "checkBlacklist"}
LogoutSteps == {"logout", "logoutRedis", "logoutRevoke"}
SessionSteps == {"revokeSession", "sessionRedis", "sessionRevoke"}
AllSteps == {"logoutAll", "revokeAll", "findRevoked", "dropAll"}
ChangeSteps == {"changePassword", "changeSave"}
ResetSteps == {"resetFind", "resetSave"}
FcmSteps == {"fcm", "fcmSave"}

\* The requests that reach a call.
OnRoute(pc, r) ==
    \/ pc = "idle"
    \/ pc \in SignInSteps /\ r = "signin"
    \/ pc \in RefreshSteps /\ r = "refresh"
    \/ pc \in GuardSteps /\ r \in Guarded
    \/ pc \in LogoutSteps /\ r = "logout"
    \/ pc \in SessionSteps /\ r = "revokeSession"
    \/ pc \in AllSteps /\ r \in {"logoutAll", "changePassword"}
    \/ pc \in ChangeSteps /\ r = "changePassword"
    \/ pc \in ResetSteps /\ r = "resetPassword"
    \/ pc \in FcmSteps /\ r = "fcm"

Issues(d) == d.pc # "idle" /\ d.request \in {"signin", "refresh"}

Sound(d) ==
    /\ d \in Handler
    /\ OnRoute(d.pc, d.request)
    /\ d.user.version > 0
    /\ d.new \in Pairs <=> Issues(d)
    /\ d.request \in {"refresh"} \cup Guarded => d.pair \in Pairs
    /\ d.request = "revokeSession" => d.target \in Pairs /\ d.covers = {d.target}
    /\ d.request = "logout" => d.covers = {d.pair}
    /\ d.request \in {"changePassword", "resetPassword"} => d.credential \in Passwords

Typed ==
    /\ TypeOK
    /\ user.version > 0
    /\ \A h \in Handlers : Sound(handler[h])

(***************************************************************************)
(* What it knows of the tokens: V are the versions in the JWTs, R the      *)
(* rows, C the pairs the client has.                                       *)
(***************************************************************************)
Inserted == {"mintRedisAgain", "refreshDrop", "refreshRevoke"}

Knows(d, V, R, C) ==
    /\ d.new \in Pairs => d.new \notin C
    /\ Issues(d) /\ d.pc \notin Inserted => R[d.new] = "none"
    /\ d.pc \in {"mintRow", "refreshInsert"} => V[d.new] > 0
    /\ d.pc \in Inserted => R[d.new] # "none"
    /\ d.request \in {"refresh"} \cup Guarded => d.pair \in C
    /\ d.request = "revokeSession" => R[d.target] # "none"
    /\ \A n \in d.covers : R[n] # "none"
    /\ d.pc \in {"findRevoked", "dropAll"} => \A n \in d.covers : R[n] = "revoked"

TokensOK ==
    /\ \A n \in Pairs : row[n] # "none" => version[n] > 0
    /\ \A n \in client : row[n] # "none"
    /\ \A n \in Pairs : ended[n] # {} => row[n] = "revoked"

Issuance ==
    /\ TokensOK
    /\ \A h \in Handlers : Knows(handler[h], version, row, client)
    /\ \A g, h \in Handlers : handler[g].new = handler[h].new /\ g # h => handler[g].new = NoPair

\* A logged out access token stays rejected by the blacklist or by its age.
LoggedOut ==
    faults = 0 =>
        /\ \A h \in Handlers : handler[h].pc \in {"logoutRedis", "logoutRevoke"} =>
               handler[h].pair \in blacklist \cup expired
        /\ \A n \in Pairs : "logout" \in ended[n] => n \in blacklist \cup expired

-----------------------------------------------------------------------------
(* Types, and what a request carries.                                      *)

LEMMA IdleSound == Sound(Idle) /\ Idle.pc = "idle" /\ Idle.new = NoPair
BY AccountAssumption
   DEF Sound, Idle, Handler, User, Pcs, Ways, OnRoute, Issues, Guarded

\* Which requests are at a call.
LEMMA RequestAt ==
    ASSUME NEW pc, NEW r, OnRoute(pc, r)
    PROVE  /\ pc \in SignInSteps => r = "signin"
           /\ pc \in RefreshSteps => r = "refresh"
           /\ pc \in GuardSteps => r \in Guarded
           /\ pc \in LogoutSteps => r = "logout"
           /\ pc \in SessionSteps => r = "revokeSession"
           /\ pc \in AllSteps => r \in {"logoutAll", "changePassword"}
           /\ pc \in ChangeSteps => r = "changePassword"
           /\ pc \in ResetSteps => r = "resetPassword"
           /\ pc \in FcmSteps => r = "fcm"
BY DEF OnRoute, SignInSteps, RefreshSteps, GuardSteps, LogoutSteps, SessionSteps,
       AllSteps, ChangeSteps, ResetSteps, FcmSteps

\* q follows p on the way of a request.
SameRoute(p, q) ==
    \/ p \in SignInSteps /\ q \in SignInSteps
    \/ p \in RefreshSteps /\ q \in RefreshSteps
    \/ p \in GuardSteps /\ q \in GuardSteps
    \/ p \in LogoutSteps /\ q \in LogoutSteps
    \/ p \in SessionSteps /\ q \in SessionSteps
    \/ p \in AllSteps /\ q \in AllSteps
    \/ p \in ChangeSteps /\ q \in ChangeSteps \cup {"logoutAll"}
    \/ p \in ResetSteps /\ q \in ResetSteps
    \/ p \in FcmSteps /\ q \in FcmSteps

LEMMA RouteKept ==
    ASSUME NEW p, NEW q, NEW r, OnRoute(p, r), SameRoute(p, q)
    PROVE  p # "idle" /\ q \in Pcs \ {"idle"} /\ OnRoute(q, r)
<1>1. p # "idle" /\ q \in Pcs \ {"idle"}
  BY DEF SameRoute, Pcs, SignInSteps, RefreshSteps, GuardSteps, LogoutSteps, SessionSteps,
         AllSteps, ChangeSteps, ResetSteps, FcmSteps
<1>2. p \in ChangeSteps /\ q = "logoutAll" => OnRoute(q, r)
  BY RequestAt DEF OnRoute, AllSteps
<1> QED
  BY <1>1, <1>2, RequestAt DEF SameRoute, OnRoute

LEMMA MoveSound ==
    ASSUME NEW d, Sound(d), d.pc # "idle",
           NEW pc \in Pcs \ {"idle"}, OnRoute(pc, d.request)
    PROVE  Sound([d EXCEPT !.pc = pc])
BY DEF Sound, Handler, Issues

LEMMA BecomesSound ==
    ASSUME Typed, NEW h \in Handlers, NEW d, Sound(d), Becomes(h, d)
    PROVE  handler' \in [Handlers -> Handler] /\ \A g \in Handlers : Sound(handler'[g])
BY DEF Typed, TypeOK, Becomes, Sound

LEMMA GotoSound ==
    ASSUME Typed, NEW h \in Handlers, handler[h].pc # "idle",
           NEW pc \in Pcs \ {"idle"}, OnRoute(pc, handler[h].request), Goto(h, pc)
    PROVE  handler' \in [Handlers -> Handler] /\ \A g \in Handlers : Sound(handler'[g])
<1>1. Sound([handler[h] EXCEPT !.pc = pc])
  BY MoveSound DEF Typed
<1> QED
  BY <1>1, BecomesSound DEF Goto

LEMMA GotoOnRoute ==
    ASSUME Typed, NEW h \in Handlers, NEW pc, SameRoute(handler[h].pc, pc), Goto(h, pc)
    PROVE  handler' \in [Handlers -> Handler] /\ \A g \in Handlers : Sound(handler'[g])
<1>1. OnRoute(handler[h].pc, handler[h].request)
  BY DEF Typed, Sound
<1> QED
  BY <1>1, RouteKept, GotoSound

LEMMA RejectSound ==
    ASSUME Typed, NEW h \in Handlers, Reject(h)
    PROVE  handler' \in [Handlers -> Handler] /\ \A g \in Handlers : Sound(handler'[g])
BY IdleSound, BecomesSound DEF Reject

LEMMA AnswerTyped ==
    ASSUME Typed, NEW h \in Handlers, NEW S, Answer(h, S),
           S = {} \/ handler[h].request \in Ways
    PROVE  /\ handler' \in [Handlers -> Handler]
           /\ \A g \in Handlers : Sound(handler'[g])
           /\ ended' \in [Pairs -> SUBSET Ways]
           /\ client' \in SUBSET Pairs
<1>1. Becomes(h, Idle)
  BY DEF Answer
<1>2. handler[h].new \in Pairs \cup {NoPair}
  BY DEF Typed, TypeOK, Handler
<1> QED
  BY <1>1, <1>2, IdleSound, BecomesSound DEF Answer, Typed, TypeOK

\* LockExpires reaches into the loaded rows.
LEMMA UnlockSound ==
    ASSUME NEW d, Sound(d)
    PROVE  Sound([d EXCEPT !.user.locked = FALSE])
<1>1. [d EXCEPT !.user.locked = FALSE] = [d EXCEPT !.user = [d.user EXCEPT !.locked = FALSE]]
  OBVIOUS
<1>2. [d.user EXCEPT !.locked = FALSE] \in User /\ [d.user EXCEPT !.locked = FALSE].version = d.user.version
  BY DEF Sound, Handler, User
<1>3. PICK u \in User : u = [d.user EXCEPT !.locked = FALSE] /\ u.version = d.user.version
  BY <1>2
<1> QED
  BY <1>1, <1>3 DEF Sound, Handler, Issues

\* What a request carries when it arrives.
Arrives(d, pc, r, pair, new, target, credential, S) ==
    /\ d \in Handler
    /\ d.pc = pc
    /\ d.request = r
    /\ d.pair = pair
    /\ d.new = new
    /\ d.target = target
    /\ d.credential = credential
    /\ d.covers = S
    /\ d.user.version > 0

LEMMA IdleArrives == Arrives(Idle, "idle", "signin", NoPair, NoPair, NoPair, Nobody, {})
BY AccountAssumption DEF Arrives, Idle, Handler, Pcs, User, Ways

LEMMA ResetRecord ==
    ASSUME NEW c \in Passwords
    PROVE  Arrives([Idle EXCEPT !.pc = "resetFind", !.request = "resetPassword",
                                !.credential = c],
                   "resetFind", "resetPassword", NoPair, NoPair, NoPair, c, {})
BY IdleArrives DEF Arrives, Handler, Pcs

LEMMA ArrivalRecords ==
    ASSUME NEW r \in Guarded, NEW n \in Pairs, NEW old \in Pairs, NEW m \in Pairs \cup {NoPair},
           NEW c \in Passwords \cup {Signature, Nobody}, NEW S \in SUBSET Pairs
    PROVE  /\ Arrives([Idle EXCEPT !.pc = "readIp", !.credential = c, !.new = n],
                       "readIp", "signin", NoPair, n, NoPair, c, {})
           /\ Arrives([Idle EXCEPT !.pc = "refreshRedis", !.request = "refresh",
                                   !.pair = old, !.new = n],
                       "refreshRedis", "refresh", old, n, NoPair, Nobody, {})
           /\ Arrives([Idle EXCEPT !.pc = "authenticate", !.request = r, !.pair = n,
                                   !.target = m, !.credential = c, !.covers = S],
                       "authenticate", r, n, NoPair, m, c, S)
<1>2. Arrives(Idle, "idle", "signin", NoPair, NoPair, NoPair, Nobody, {})
  BY IdleArrives
<1>3. Arrives([Idle EXCEPT !.pc = "readIp", !.credential = c, !.new = n],
              "readIp", "signin", NoPair, n, NoPair, c, {})
  BY <1>2 DEF Arrives, Handler, Pcs
<1>4. Arrives([Idle EXCEPT !.pc = "refreshRedis", !.request = "refresh", !.pair = old, !.new = n],
              "refreshRedis", "refresh", old, n, NoPair, Nobody, {})
  BY <1>2 DEF Arrives, Handler, Pcs, Ways
<1>6. Arrives([Idle EXCEPT !.pc = "authenticate", !.request = r, !.pair = n,
                        !.target = m, !.credential = c, !.covers = S],
              "authenticate", r, n, NoPair, m, c, S)
  <2>1. "authenticate" \in Pcs /\ r \in Ways \cup {"signin", "resetPassword", "fcm"}
    BY DEF Pcs, Ways, Guarded
  <2>2. PICK d : d = [Idle EXCEPT !.pc = "authenticate", !.request = r, !.pair = n,
                                  !.target = m, !.credential = c, !.covers = S]
    OBVIOUS
  <2>3. Idle \in Handler /\ Idle.new = NoPair /\ Idle.user.version > 0
    BY <1>2 DEF Arrives
  <2>4. d \in Handler
    <3>1. PICK e \in Handler : e = [Idle EXCEPT !.pc = "authenticate", !.request = r, !.pair = n]
      BY <2>1, <2>3 DEF Handler
    <3>a. [e EXCEPT !.target = m, !.credential = c] \in Handler
      BY DEF Handler
    <3>b. \A f \in Handler : [f EXCEPT !.covers = S] \in Handler
      BY DEF Handler
    <3>2. [e EXCEPT !.target = m, !.credential = c, !.covers = S] \in Handler
      BY <3>a, <3>b
    <3>3. [e EXCEPT !.target = m, !.credential = c, !.covers = S] = d
      BY <3>1, <2>2, <2>3
    <3> QED
      BY <3>2, <3>3
  <2>5. d.pc = "authenticate" /\ d.request = r /\ d.pair = n
    BY <2>2, <2>3 DEF Handler
  <2>6. d.new = NoPair /\ d.target = m /\ d.credential = c
    BY <2>2, <2>3 DEF Handler
  <2>7. d.covers = S /\ d.user.version > 0
    BY <2>2, <2>3 DEF Handler
  <2> QED
    BY <2>2, <2>4, <2>5, <2>6, <2>7 DEF Arrives
<1> QED
  BY <1>3, <1>4, <1>6

\* The four ways a request arrives.
LEMMA ArrivalCases ==
    ASSUME Typed, NEW h \in Handlers, Arrival(h)
    PROVE  \E d : /\ Arrive(h, d)
                  /\ \/ \E c \in Passwords \cup {Signature, Nobody}, n \in Pairs :
                           /\ Fresh(n)
                           /\ Arrives(d, "readIp", "signin", NoPair, n, NoPair, c, {})
                     \/ \E old \in client, n \in Pairs :
                           /\ Fresh(n)
                           /\ Arrives(d, "refreshRedis", "refresh", old, n, NoPair, Nobody, {})
                     \/ \E p \in Passwords :
                           Arrives(d, "resetFind", "resetPassword", NoPair, NoPair, NoPair, p, {})
                     \/ \E r \in Guarded, n \in client, m \in Pairs \cup {NoPair},
                           p \in Passwords \cup {Nobody}, S \in SUBSET Pairs :
                           /\ Arrives(d, "authenticate", r, n, NoPair, m, p, S)
                           /\ r = "revokeSession" => m \in Pairs /\ row[m] # "none" /\ S = {m}
                           /\ r = "logout" => S = {n}
                           /\ r = "changePassword" => p \in Passwords
                           /\ r \in {"logoutAll", "changePassword"} => S = client
                           /\ r = "fcm" => S = {}
<1> USE AccountAssumption
<1>c. client \subseteq Pairs
  BY DEF Typed, TypeOK
<1>r. /\ "logout" \in Guarded
      /\ Credentials \subseteq Passwords \cup {Signature, Nobody}
      /\ Nobody \in Passwords \cup {Signature, Nobody}
      /\ NoPair \in Pairs \cup {NoPair}
      /\ {} \in SUBSET Pairs
  BY DEF Guarded
<1>1. CASE \E c \in Credentials : SignIn(h, c)
  <2>1. PICK c \in Credentials, n \in Pairs :
          /\ Fresh(n)
          /\ Arrive(h, [Idle EXCEPT !.pc = "readIp", !.credential = c, !.new = n])
    BY <1>1 DEF SignIn
  <2>2. PICK d : d = [Idle EXCEPT !.pc = "readIp", !.credential = c, !.new = n]
    OBVIOUS
  <2>3. Arrives(d, "readIp", "signin", NoPair, n, NoPair, c, {})
    BY <2>2, <1>r, ArrivalRecords
  <2>4. Arrive(h, d)
    BY <2>1, <2>2
  <2>5. c \in Passwords \cup {Signature, Nobody}
    BY <1>r
  <2> QED
    BY <2>1, <2>3, <2>4, <2>5
<1>2. CASE \E old \in client : Refresh(h, old)
  <2>1. PICK old \in client, n \in Pairs :
          /\ Fresh(n)
          /\ Arrive(h, [Idle EXCEPT !.pc = "refreshRedis", !.request = "refresh",
                                    !.pair = old, !.new = n])
    BY <1>2 DEF Refresh
  <2>2. PICK d : d = [Idle EXCEPT !.pc = "refreshRedis", !.request = "refresh",
                                  !.pair = old, !.new = n]
    OBVIOUS
  <2>3. Arrives(d, "refreshRedis", "refresh", old, n, NoPair, Nobody, {})
    BY <2>2, <1>c, <1>r, ArrivalRecords
  <2>4. Arrive(h, d)
    BY <2>1, <2>2
  <2> QED
    BY <2>1, <2>3, <2>4
<1>3. CASE \E p \in Passwords : ResetPassword(h, p)
  <2>1. PICK p \in Passwords :
          Arrive(h, [Idle EXCEPT !.pc = "resetFind", !.request = "resetPassword",
                                 !.credential = p])
    BY <1>3 DEF ResetPassword
  <2>2. PICK d : d = [Idle EXCEPT !.pc = "resetFind", !.request = "resetPassword",
                                  !.credential = p]
    OBVIOUS
  <2>4. Arrives(d, "resetFind", "resetPassword", NoPair, NoPair, NoPair, p, {})
    BY <2>2, ResetRecord
  <2>5. Arrive(h, d)
    BY <2>1, <2>2
  <2> QED
    BY <2>4, <2>5
<1>4. CASE \E r \in Guarded, n \in client, m \in Pairs \cup {NoPair},
             p \in Passwords \cup {Nobody} : Request(h, r, n, m, p)
  <2>1. PICK r \in Guarded, n \in client, m \in Pairs \cup {NoPair},
             p \in Passwords \cup {Nobody} : Request(h, r, n, m, p)
    BY <1>4
  <2>2. Covers(r, n, m) \in SUBSET Pairs
    BY <2>1, <1>c DEF Covers, Request
  <2>a. Arrive(h, [Idle EXCEPT !.pc = "authenticate", !.request = r, !.pair = n,
                   !.target = m, !.credential = p, !.covers = Covers(r, n, m)])
    BY <2>1 DEF Request
  <2>3. PICK S \in SUBSET Pairs : S = Covers(r, n, m)
    BY <2>2
  <2>b. Arrive(h, [Idle EXCEPT !.pc = "authenticate", !.request = r, !.pair = n,
                   !.target = m, !.credential = p, !.covers = S])
    BY <2>a, <2>3
  <2>4. PICK d : d = [Idle EXCEPT !.pc = "authenticate", !.request = r, !.pair = n,
                                  !.target = m, !.credential = p, !.covers = S]
    OBVIOUS
  <2>5. Arrives(d, "authenticate", r, n, NoPair, m, p, S)
    BY <2>4, <1>c, ArrivalRecords
  <2>6. Arrive(h, d)
    BY <2>b, <2>4
  <2>7. /\ r = "revokeSession" => m \in Pairs /\ row[m] # "none"
        /\ r = "changePassword" => p \in Passwords
    BY <2>1 DEF Request
  <2>8. /\ r = "revokeSession" => S = {m}
        /\ r = "logout" => S = {n}
        /\ r \in {"logoutAll", "changePassword"} => S = client
        /\ r = "fcm" => S = {}
    BY <2>3 DEF Covers
  <2> QED
    BY <2>5, <2>6, <2>7, <2>8
<1> QED
  BY <1>1, <1>2, <1>3, <1>4 DEF Arrival

LEMMA ArrivalTyped ==
    ASSUME Typed, NEW h \in Handlers, Arrival(h)
    PROVE  Typed'
<1> USE AccountAssumption
<1>1. PICK d : /\ Arrive(h, d)
               /\ \/ \E c \in Passwords \cup {Signature, Nobody}, n \in Pairs :
                        Arrives(d, "readIp", "signin", NoPair, n, NoPair, c, {})
                  \/ \E old \in client, n \in Pairs :
                        Arrives(d, "refreshRedis", "refresh", old, n, NoPair, Nobody, {})
                  \/ \E p \in Passwords :
                        Arrives(d, "resetFind", "resetPassword", NoPair, NoPair, NoPair, p, {})
                  \/ \E r \in Guarded, n \in client, m \in Pairs \cup {NoPair},
                        p \in Passwords \cup {Nobody}, S \in SUBSET Pairs :
                        /\ Arrives(d, "authenticate", r, n, NoPair, m, p, S)
                        /\ r = "revokeSession" => m \in Pairs /\ S = {m}
                        /\ r = "logout" => S = {n}
                        /\ r = "changePassword" => p \in Passwords
  BY ArrivalCases
<1>2. ASSUME \E c \in Passwords \cup {Signature, Nobody}, n \in Pairs :
             Arrives(d, "readIp", "signin", NoPair, n, NoPair, c, {})
      PROVE  Sound(d)
  <2>1. "readIp" \in Pcs \ {"idle"} /\ OnRoute("readIp", "signin") /\ "signin" \notin Guarded
    BY DEF Pcs, OnRoute, SignInSteps, Guarded
  <2> QED
    BY <1>2, <2>1 DEF Arrives, Sound, Issues
<1>3. ASSUME \E old \in client, n \in Pairs :
             Arrives(d, "refreshRedis", "refresh", old, n, NoPair, Nobody, {})
      PROVE  Sound(d)
  <2>1. "refreshRedis" \in Pcs \ {"idle"} /\ OnRoute("refreshRedis", "refresh") /\ client \subseteq Pairs
    BY DEF Pcs, OnRoute, RefreshSteps, Typed, TypeOK
  <2> QED
    BY <1>3, <2>1 DEF Arrives, Sound, Issues, Guarded
<1>4. ASSUME \E p \in Passwords :
             Arrives(d, "resetFind", "resetPassword", NoPair, NoPair, NoPair, p, {})
      PROVE  Sound(d)
  <2>1. /\ "resetFind" \in Pcs \ {"idle"} /\ OnRoute("resetFind", "resetPassword")
        /\ "resetPassword" \notin Guarded
    BY DEF Pcs, OnRoute, ResetSteps, Guarded
  <2> QED
    BY <1>4, <2>1 DEF Arrives, Sound, Issues
<1>5. ASSUME \E r \in Guarded, n \in client, m \in Pairs \cup {NoPair},
             p \in Passwords \cup {Nobody}, S \in SUBSET Pairs :
             /\ Arrives(d, "authenticate", r, n, NoPair, m, p, S)
             /\ r = "revokeSession" => m \in Pairs /\ S = {m}
             /\ r = "logout" => S = {n}
             /\ r = "changePassword" => p \in Passwords
      PROVE  Sound(d)
  <2>1. PICK r \in Guarded, n \in client, m \in Pairs \cup {NoPair},
             p \in Passwords \cup {Nobody}, S \in SUBSET Pairs :
             /\ Arrives(d, "authenticate", r, n, NoPair, m, p, S)
             /\ r = "revokeSession" => m \in Pairs /\ S = {m}
             /\ r = "logout" => S = {n}
             /\ r = "changePassword" => p \in Passwords
    BY <1>5
  <2>2. /\ r \notin {"signin", "refresh", "resetPassword"}
        /\ OnRoute("authenticate", r)
        /\ "authenticate" \in Pcs \ {"idle"}
        /\ n \in Pairs
    BY DEF Guarded, OnRoute, GuardSteps, Pcs, Typed, TypeOK
  <2> QED
    BY <2>1, <2>2 DEF Arrives, Sound, Issues
<1>6. Sound(d)
  BY <1>1, <1>2, <1>3, <1>4, <1>5
<1>7. handler' \in [Handlers -> Handler] /\ \A g \in Handlers : Sound(handler'[g])
  BY <1>1, <1>6, BecomesSound DEF Arrive
<1> QED
  BY <1>1, <1>7 DEF Arrive, Typed, TypeOK, counters, tokens

LEMMA PassingTyped ==
    ASSUME Typed, Passing
    PROVE  Typed'
<1>1. ASSUME NEW n \in Pairs, ExpireAccess(n) \/ ExpireRefresh(n)
      PROVE  Typed'
  BY <1>1 DEF ExpireAccess, ExpireRefresh, Typed, TypeOK, RowStatus, counters
<1>2. ASSUME NEW k \in Counters, CounterExpires(k)
      PROVE  Typed'
  BY <1>2 DEF CounterExpires, Del, Typed, TypeOK, tokens
<1>3. ASSUME LockExpires
      PROVE  Typed'
  <2>1. \A h \in Handlers : handler'[h] = [handler[h] EXCEPT !.user.locked = FALSE]
    BY <1>3 DEF LockExpires
  <2>2. \A h \in Handlers : Sound(handler'[h])
    BY <2>1, UnlockSound DEF Typed
  <2>3. handler' \in [Handlers -> Handler]
    BY <1>3, <2>2 DEF LockExpires, Sound
  <2>4. user' \in User /\ user'.version > 0
    BY <1>3 DEF LockExpires, Typed, TypeOK, User
  <2> QED
    BY <1>3, <2>2, <2>3, <2>4 DEF LockExpires, Typed, TypeOK, counters, tokens
<1> QED
  BY <1>1, <1>2, <1>3 DEF Passing

\* Steps that change nothing but the request's own record.
LEMMA OwnStepTyped ==
    ASSUME Typed, UNCHANGED <<user, counters, tokens, faults>>,
           handler' \in [Handlers -> Handler], \A g \in Handlers : Sound(handler'[g])
    PROVE  Typed'
BY DEF Typed, TypeOK, counters, tokens

LEMMA JudgingTyped ==
    ASSUME Typed, NEW h \in Handlers, Judging(h)
    PROVE  Typed'
<1> USE DEF At
<1>d. /\ Sound(handler[h])
      /\ handler[h] \in Handler
  BY DEF Typed, Sound
<1>1. ASSUME ReadIp(h)
      PROVE  Typed'
  <2>1. SameRoute(handler[h].pc, "findUser")
    BY <1>1 DEF ReadIp, SameRoute, SignInSteps
  <2>2. handler' \in [Handlers -> Handler] /\ \A g \in Handlers : Sound(handler'[g])
    BY <1>1, <2>1, GotoOnRoute, RejectSound DEF ReadIp
  <2> QED
    BY <1>1, <2>2, OwnStepTyped DEF ReadIp
<1>2. ASSUME FindUser(h)
      PROVE  Typed'
  <2>1. /\ SameRoute(handler[h].pc, "incrIp")
        /\ SameRoute(handler[h].pc, "incrUser")
        /\ SameRoute(handler[h].pc, "clearUser")
    BY <1>2 DEF FindUser, SameRoute, SignInSteps
  <2>2. ASSUME NEW pc, SameRoute(handler[h].pc, pc)
        PROVE  Sound([handler[h] EXCEPT !.user = user, !.credential = Nobody, !.pc = pc])
    <3>1. pc \in Pcs \ {"idle"} /\ OnRoute(pc, handler[h].request) /\ handler[h].pc # "idle"
      BY <2>2, <1>d, RouteKept DEF Sound
    <3>2. handler[h].request = "signin"
      BY <1>2, <1>d, RequestAt DEF FindUser, SignInSteps, Sound
    <3>3. user \in User /\ user.version > 0
      BY DEF Typed, TypeOK
    <3>4. PICK d : d = [handler[h] EXCEPT !.user = user, !.credential = Nobody, !.pc = pc]
      OBVIOUS
    <3>5. /\ d \in Handler
          /\ d.pc = pc /\ d.user = user /\ d.request = "signin" /\ d.new = handler[h].new
      BY <3>1, <3>2, <3>3, <3>4, <1>d DEF Handler
    <3>6. Sound(d)
      BY <3>1, <3>2, <3>3, <3>5, <1>d DEF Sound, Issues, Guarded
    <3> QED
      BY <3>4, <3>6
  <2>3. handler' \in [Handlers -> Handler] /\ \A g \in Handlers : Sound(handler'[g])
    <3>1. CASE Goto(h, "incrIp")
      BY <3>1, <2>1, GotoOnRoute
    <3>2. CASE Reject(h)
      BY <3>2, RejectSound
    <3>3. CASE \E pc \in {"clearUser", "incrUser"} :
            Becomes(h, [handler[h] EXCEPT !.user = user, !.credential = Nobody, !.pc = pc])
      BY <3>3, <2>1, <2>2, BecomesSound
    <3> QED
      BY <1>2, <3>1, <3>2, <3>3 DEF FindUser
  <2> QED
    BY <1>2, <2>3, OwnStepTyped DEF FindUser
<1>3. ASSUME IncrUser(h)
      PROVE  Typed'
  <2>1. /\ SameRoute(handler[h].pc, "expireUser")
        /\ SameRoute(handler[h].pc, "incrIp")
    BY <1>3 DEF IncrUser, SameRoute, SignInSteps
  <2>2. attempts["user"] + 1 \in Nat
    BY DEF Typed, TypeOK, Counters
  <2>3. ASSUME NEW pc, SameRoute(handler[h].pc, pc), NEW count \in Nat
        PROVE  Sound([handler[h] EXCEPT !.count = count, !.pc = pc])
    <3>1. pc \in Pcs \ {"idle"} /\ OnRoute(pc, handler[h].request) /\ handler[h].pc # "idle"
      BY <2>3, <1>d, RouteKept DEF Sound
    <3> QED
      BY <3>1, <1>d DEF Sound, Issues, Handler
  <2>4. handler' \in [Handlers -> Handler] /\ \A g \in Handlers : Sound(handler'[g])
    <3>1. PICK count \in Nat, pc \in {"expireUser", "incrIp"} :
            Becomes(h, [handler[h] EXCEPT !.count = count, !.pc = pc])
      BY <1>3, <2>2 DEF IncrUser
    <3> QED
      BY <3>1, <2>1, <2>3, BecomesSound
  <2>5. attempts' \in [Counters -> Nat]
    BY <1>3 DEF IncrUser, Incr, Typed, TypeOK, Counters
  <2> QED
    BY <1>3, <2>4, <2>5 DEF IncrUser, Incr, Typed, TypeOK, tokens
<1>4. ASSUME ExpireUser(h)
      PROVE  Typed'
  <2>1. SameRoute(handler[h].pc, "incrIp")
    BY <1>4 DEF ExpireUser, SameRoute, SignInSteps
  <2>2. handler' \in [Handlers -> Handler] /\ \A g \in Handlers : Sound(handler'[g])
    BY <1>4, <2>1, GotoOnRoute DEF ExpireUser
  <2> QED
    BY <1>4, <2>2 DEF ExpireUser, Expire, Typed, TypeOK, tokens, Counters
<1>5. ASSUME IncrIp(h)
      PROVE  Typed'
  <2>1. SameRoute(handler[h].pc, "expireIp")
    BY <1>5 DEF IncrIp, SameRoute, SignInSteps
  <2>2. handler' \in [Handlers -> Handler] /\ \A g \in Handlers : Sound(handler'[g])
    BY <1>5, <2>1, GotoOnRoute DEF IncrIp
  <2>3. attempts' \in [Counters -> Nat]
    BY <1>5 DEF IncrIp, Incr, Typed, TypeOK, Counters
  <2> QED
    BY <1>5, <2>2, <2>3 DEF IncrIp, Incr, Typed, TypeOK, tokens
<1>6. ASSUME ExpireIp(h)
      PROVE  Typed'
  <2>1. SameRoute(handler[h].pc, "lock")
    BY <1>6 DEF ExpireIp, SameRoute, SignInSteps
  <2>2. handler' \in [Handlers -> Handler] /\ \A g \in Handlers : Sound(handler'[g])
    BY <1>6, <2>1, GotoOnRoute, RejectSound DEF ExpireIp
  <2> QED
    BY <1>6, <2>2 DEF ExpireIp, Expire, Typed, TypeOK, tokens, Counters
<1>7. ASSUME LockSave(h)
      PROVE  Typed'
  <2>1. handler' \in [Handlers -> Handler] /\ \A g \in Handlers : Sound(handler'[g])
    BY <1>7, RejectSound DEF LockSave
  <2>2. user' \in User /\ user'.version > 0
    BY <1>7, <1>d DEF LockSave, Sound, Handler, User
  <2> QED
    BY <1>7, <2>1, <2>2 DEF LockSave, Typed, TypeOK, tokens, counters
<1> QED
  BY <1>1, <1>2, <1>3, <1>4, <1>5, <1>6, <1>7 DEF Judging

LEMMA IssuingTyped ==
    ASSUME Typed, NEW h \in Handlers, Issuing(h)
    PROVE  Typed'
<1> USE DEF At
<1>d. /\ Sound(handler[h])
      /\ handler[h] \in Handler
  BY DEF Typed, Sound
<1>1. ASSUME ClearUser(h)
      PROVE  Typed'
  <2>1. SameRoute(handler[h].pc, "clearIp")
    BY <1>1 DEF ClearUser, SameRoute, SignInSteps
  <2>2. handler' \in [Handlers -> Handler] /\ \A g \in Handlers : Sound(handler'[g])
    BY <1>1, <2>1, GotoOnRoute DEF ClearUser
  <2> QED
    BY <1>1, <2>2 DEF ClearUser, Del, Typed, TypeOK, tokens, Counters
<1>2. ASSUME ClearIp(h)
      PROVE  Typed'
  <2>1. SameRoute(handler[h].pc, "saveUser")
    BY <1>2 DEF ClearIp, SameRoute, SignInSteps
  <2>2. handler' \in [Handlers -> Handler] /\ \A g \in Handlers : Sound(handler'[g])
    BY <1>2, <2>1, GotoOnRoute DEF ClearIp
  <2> QED
    BY <1>2, <2>2 DEF ClearIp, Del, Typed, TypeOK, tokens, Counters
<1>3. ASSUME SaveUser(h)
      PROVE  Typed'
  <2>1. SameRoute(handler[h].pc, "mintRedis")
    BY <1>3 DEF SaveUser, SameRoute, SignInSteps
  <2>2. handler' \in [Handlers -> Handler] /\ \A g \in Handlers : Sound(handler'[g])
    BY <1>3, <2>1, GotoOnRoute DEF SaveUser
  <2>3. user' \in User /\ user'.version > 0
    BY <1>3, <1>d DEF SaveUser, Sound, Handler, User
  <2> QED
    BY <1>3, <2>2, <2>3 DEF SaveUser, Typed, TypeOK, tokens, counters
<1>4. ASSUME MintRedis(h)
      PROVE  Typed'
  <2>1. SameRoute(handler[h].pc, "mintRow")
    BY <1>4 DEF MintRedis, SameRoute, SignInSteps
  <2>2. handler' \in [Handlers -> Handler] /\ \A g \in Handlers : Sound(handler'[g])
    BY <1>4, <2>1, GotoOnRoute DEF MintRedis
  <2>3. handler[h].new \in Pairs
    BY <1>4, <1>d, RequestAt DEF MintRedis, Sound, Issues, SignInSteps
  <2>4. handler[h].user.version \in Nat
    BY <1>d DEF Handler, User
  <2> QED
    BY <1>4, <2>2, <2>3, <2>4 DEF MintRedis, Typed, TypeOK, counters
<1>5. ASSUME MintRow(h)
      PROVE  Typed'
  <2>1. SameRoute(handler[h].pc, "mintRedisAgain")
    BY <1>5 DEF MintRow, SameRoute, SignInSteps
  <2>2. handler' \in [Handlers -> Handler] /\ \A g \in Handlers : Sound(handler'[g])
    BY <1>5, <2>1, GotoOnRoute DEF MintRow
  <2>3. handler[h].new \in Pairs
    BY <1>5, <1>d, RequestAt DEF MintRow, Sound, Issues, SignInSteps
  <2> QED
    BY <1>5, <2>2, <2>3 DEF MintRow, Typed, TypeOK, counters, RowStatus
<1>6. ASSUME MintRedisAgain(h)
      PROVE  Typed'
  <2>1. handler[h].new \in Pairs
    BY <1>6, <1>d, RequestAt DEF MintRedisAgain, Sound, Issues, SignInSteps
  <2>2. /\ handler' \in [Handlers -> Handler] /\ \A g \in Handlers : Sound(handler'[g])
        /\ ended' \in [Pairs -> SUBSET Ways]
        /\ client' \in SUBSET Pairs
    BY <1>6, AnswerTyped DEF MintRedisAgain
  <2> QED
    BY <1>6, <2>1, <2>2 DEF MintRedisAgain, Typed, TypeOK, counters
<1>7. ASSUME RefreshRedis(h)
      PROVE  Typed'
  <2>1. SameRoute(handler[h].pc, "refreshRow")
    BY <1>7 DEF RefreshRedis, SameRoute, RefreshSteps
  <2>2. handler' \in [Handlers -> Handler] /\ \A g \in Handlers : Sound(handler'[g])
    BY <1>7, <2>1, GotoOnRoute, RejectSound DEF RefreshRedis
  <2> QED
    BY <1>7, <2>2, OwnStepTyped DEF RefreshRedis
<1>8. ASSUME RefreshRow(h)
      PROVE  Typed'
  <2>1. SameRoute(handler[h].pc, "refreshUser")
    BY <1>8 DEF RefreshRow, SameRoute, RefreshSteps
  <2>2. handler' \in [Handlers -> Handler] /\ \A g \in Handlers : Sound(handler'[g])
    BY <1>8, <2>1, GotoOnRoute, RejectSound DEF RefreshRow
  <2> QED
    BY <1>8, <2>2, OwnStepTyped DEF RefreshRow
<1>9. ASSUME RefreshUser(h)
      PROVE  Typed'
  <2>1. SameRoute(handler[h].pc, "refreshSet")
    BY <1>9 DEF RefreshUser, SameRoute, RefreshSteps
  <2>2. Sound([handler[h] EXCEPT !.user = user, !.pc = "refreshSet"])
    <3>1. "refreshSet" \in Pcs \ {"idle"} /\ OnRoute("refreshSet", handler[h].request) /\ handler[h].pc # "idle"
      BY <2>1, <1>d, RouteKept DEF Sound
    <3>2. user \in User /\ user.version > 0
      BY DEF Typed, TypeOK
    <3> QED
      BY <3>1, <3>2, <1>d DEF Sound, Issues, Handler
  <2>3. handler' \in [Handlers -> Handler] /\ \A g \in Handlers : Sound(handler'[g])
    BY <1>9, <2>2, BecomesSound DEF RefreshUser
  <2> QED
    BY <1>9, <2>3, OwnStepTyped DEF RefreshUser
<1>10. ASSUME RefreshSet(h)
      PROVE  Typed'
  <2>1. SameRoute(handler[h].pc, "refreshInsert")
    BY <1>10 DEF RefreshSet, SameRoute, RefreshSteps
  <2>2. handler' \in [Handlers -> Handler] /\ \A g \in Handlers : Sound(handler'[g])
    BY <1>10, <2>1, GotoOnRoute DEF RefreshSet
  <2>3. handler[h].new \in Pairs
    BY <1>10, <1>d, RequestAt DEF RefreshSet, Sound, Issues, RefreshSteps
  <2>4. handler[h].user.version \in Nat
    BY <1>d DEF Handler, User
  <2> QED
    BY <1>10, <2>2, <2>3, <2>4 DEF RefreshSet, Typed, TypeOK, counters
<1>11. ASSUME RefreshInsert(h)
      PROVE  Typed'
  <2>1. SameRoute(handler[h].pc, "refreshDrop")
    BY <1>11 DEF RefreshInsert, SameRoute, RefreshSteps
  <2>2. handler' \in [Handlers -> Handler] /\ \A g \in Handlers : Sound(handler'[g])
    BY <1>11, <2>1, GotoOnRoute DEF RefreshInsert
  <2>3. handler[h].new \in Pairs
    BY <1>11, <1>d, RequestAt DEF RefreshInsert, Sound, Issues, RefreshSteps
  <2> QED
    BY <1>11, <2>2, <2>3 DEF RefreshInsert, Typed, TypeOK, counters, RowStatus
<1>12. ASSUME RefreshDrop(h)
      PROVE  Typed'
  <2>1. SameRoute(handler[h].pc, "refreshRevoke")
    BY <1>12 DEF RefreshDrop, SameRoute, RefreshSteps
  <2>2. handler' \in [Handlers -> Handler] /\ \A g \in Handlers : Sound(handler'[g])
    BY <1>12, <2>1, GotoOnRoute DEF RefreshDrop
  <2> QED
    BY <1>12, <2>2 DEF RefreshDrop, Typed, TypeOK, counters
<1>13. ASSUME RefreshRevoke(h)
      PROVE  Typed'
  <2>1. handler[h].request = "refresh" /\ handler[h].request \in Ways
    BY <1>13, <1>d, RequestAt DEF RefreshRevoke, Sound, RefreshSteps, Ways
  <2>2. /\ handler' \in [Handlers -> Handler] /\ \A g \in Handlers : Sound(handler'[g])
        /\ ended' \in [Pairs -> SUBSET Ways]
        /\ client' \in SUBSET Pairs
    BY <1>13, <2>1, AnswerTyped DEF RefreshRevoke
  <2> QED
    BY <1>13, <2>2 DEF RefreshRevoke, Typed, TypeOK, counters, RowStatus
<1> QED
  BY <1>1, <1>2, <1>3, <1>4, <1>5, <1>6, <1>7, <1>8, <1>9, <1>10, <1>11, <1>12, <1>13 DEF Issuing

LEMMA EndingTyped ==
    ASSUME Typed, NEW h \in Handlers, Ending(h)
    PROVE  Typed'
<1> USE DEF At
<1>d. /\ Sound(handler[h])
      /\ handler[h] \in Handler
  BY DEF Typed, Sound
<1>1. ASSUME Authenticate(h)
      PROVE  Typed'
  <2>1. SameRoute(handler[h].pc, "checkBlacklist")
    BY <1>1 DEF Authenticate, SameRoute, GuardSteps
  <2>2. handler' \in [Handlers -> Handler] /\ \A g \in Handlers : Sound(handler'[g])
    BY <1>1, <2>1, GotoOnRoute, RejectSound DEF Authenticate
  <2> QED
    BY <1>1, <2>2, OwnStepTyped DEF Authenticate
<1>2. ASSUME CheckBlacklist(h)
      PROVE  Typed'
  <2>1. handler[h].request \in Guarded
    BY <1>2, <1>d, RequestAt DEF CheckBlacklist, Sound, GuardSteps
  <2>2. /\ handler[h].request \in Pcs \ {"idle"}
        /\ OnRoute(handler[h].request, handler[h].request)
    BY <2>1 DEF Guarded, Pcs, OnRoute, LogoutSteps, SessionSteps, AllSteps, ChangeSteps, FcmSteps
  <2>3. handler' \in [Handlers -> Handler] /\ \A g \in Handlers : Sound(handler'[g])
    BY <1>2, <2>2, GotoSound, RejectSound DEF CheckBlacklist
  <2> QED
    BY <1>2, <2>3, OwnStepTyped DEF CheckBlacklist
<1>3. ASSUME Logout(h)
      PROVE  Typed'
  <2>1. SameRoute(handler[h].pc, "logoutRedis")
    BY <1>3 DEF Logout, SameRoute, LogoutSteps
  <2>2. handler' \in [Handlers -> Handler] /\ \A g \in Handlers : Sound(handler'[g])
    BY <1>3, <2>1, GotoOnRoute DEF Logout
  <2>3. handler[h].pair \in Pairs
    BY <1>3, <1>d, RequestAt DEF Logout, Sound, LogoutSteps, Guarded
  <2> QED
    BY <1>3, <2>2, <2>3 DEF Logout, Typed, TypeOK, counters
<1>4. ASSUME LogoutRedis(h)
      PROVE  Typed'
  <2>1. SameRoute(handler[h].pc, "logoutRevoke")
    BY <1>4 DEF LogoutRedis, SameRoute, LogoutSteps
  <2>2. handler' \in [Handlers -> Handler] /\ \A g \in Handlers : Sound(handler'[g])
    BY <1>4, <2>1, GotoOnRoute DEF LogoutRedis
  <2> QED
    BY <1>4, <2>2 DEF LogoutRedis, Typed, TypeOK, counters
<1>5. ASSUME LogoutRevoke(h)
      PROVE  Typed'
  <2>1. handler[h].request \in Ways
    BY <1>5, <1>d, RequestAt DEF LogoutRevoke, Sound, LogoutSteps, Ways
  <2>2. /\ handler' \in [Handlers -> Handler] /\ \A g \in Handlers : Sound(handler'[g])
        /\ ended' \in [Pairs -> SUBSET Ways]
        /\ client' \in SUBSET Pairs
    BY <1>5, <2>1, AnswerTyped DEF LogoutRevoke
  <2> QED
    BY <1>5, <2>2 DEF LogoutRevoke, Typed, TypeOK, counters, RowStatus
<1>6. ASSUME RevokeSession(h)
      PROVE  Typed'
  <2>1. SameRoute(handler[h].pc, "sessionRedis")
    BY <1>6 DEF RevokeSession, SameRoute, SessionSteps
  <2>2. handler' \in [Handlers -> Handler] /\ \A g \in Handlers : Sound(handler'[g])
    BY <1>6, <2>1, GotoOnRoute DEF RevokeSession
  <2> QED
    BY <1>6, <2>2, OwnStepTyped DEF RevokeSession
<1>7. ASSUME SessionRedis(h)
      PROVE  Typed'
  <2>1. SameRoute(handler[h].pc, "sessionRevoke")
    BY <1>7 DEF SessionRedis, SameRoute, SessionSteps
  <2>2. handler' \in [Handlers -> Handler] /\ \A g \in Handlers : Sound(handler'[g])
    BY <1>7, <2>1, GotoOnRoute DEF SessionRedis
  <2> QED
    BY <1>7, <2>2 DEF SessionRedis, Typed, TypeOK, counters
<1>8. ASSUME SessionRevoke(h)
      PROVE  Typed'
  <2>1. handler[h].request \in Ways
    BY <1>8, <1>d, RequestAt DEF SessionRevoke, Sound, SessionSteps, Ways
  <2>2. /\ handler' \in [Handlers -> Handler] /\ \A g \in Handlers : Sound(handler'[g])
        /\ ended' \in [Pairs -> SUBSET Ways]
        /\ client' \in SUBSET Pairs
    BY <1>8, <2>1, AnswerTyped DEF SessionRevoke
  <2> QED
    BY <1>8, <2>2 DEF SessionRevoke, Typed, TypeOK, counters, RowStatus
<1>9. ASSUME LogoutAll(h)
      PROVE  Typed'
  <2>1. SameRoute(handler[h].pc, "revokeAll")
    BY <1>9 DEF LogoutAll, SameRoute, AllSteps
  <2>2. handler' \in [Handlers -> Handler] /\ \A g \in Handlers : Sound(handler'[g])
    BY <1>9, <2>1, GotoOnRoute DEF LogoutAll
  <2>3. user' \in User /\ user'.version > 0
    BY <1>9 DEF LogoutAll, Typed, TypeOK, User
  <2> QED
    BY <1>9, <2>2, <2>3 DEF LogoutAll, Typed, TypeOK, tokens, counters
<1>10. ASSUME RevokeAll(h)
      PROVE  Typed'
  <2>1. SameRoute(handler[h].pc, "findRevoked")
    BY <1>10 DEF RevokeAll, SameRoute, AllSteps
  <2>2. handler' \in [Handlers -> Handler] /\ \A g \in Handlers : Sound(handler'[g])
    BY <1>10, <2>1, GotoOnRoute DEF RevokeAll
  <2> QED
    BY <1>10, <2>2 DEF RevokeAll, Typed, TypeOK, counters, RowStatus
<1>11. ASSUME FindRevoked(h)
      PROVE  Typed'
  <2>1. SameRoute(handler[h].pc, "dropAll")
    BY <1>11 DEF FindRevoked, SameRoute, AllSteps
  <2>2. "dropAll" \in Pcs \ {"idle"} /\ OnRoute("dropAll", handler[h].request) /\ handler[h].pc # "idle"
    BY <2>1, <1>d, RouteKept DEF Sound
  <2>3. \A S \in SUBSET Pairs : Sound([handler[h] EXCEPT !.pc = "dropAll", !.found = S])
    BY <2>2, <1>d DEF Sound, Issues, Handler
  <2>4. \E S \in SUBSET Pairs : Becomes(h, [handler[h] EXCEPT !.pc = "dropAll", !.found = S])
    BY <1>11 DEF FindRevoked
  <2>5. handler' \in [Handlers -> Handler] /\ \A g \in Handlers : Sound(handler'[g])
    BY <2>3, <2>4, BecomesSound
  <2> QED
    BY <1>11, <2>5, OwnStepTyped DEF FindRevoked
<1>12. ASSUME DropAll(h)
      PROVE  Typed'
  <2>1. handler[h].request \in Ways
    BY <1>12, <1>d, RequestAt DEF DropAll, Sound, AllSteps, Ways
  <2>2. /\ handler' \in [Handlers -> Handler] /\ \A g \in Handlers : Sound(handler'[g])
        /\ ended' \in [Pairs -> SUBSET Ways]
        /\ client' \in SUBSET Pairs
    BY <1>12, <2>1, AnswerTyped DEF DropAll
  <2> QED
    BY <1>12, <2>2 DEF DropAll, Typed, TypeOK, counters
<1> QED
  BY <1>1, <1>2, <1>3, <1>4, <1>5, <1>6, <1>7, <1>8, <1>9, <1>10, <1>11, <1>12 DEF Ending

LEMMA UpdatingTyped ==
    ASSUME Typed, NEW h \in Handlers, Updating(h)
    PROVE  Typed'
<1> USE DEF At
<1>d. /\ Sound(handler[h])
      /\ handler[h] \in Handler
  BY DEF Typed, Sound
<1>1. ASSUME ChangePassword(h)
      PROVE  Typed'
  <2>1. SameRoute(handler[h].pc, "changeSave")
    BY <1>1 DEF ChangePassword, SameRoute, ChangeSteps
  <2>2. handler' \in [Handlers -> Handler] /\ \A g \in Handlers : Sound(handler'[g])
    BY <1>1, <2>1, GotoOnRoute, RejectSound DEF ChangePassword
  <2> QED
    BY <1>1, <2>2, OwnStepTyped DEF ChangePassword
<1>2. ASSUME ChangeSave(h)
      PROVE  Typed'
  <2>1. SameRoute(handler[h].pc, "logoutAll")
    BY <1>2 DEF ChangeSave, SameRoute, ChangeSteps
  <2>2. handler' \in [Handlers -> Handler] /\ \A g \in Handlers : Sound(handler'[g])
    BY <1>2, <2>1, GotoOnRoute DEF ChangeSave
  <2>3. handler[h].credential \in Passwords
    BY <1>2, <1>d, RequestAt DEF ChangeSave, Sound, ChangeSteps
  <2>4. user' \in User /\ user'.version > 0
    BY <1>2, <2>3 DEF ChangeSave, Typed, TypeOK, User
  <2> QED
    BY <1>2, <2>2, <2>4 DEF ChangeSave, Typed, TypeOK, tokens, counters
<1>3. ASSUME ResetFind(h)
      PROVE  Typed'
  <2>1. SameRoute(handler[h].pc, "resetSave")
    BY <1>3 DEF ResetFind, SameRoute, ResetSteps
  <2>2. handler' \in [Handlers -> Handler] /\ \A g \in Handlers : Sound(handler'[g])
    BY <1>3, <2>1, GotoOnRoute, RejectSound DEF ResetFind
  <2> QED
    BY <1>3, <2>2, OwnStepTyped DEF ResetFind
<1>4. ASSUME ResetSave(h)
      PROVE  Typed'
  <2>1. handler[h].credential \in Passwords
    BY <1>4, <1>d, RequestAt DEF ResetSave, Sound, ResetSteps
  <2>2. /\ handler' \in [Handlers -> Handler] /\ \A g \in Handlers : Sound(handler'[g])
        /\ ended' \in [Pairs -> SUBSET Ways]
        /\ client' \in SUBSET Pairs
    BY <1>4, AnswerTyped DEF ResetSave
  <2>3. user' \in User /\ user'.version > 0
    BY <1>4, <2>1 DEF ResetSave, Typed, TypeOK, User
  <2> QED
    BY <1>4, <2>2, <2>3 DEF ResetSave, Typed, TypeOK, counters
<1>5. ASSUME FcmFind(h)
      PROVE  Typed'
  <2>1. SameRoute(handler[h].pc, "fcmSave")
    BY <1>5 DEF FcmFind, SameRoute, FcmSteps
  <2>2. Sound([handler[h] EXCEPT !.user = user, !.pc = "fcmSave"])
    <3>1. "fcmSave" \in Pcs \ {"idle"} /\ OnRoute("fcmSave", handler[h].request) /\ handler[h].pc # "idle"
      BY <2>1, <1>d, RouteKept DEF Sound
    <3>2. user \in User /\ user.version > 0
      BY DEF Typed, TypeOK
    <3> QED
      BY <3>1, <3>2, <1>d DEF Sound, Issues, Handler
  <2>3. handler' \in [Handlers -> Handler] /\ \A g \in Handlers : Sound(handler'[g])
    BY <1>5, <2>2, BecomesSound DEF FcmFind
  <2> QED
    BY <1>5, <2>3, OwnStepTyped DEF FcmFind
<1>6. ASSUME FcmSave(h)
      PROVE  Typed'
  <2>2. /\ handler' \in [Handlers -> Handler] /\ \A g \in Handlers : Sound(handler'[g])
        /\ ended' \in [Pairs -> SUBSET Ways]
        /\ client' \in SUBSET Pairs
    BY <1>6, AnswerTyped DEF FcmSave
  <2>3. user' \in User /\ user'.version > 0
    BY <1>6, <1>d DEF FcmSave, Sound, Handler, User, Typed, TypeOK
  <2> QED
    BY <1>6, <2>2, <2>3 DEF FcmSave, Typed, TypeOK, counters
<1> QED
  BY <1>1, <1>2, <1>3, <1>4, <1>5, <1>6 DEF Updating

LEMMA FaultTyped ==
    ASSUME Typed, (\E h \in Handlers : CallFails(h)) \/ Restart
    PROVE  Typed'
<1> USE AccountAssumption DEF At
<1>1. faults' \in Nat /\ UNCHANGED <<user, counters, tokens>>
  BY DEF CallFails, Restart, Typed, TypeOK
<1>2. handler' \in [Handlers -> Handler] /\ \A g \in Handlers : Sound(handler'[g])
  <2>1. CASE Restart
    BY <2>1, IdleSound DEF Restart, Sound
  <2>2. ASSUME NEW h \in Handlers, CallFails(h)
        PROVE  handler' \in [Handlers -> Handler] /\ \A g \in Handlers : Sound(handler'[g])
    <3>1. CASE Reject(h)
      BY <3>1, RejectSound
    <3>2. CASE handler[h].pc = "logout" /\ Goto(h, "logoutRedis")
      <4>1. SameRoute(handler[h].pc, "logoutRedis")
        BY <3>2 DEF SameRoute, LogoutSteps
      <4> QED
        BY <3>2, <4>1, GotoOnRoute
    <3> QED
      BY <2>2, <3>1, <3>2 DEF CallFails
  <2> QED
    BY <2>1, <2>2
<1> QED
  BY <1>1, <1>2 DEF Typed, TypeOK, counters, tokens

LEMMA InitTyped == Init => Typed
<1>1. Idle.user \in User /\ Idle.user.version > 0
  BY AccountAssumption DEF Idle, User
<1> QED
  BY <1>1, IdleSound DEF Init, Typed, TypeOK, Sound, RowStatus, Counters

LEMMA NextTyped ==
    ASSUME Typed, [Next]_vars
    PROVE  Typed'
<1>1. CASE UNCHANGED vars
  BY <1>1 DEF vars, counters, tokens, Typed, TypeOK
<1> QED
  BY <1>1, ArrivalTyped, PassingTyped, JudgingTyped, IssuingTyped, EndingTyped,
     UpdatingTyped, FaultTyped DEF Next

LEMMA TypedAlways == Spec => []Typed
BY InitTyped, NextTyped, PTL DEF Spec

\* Every request carries what its calls need, and no step leaves the types.
THEOREM TypeCorrect == Spec => []TypeOK
<1>1. Typed => TypeOK
  BY DEF Typed
<1> QED
  BY <1>1, TypedAlways, PTL

-----------------------------------------------------------------------------
(* Tokens are issued once, and what ended a session stays.                 *)

\* The call moves on, the request stays the same.
SameRequest(d, e) ==
    /\ e.request = d.request
    /\ e.pair = d.pair
    /\ e.new = d.new
    /\ e.target = d.target
    /\ e.covers = d.covers

\* Versions and rows only move forward.
Forward(V, R, C, V2, R2, C2) ==
    /\ \A n \in Pairs : V[n] > 0 => V2[n] > 0
    /\ \A n \in Pairs : R[n] # "none" => R2[n] # "none"
    /\ \A n \in Pairs : R[n] = "revoked" => R2[n] = "revoked"
    /\ C \subseteq C2

\* What is not issued to d stays unissued.
Reserved(d, R, R2, C2) ==
    d.new \in Pairs =>
        /\ d.new \notin C2
        /\ R[d.new] = "none" => R2[d.new] = "none"

LEMMA KnowsStays ==
    ASSUME NEW d, Sound(d), NEW V, NEW R, NEW C, NEW V2, NEW R2, NEW C2,
           Knows(d, V, R, C), Forward(V, R, C, V2, R2, C2), Reserved(d, R, R2, C2)
    PROVE  Knows(d, V2, R2, C2)
<1>1. /\ d.covers \subseteq Pairs
      /\ d.request = "revokeSession" => d.target \in Pairs
      /\ d.pc \in Inserted \cup {"mintRow", "refreshInsert"} => d.new \in Pairs
      /\ d.new \in Pairs <=> Issues(d)
  BY RequestAt DEF Sound, Handler, Inserted, Issues, SignInSteps, RefreshSteps
<1>2. d.pc \in {"mintRow", "refreshInsert"} => V2[d.new] > 0
  BY <1>1 DEF Knows, Forward
<1>3. d.pc \in Inserted => R2[d.new] # "none"
  BY <1>1 DEF Knows, Forward
<1>4. d.request = "revokeSession" => R2[d.target] # "none"
  BY <1>1 DEF Knows, Forward
<1>5. \A n \in d.covers : R2[n] # "none"
  BY <1>1 DEF Knows, Forward
<1>6. d.pc \in {"findRevoked", "dropAll"} => \A n \in d.covers : R2[n] = "revoked"
  BY <1>1 DEF Knows, Forward
<1>7. d.new \in Pairs => d.new \notin C2
  BY DEF Reserved
<1>8. Issues(d) /\ d.pc \notin Inserted => R2[d.new] = "none"
  BY <1>1 DEF Knows, Reserved
<1>9. d.request \in {"refresh"} \cup Guarded => d.pair \in C2
  BY DEF Knows, Forward
<1> QED
  BY <1>2, <1>3, <1>4, <1>5, <1>6, <1>7, <1>8, <1>9 DEF Knows

LEMMA IdleKnows ==
    ASSUME NEW V, NEW R, NEW C
    PROVE  Knows(Idle, V, R, C)
BY IdleSound, AccountAssumption DEF Knows, Issues, Inserted, Idle, Guarded

\* One request moves; the others keep what they know.
LEMMA StepIssues ==
    ASSUME Typed, Issuance, NEW h \in Handlers, NEW e, Becomes(h, e),
           Knows(e, version', row', client'),
           e.new \in {handler[h].new, NoPair},
           Forward(version, row, client, version', row', client'),
           \A g \in Handlers \ {h} : Reserved(handler[g], row, row', client'),
           TokensOK'
    PROVE  Issuance'
<1>1. /\ handler'[h] = e
      /\ \A g \in Handlers \ {h} : handler'[g] = handler[g]
  BY DEF Becomes, Typed, TypeOK
<1>2. \A g \in Handlers \ {h} : Knows(handler'[g], version', row', client')
  <2>1. ASSUME NEW g \in Handlers \ {h}
        PROVE  Knows(handler[g], version', row', client')
    BY <2>1, KnowsStays DEF Typed, Issuance
  <2> QED
    BY <1>1, <2>1
<1>3. ASSUME NEW f \in Handlers, NEW g \in Handlers, f # g, handler'[f].new = handler'[g].new
      PROVE  handler'[f].new = NoPair
  BY <1>1, <1>3 DEF Issuance
<1> QED
  BY <1>1, <1>2, <1>3 DEF Issuance

\* Steps that issue nothing and touch no row.
LEMMA QuietStep ==
    ASSUME Typed, Issuance, NEW h \in Handlers, NEW e, Becomes(h, e),
           UNCHANGED <<version, row, client, ended>>,
           \/ e = Idle
           \/ /\ SameRequest(handler[h], e)
              /\ handler[h].pc # "idle"
              /\ e.pc \notin {"mintRow", "refreshInsert"}
              /\ e.pc \in Inserted <=> handler[h].pc \in Inserted
              /\ e.pc \in {"findRevoked", "dropAll"} => handler[h].pc \in {"findRevoked", "dropAll"}
    PROVE  Issuance'
<1>1. TokensOK'
  BY DEF Issuance, TokensOK
<1>2. Knows(handler[h], version, row, client)
  BY DEF Issuance
<1>3. Knows(e, version, row, client) /\ e.new \in {handler[h].new, NoPair}
  <2>1. CASE e = Idle
    BY <2>1, IdleKnows, IdleSound
  <2>2. CASE e # Idle
    BY <2>2, <1>2 DEF Knows, SameRequest, Issues
  <2> QED
    BY <2>1, <2>2
<1>4. Forward(version, row, client, version', row', client')
  BY DEF Forward
<1>5. \A g \in Handlers : Reserved(handler[g], row, row', client')
  BY DEF Reserved, Issuance, Knows
<1>6. Knows(e, version', row', client')
  BY <1>3
<1> QED
  BY <1>1, <1>3, <1>4, <1>5, <1>6, StepIssues

\* The calls that neither issue tokens nor touch a row.
Quiet2(p, q) ==
    /\ p # "idle"
    /\ q \notin {"mintRow", "refreshInsert"}
    /\ q \in Inserted <=> p \in Inserted
    /\ q \in {"findRevoked", "dropAll"} => p \in {"findRevoked", "dropAll"}

LEMMA QuietEdit ==
    ASSUME Typed, Issuance, NEW h \in Handlers, NEW q, NEW e, Becomes(h, e),
           SameRequest(handler[h], e), e.pc = q, Quiet2(handler[h].pc, q),
           UNCHANGED <<version, row, client, ended>>
    PROVE  Issuance'
BY QuietStep DEF Quiet2

LEMMA QuietGoto ==
    ASSUME Typed, Issuance, NEW h \in Handlers, NEW q,
           (Goto(h, q) /\ Quiet2(handler[h].pc, q)) \/ Reject(h),
           UNCHANGED <<version, row, client, ended>>
    PROVE  Issuance'
<1>d. handler[h] \in Handler
  BY DEF Typed, Sound
<1>1. CASE Goto(h, q) /\ Quiet2(handler[h].pc, q)
  <2>1. PICK e : e = [handler[h] EXCEPT !.pc = q]
    OBVIOUS
  <2>2. SameRequest(handler[h], e) /\ e.pc = q
    BY <1>d, <2>1 DEF Handler, SameRequest
  <2>3. Becomes(h, e)
    BY <1>1, <2>1 DEF Goto
  <2> QED
    BY <1>1, <2>2, <2>3, QuietEdit
<1>2. CASE Reject(h)
  BY <1>2, QuietStep DEF Reject
<1> QED
  BY <1>1, <1>2

LEMMA QuietJudging ==
    ASSUME Typed, Issuance, NEW h \in Handlers, Judging(h)
    PROVE  Issuance'
<1> USE DEF At
<1>d. handler[h] \in Handler
  BY DEF Typed, Sound
<1>u. UNCHANGED <<version, row, client, ended>>
  BY DEF Judging, ReadIp, FindUser, IncrUser, ExpireUser, IncrIp, ExpireIp, LockSave, tokens
<1>1. CASE ReadIp(h)
  <2>1. (Goto(h, "findUser") /\ Quiet2(handler[h].pc, "findUser")) \/ Reject(h)
    BY <1>1 DEF ReadIp, Quiet2, Inserted
  <2> QED
    BY <1>u, <2>1, QuietGoto
<1>2. CASE FindUser(h)
  <2>1. ASSUME NEW q \in {"clearUser", "incrUser"},
               Becomes(h, [handler[h] EXCEPT !.user = user, !.credential = Nobody, !.pc = q])
        PROVE  Issuance'
    <3>1. PICK e : e = [handler[h] EXCEPT !.user = user, !.credential = Nobody, !.pc = q]
      OBVIOUS
    <3>2. SameRequest(handler[h], e) /\ e.pc = q
      BY <1>d, <3>1 DEF Handler, SameRequest
    <3>3. Quiet2(handler[h].pc, q)
      BY <1>2, <2>1 DEF FindUser, Quiet2, Inserted
    <3>4. Becomes(h, e)
      BY <2>1, <3>1
    <3> HIDE <3>1
    <3> QED
      BY <1>u, <3>2, <3>3, <3>4, QuietEdit
  <2>2. \/ Goto(h, "incrIp") /\ Quiet2(handler[h].pc, "incrIp")
        \/ Reject(h)
        \/ \E q \in {"clearUser", "incrUser"} :
              Becomes(h, [handler[h] EXCEPT !.user = user, !.credential = Nobody, !.pc = q])
    BY <1>2 DEF FindUser, Quiet2, Inserted
  <2> QED
    BY <1>u, <2>1, <2>2, QuietGoto
<1>3. CASE IncrUser(h)
  <2>1. attempts["user"] + 1 \in Nat
    BY DEF Typed, TypeOK, Counters
  <2>0. PICK i \in Nat, q \in {"expireUser", "incrIp"} :
          Becomes(h, [handler[h] EXCEPT !.count = i, !.pc = q])
    BY <1>3, <2>1 DEF IncrUser
  <2>2. PICK e : e = [handler[h] EXCEPT !.count = i, !.pc = q]
    OBVIOUS
  <2>3. SameRequest(handler[h], e) /\ e.pc = q
    BY <1>d, <2>2 DEF Handler, SameRequest
  <2>4. Quiet2(handler[h].pc, q)
    BY <1>3, <2>0 DEF IncrUser, Quiet2, Inserted
  <2>5. Becomes(h, e)
    BY <2>0, <2>2
  <2> QED
    BY <1>u, <2>3, <2>4, <2>5, QuietEdit
<1>4. CASE ExpireUser(h)
  <2>1. Goto(h, "incrIp") /\ Quiet2(handler[h].pc, "incrIp")
    BY <1>4 DEF ExpireUser, Quiet2, Inserted
  <2> QED
    BY <1>u, <2>1, QuietGoto
<1>5. CASE IncrIp(h)
  <2>1. Goto(h, "expireIp") /\ Quiet2(handler[h].pc, "expireIp")
    BY <1>5 DEF IncrIp, Quiet2, Inserted
  <2> QED
    BY <1>u, <2>1, QuietGoto
<1>6. CASE ExpireIp(h)
  <2>1. (Goto(h, "lock") /\ Quiet2(handler[h].pc, "lock")) \/ Reject(h)
    BY <1>6 DEF ExpireIp, Quiet2, Inserted
  <2> QED
    BY <1>u, <2>1, QuietGoto
<1>7. CASE LockSave(h)
  BY <1>7, <1>u, QuietGoto DEF LockSave
<1> QED
  BY <1>1, <1>2, <1>3, <1>4, <1>5, <1>6, <1>7 DEF Judging

\* The JWT is signed with the version of the row that was loaded.
LEMMA Sign ==
    ASSUME Typed, Issuance, NEW h \in Handlers, NEW q \in {"mintRow", "refreshInsert"},
           Issues(handler[h]), handler[h].pc \notin Inserted, Goto(h, q),
           version' = [version EXCEPT ![handler[h].new] = handler[h].user.version],
           UNCHANGED <<row, client, ended>>
    PROVE  Issuance'
<1>d. handler[h] \in Handler /\ handler[h].new \in Pairs /\ handler[h].user.version > 0
  BY DEF Typed, Sound
<1>k. Knows(handler[h], version, row, client)
  BY DEF Issuance
<1>v. /\ version'[handler[h].new] > 0
      /\ \A n \in Pairs : version[n] > 0 => version'[n] > 0
  BY <1>d DEF Typed, TypeOK
<1>1. PICK e : e = [handler[h] EXCEPT !.pc = q]
  OBVIOUS
<1>2. SameRequest(handler[h], e) /\ e.pc = q /\ e.new \in Pairs
  BY <1>d, <1>1 DEF Handler, SameRequest
<1>3. Becomes(h, e)
  BY <1>1 DEF Goto
<1>4. Knows(e, version', row', client')
  BY <1>k, <1>v, <1>2 DEF Knows, SameRequest, Issues, Inserted
<1>5. Forward(version, row, client, version', row', client')
  BY <1>v DEF Forward
<1>6. \A g \in Handlers : Reserved(handler[g], row, row', client')
  BY DEF Reserved, Issuance, Knows
<1>7. TokensOK'
  BY <1>v DEF Issuance, TokensOK
<1>8. e.new \in {handler[h].new, NoPair}
  BY <1>2 DEF SameRequest
<1> HIDE DEF TokensOK
<1> QED
  BY <1>3, <1>4, <1>5, <1>6, <1>7, <1>8, StepIssues

\* Only the request that issues a pair writes its row.
LEMMA Insert ==
    ASSUME Typed, Issuance, NEW h \in Handlers, NEW q \in {"mintRedisAgain", "refreshDrop"},
           handler[h].pc \in {"mintRow", "refreshInsert"}, Goto(h, q),
           row' = [row EXCEPT ![handler[h].new] = "live"],
           UNCHANGED <<version, client, ended>>
    PROVE  Issuance'
<1>d. /\ handler[h] \in Handler
      /\ handler[h].new \in Pairs
      /\ Issues(handler[h])
  BY RequestAt DEF Typed, Sound, Issues, SignInSteps, RefreshSteps
<1>k. Knows(handler[h], version, row, client)
  BY DEF Issuance
<1>r. /\ row[handler[h].new] = "none"
      /\ version[handler[h].new] > 0
      /\ row'[handler[h].new] = "live"
      /\ \A n \in Pairs \ {handler[h].new} : row'[n] = row[n]
  BY <1>d, <1>k DEF Typed, TypeOK, Knows, Inserted
<1>1. PICK e : e = [handler[h] EXCEPT !.pc = q]
  OBVIOUS
<1>2. SameRequest(handler[h], e) /\ e.pc = q /\ e.new \in Pairs
  BY <1>d, <1>1 DEF Handler, SameRequest
<1>3. Becomes(h, e)
  BY <1>1 DEF Goto
<1>5. Forward(version, row, client, version', row', client')
  BY <1>r DEF Forward
<1>4. Knows(e, version', row', client')
  <2>1. /\ handler[h].covers \subseteq Pairs
        /\ handler[h].request = "revokeSession" => handler[h].target \in Pairs
    BY <1>d DEF Typed, Sound, Handler
  <2>2. /\ \A n \in e.covers : row'[n] # "none"
        /\ e.request = "revokeSession" => row'[e.target] # "none"
    BY <1>k, <1>5, <1>2, <2>1 DEF Knows, SameRequest, Forward
  <2> QED
    BY <1>k, <1>r, <1>2, <2>2 DEF Knows, SameRequest, Issues, Inserted
<1>6. \A g \in Handlers \ {h} : Reserved(handler[g], row, row', client')
  <2>1. ASSUME NEW g \in Handlers \ {h}, handler[g].new \in Pairs
        PROVE  handler[g].new # handler[h].new
    BY <2>1, AccountAssumption DEF Issuance
  <2> QED
    BY <1>r, <2>1 DEF Reserved, Issuance, Knows
<1>7. TokensOK'
  BY <1>r DEF Issuance, TokensOK
<1>8. e.new \in {handler[h].new, NoPair}
  BY <1>2 DEF SameRequest
<1> QED
  BY <1>3, <1>4, <1>5, <1>6, <1>7, <1>8, StepIssues

\* An answer hands out the issued pair, whose row is there, and ends pairs
\* whose rows are revoked: T are the rows the same step revokes.
LEMMA Answered ==
    ASSUME Typed, Issuance, NEW h \in Handlers, NEW S \in SUBSET Pairs, Answer(h, S),
           NEW T \in SUBSET Pairs,
           \A n \in Pairs : row'[n] = IF n \in T THEN "revoked" ELSE row[n],
           \A n \in T : row[n] # "none",
           \A n \in S : row'[n] = "revoked",
           handler[h].new \in Pairs => handler[h].pc \in Inserted,
           UNCHANGED version
    PROVE  Issuance'
<1>k. Knows(handler[h], version, row, client)
  BY DEF Issuance
<1>c. /\ client' = client \cup ({handler[h].new} \ {NoPair})
      /\ client' \subseteq Pairs
      /\ handler[h].new \in Pairs => row[handler[h].new] # "none"
  BY <1>k DEF Answer, Typed, TypeOK, Handler, Knows
<1>1. Becomes(h, Idle) /\ Idle.new \in {handler[h].new, NoPair}
  BY IdleSound DEF Answer
<1>2. Knows(Idle, version', row', client')
  BY IdleKnows
<1>3. Forward(version, row, client, version', row', client')
  BY <1>c DEF Forward
<1>4. \A g \in Handlers \ {h} : Reserved(handler[g], row, row', client')
  <2>1. ASSUME NEW g \in Handlers \ {h}, handler[g].new \in Pairs
        PROVE  handler[g].new # handler[h].new
    BY <2>1, AccountAssumption DEF Issuance
  <2> QED
    BY <1>c, <2>1 DEF Reserved, Issuance, Knows
<1>5. TokensOK'
  <2>1. \A n \in Pairs : row'[n] # "none" => version'[n] > 0
    BY DEF Issuance, TokensOK
  <2>2. \A n \in client' : row'[n] # "none"
    BY <1>c DEF Issuance, TokensOK, Typed, TypeOK
  <2>3. \A n \in Pairs : ended'[n] # {} => row'[n] = "revoked"
    BY DEF Issuance, TokensOK, Answer
  <2> QED
    BY <2>1, <2>2, <2>3 DEF TokensOK
<1> QED
  BY <1>1, <1>2, <1>3, <1>4, <1>5, StepIssues

LEMMA IssuingIssues ==
    ASSUME Typed, Issuance, NEW h \in Handlers, Issuing(h)
    PROVE  Issuance'
<1> USE DEF At
<1>d. Sound(handler[h]) /\ handler[h] \in Handler
  BY DEF Typed, Sound
<1>k. Knows(handler[h], version, row, client)
  BY DEF Issuance
<1>1. CASE ClearUser(h)
  <2>1. Goto(h, "clearIp") /\ Quiet2(handler[h].pc, "clearIp")
    BY <1>1 DEF ClearUser, Quiet2, Inserted
  <2>2. UNCHANGED <<version, row, client, ended>>
    BY <1>1 DEF ClearUser, tokens
  <2> QED
    BY <2>1, <2>2, QuietGoto
<1>2. CASE ClearIp(h)
  <2>1. Goto(h, "saveUser") /\ Quiet2(handler[h].pc, "saveUser")
    BY <1>2 DEF ClearIp, Quiet2, Inserted
  <2>2. UNCHANGED <<version, row, client, ended>>
    BY <1>2 DEF ClearIp, tokens
  <2> QED
    BY <2>1, <2>2, QuietGoto
<1>3. CASE SaveUser(h)
  <2>1. Goto(h, "mintRedis") /\ Quiet2(handler[h].pc, "mintRedis")
    BY <1>3 DEF SaveUser, Quiet2, Inserted
  <2>2. UNCHANGED <<version, row, client, ended>>
    BY <1>3 DEF SaveUser, tokens
  <2> QED
    BY <2>1, <2>2, QuietGoto
<1>4. CASE MintRedis(h)
  <2>1. Issues(handler[h]) /\ handler[h].pc \notin Inserted
    BY <1>4, <1>d, RequestAt DEF MintRedis, Sound, Issues, SignInSteps, Inserted
  <2> QED
    BY <1>4, <2>1, Sign DEF MintRedis
<1>5. CASE MintRow(h)
  BY <1>5, Insert DEF MintRow
<1>6. CASE MintRedisAgain(h)
  <2>1. /\ {} \in SUBSET Pairs
        /\ \A n \in Pairs : row'[n] = IF n \in {} THEN "revoked" ELSE row[n]
        /\ handler[h].pc \in Inserted
    BY <1>6 DEF MintRedisAgain, Inserted
  <2>2. Answer(h, {}) /\ UNCHANGED version
    BY <1>6 DEF MintRedisAgain
  <2> QED
    BY <2>1, <2>2, Answered
<1>7. CASE RefreshRedis(h)
  <2>1. (Goto(h, "refreshRow") /\ Quiet2(handler[h].pc, "refreshRow")) \/ Reject(h)
    BY <1>7 DEF RefreshRedis, Quiet2, Inserted
  <2>2. UNCHANGED <<version, row, client, ended>>
    BY <1>7 DEF RefreshRedis, tokens
  <2> QED
    BY <2>1, <2>2, QuietGoto
<1>8. CASE RefreshRow(h)
  <2>1. (Goto(h, "refreshUser") /\ Quiet2(handler[h].pc, "refreshUser")) \/ Reject(h)
    BY <1>8 DEF RefreshRow, Quiet2, Inserted
  <2>2. UNCHANGED <<version, row, client, ended>>
    BY <1>8 DEF RefreshRow, tokens
  <2> QED
    BY <2>1, <2>2, QuietGoto
<1>9. CASE RefreshUser(h)
  <2>1. PICK e : e = [handler[h] EXCEPT !.user = user, !.pc = "refreshSet"]
    OBVIOUS
  <2>2. SameRequest(handler[h], e) /\ e.pc = "refreshSet"
    BY <1>d, <2>1 DEF Handler, SameRequest
  <2>3. Becomes(h, e)
    BY <1>9, <2>1 DEF RefreshUser
  <2>4. Quiet2(handler[h].pc, "refreshSet")
    BY <1>9 DEF RefreshUser, Quiet2, Inserted
  <2>5. UNCHANGED <<version, row, client, ended>>
    BY <1>9 DEF RefreshUser, tokens
  <2> QED
    BY <2>2, <2>3, <2>4, <2>5, QuietEdit
<1>10. CASE RefreshSet(h)
  <2>1. Issues(handler[h]) /\ handler[h].pc \notin Inserted
    BY <1>10, <1>d, RequestAt DEF RefreshSet, Sound, Issues, RefreshSteps, Inserted
  <2> QED
    BY <1>10, <2>1, Sign DEF RefreshSet
<1>11. CASE RefreshInsert(h)
  BY <1>11, Insert DEF RefreshInsert
<1>12. CASE RefreshDrop(h)
  <2>1. Goto(h, "refreshRevoke") /\ Quiet2(handler[h].pc, "refreshRevoke")
    BY <1>12 DEF RefreshDrop, Quiet2, Inserted
  <2>2. UNCHANGED <<version, row, client, ended>>
    BY <1>12 DEF RefreshDrop, tokens
  <2> QED
    BY <2>1, <2>2, QuietGoto
<1>13. CASE RefreshRevoke(h)
  <2>1. handler[h].request = "refresh"
    BY <1>13, <1>d, RequestAt DEF RefreshRevoke, Sound, RefreshSteps
  <2>2. handler[h].pair \in Pairs /\ row[handler[h].pair] # "none"
    BY <2>1, <1>d, <1>k DEF Sound, Knows, Issuance, TokensOK
  <2>3. PICK T \in SUBSET Pairs : T = {handler[h].pair}
    BY <2>2
  <2>4. \A n \in Pairs : row'[n] = IF n \in T THEN "revoked" ELSE row[n]
    BY <1>13, <2>3 DEF RefreshRevoke, Typed, TypeOK
  <2>5. handler[h].pc \in Inserted /\ Answer(h, T) /\ UNCHANGED version
    BY <1>13, <2>3 DEF RefreshRevoke, Inserted
  <2>6. \A n \in T : row[n] # "none" /\ row'[n] = "revoked"
    BY <2>2, <2>3, <2>4
  <2> QED
    BY <2>4, <2>5, <2>6, Answered
<1> QED
  BY <1>1, <1>2, <1>3, <1>4, <1>5, <1>6, <1>7, <1>8, <1>9, <1>10, <1>11, <1>12, <1>13 DEF Issuing

LEMMA EndingIssues ==
    ASSUME Typed, Issuance, NEW h \in Handlers, Ending(h)
    PROVE  Issuance'
<1> USE DEF At
<1>d. Sound(handler[h]) /\ handler[h] \in Handler
  BY DEF Typed, Sound
<1>k. Knows(handler[h], version, row, client)
  BY DEF Issuance
<1>1. CASE Authenticate(h)
  <2>1. (Goto(h, "checkBlacklist") /\ Quiet2(handler[h].pc, "checkBlacklist")) \/ Reject(h)
    BY <1>1 DEF Authenticate, Quiet2, Inserted
  <2>2. UNCHANGED <<version, row, client, ended>>
    BY <1>1 DEF Authenticate, tokens
  <2> QED
    BY <2>1, <2>2, QuietGoto
<1>2. CASE CheckBlacklist(h)
  <2>1. handler[h].request \in Guarded
    BY <1>2, <1>d, RequestAt DEF CheckBlacklist, Sound, GuardSteps
  <2>2. PICK q : q = handler[h].request
    OBVIOUS
  <2>3. (Goto(h, q) /\ Quiet2(handler[h].pc, q)) \/ Reject(h)
    BY <1>2, <2>1, <2>2 DEF CheckBlacklist, Quiet2, Inserted, Guarded
  <2>4. UNCHANGED <<version, row, client, ended>>
    BY <1>2 DEF CheckBlacklist, tokens
  <2> QED
    BY <2>3, <2>4, QuietGoto
<1>3. CASE Logout(h)
  <2>1. Goto(h, "logoutRedis") /\ Quiet2(handler[h].pc, "logoutRedis")
    BY <1>3 DEF Logout, Quiet2, Inserted
  <2>2. UNCHANGED <<version, row, client, ended>>
    BY <1>3 DEF Logout, tokens
  <2> QED
    BY <2>1, <2>2, QuietGoto
<1>4. CASE LogoutRedis(h)
  <2>1. Goto(h, "logoutRevoke") /\ Quiet2(handler[h].pc, "logoutRevoke")
    BY <1>4 DEF LogoutRedis, Quiet2, Inserted
  <2>2. UNCHANGED <<version, row, client, ended>>
    BY <1>4 DEF LogoutRedis, tokens
  <2> QED
    BY <2>1, <2>2, QuietGoto
<1>5. CASE LogoutRevoke(h)
  <2>1. handler[h].request = "logout"
    BY <1>5, <1>d, RequestAt DEF LogoutRevoke, Sound, LogoutSteps
  <2>2. /\ handler[h].pair \in Pairs
        /\ row[handler[h].pair] # "none"
        /\ handler[h].covers = {handler[h].pair}
        /\ handler[h].new \notin Pairs
    BY <2>1, <1>d, <1>k DEF Sound, Knows, Issuance, TokensOK, Guarded, Issues
  <2>3. PICK T \in SUBSET Pairs : T = {handler[h].pair}
    BY <2>2
  <2>4. \A n \in Pairs : row'[n] = IF n \in T THEN "revoked" ELSE row[n]
    BY <1>5, <2>3 DEF LogoutRevoke, Typed, TypeOK
  <2>5. Answer(h, T) /\ UNCHANGED version
    BY <1>5, <2>2, <2>3 DEF LogoutRevoke
  <2>6. \A n \in T : row[n] # "none" /\ row'[n] = "revoked"
    BY <2>2, <2>3, <2>4
  <2> QED
    BY <2>2, <2>4, <2>5, <2>6, Answered
<1>6. CASE RevokeSession(h)
  <2>1. Goto(h, "sessionRedis") /\ Quiet2(handler[h].pc, "sessionRedis")
    BY <1>6 DEF RevokeSession, Quiet2, Inserted
  <2>2. UNCHANGED <<version, row, client, ended>>
    BY <1>6 DEF RevokeSession, tokens
  <2> QED
    BY <2>1, <2>2, QuietGoto
<1>7. CASE SessionRedis(h)
  <2>1. Goto(h, "sessionRevoke") /\ Quiet2(handler[h].pc, "sessionRevoke")
    BY <1>7 DEF SessionRedis, Quiet2, Inserted
  <2>2. UNCHANGED <<version, row, client, ended>>
    BY <1>7 DEF SessionRedis, tokens
  <2> QED
    BY <2>1, <2>2, QuietGoto
<1>8. CASE SessionRevoke(h)
  <2>1. handler[h].request = "revokeSession"
    BY <1>8, <1>d, RequestAt DEF SessionRevoke, Sound, SessionSteps
  <2>2. /\ handler[h].target \in Pairs
        /\ row[handler[h].target] # "none"
        /\ handler[h].covers = {handler[h].target}
        /\ handler[h].new \notin Pairs
    BY <2>1, <1>d, <1>k DEF Sound, Knows, Issuance, TokensOK, Guarded, Issues
  <2>3. PICK T \in SUBSET Pairs : T = {handler[h].target}
    BY <2>2
  <2>4. \A n \in Pairs : row'[n] = IF n \in T THEN "revoked" ELSE row[n]
    BY <1>8, <2>3 DEF SessionRevoke, Typed, TypeOK
  <2>5. Answer(h, T) /\ UNCHANGED version
    BY <1>8, <2>2, <2>3 DEF SessionRevoke
  <2>6. \A n \in T : row[n] # "none" /\ row'[n] = "revoked"
    BY <2>2, <2>3, <2>4
  <2> QED
    BY <2>2, <2>4, <2>5, <2>6, Answered
<1>9. CASE LogoutAll(h)
  <2>1. Goto(h, "revokeAll") /\ Quiet2(handler[h].pc, "revokeAll")
    BY <1>9 DEF LogoutAll, Quiet2, Inserted
  <2>2. UNCHANGED <<version, row, client, ended>>
    BY <1>9 DEF LogoutAll, tokens
  <2> QED
    BY <2>1, <2>2, QuietGoto
<1>10. CASE RevokeAll(h)
  <2>1. PICK e : e = [handler[h] EXCEPT !.pc = "findRevoked"]
    OBVIOUS
  <2>2. SameRequest(handler[h], e) /\ e.pc = "findRevoked"
    BY <1>d, <2>1 DEF Handler, SameRequest
  <2>3. Becomes(h, e)
    BY <1>10, <2>1 DEF RevokeAll, Goto
  <2>4. /\ \A n \in Pairs : row'[n] = IF row[n] = "none" THEN "none" ELSE "revoked"
        /\ UNCHANGED <<version, client, ended>>
    BY <1>10 DEF RevokeAll
  <2>5. /\ handler[h].covers \subseteq Pairs
        /\ handler[h].request \in {"logoutAll", "changePassword"}
        /\ handler[h].new \notin Pairs
        /\ handler[h].new = NoPair
    BY <1>10, <1>d, RequestAt DEF RevokeAll, Sound, Issues, Handler, AllSteps
  <2>6. Forward(version, row, client, version', row', client')
    BY <2>4 DEF Forward
  <2>7. Knows(e, version', row', client')
    BY <1>k, <2>2, <2>4, <2>5, <2>6 DEF Knows, SameRequest, Issues, Inserted, Forward
  <2>8. \A g \in Handlers : Reserved(handler[g], row, row', client')
    BY <2>4 DEF Reserved, Issuance, Knows
  <2>9. TokensOK'
    <3>1. client \subseteq Pairs
      BY DEF Typed, TypeOK
    <3> QED
      BY <2>4, <3>1 DEF Issuance, TokensOK
  <2>10. e.new \in {handler[h].new, NoPair}
    BY <2>2 DEF SameRequest
  <2> QED
    BY <2>3, <2>6, <2>7, <2>8, <2>9, <2>10, StepIssues
<1>11. CASE FindRevoked(h)
  <2>1. PICK e : e = [handler[h] EXCEPT !.pc = "dropAll", !.found = {n \in Pairs : row[n] = "revoked"}]
    OBVIOUS
  <2>2. SameRequest(handler[h], e) /\ e.pc = "dropAll"
    BY <1>d, <2>1 DEF Handler, SameRequest
  <2>3. Becomes(h, e)
    BY <1>11, <2>1 DEF FindRevoked
  <2>4. Quiet2(handler[h].pc, "dropAll")
    BY <1>11 DEF FindRevoked, Quiet2, Inserted
  <2>5. UNCHANGED <<version, row, client, ended>>
    BY <1>11 DEF FindRevoked, tokens
  <2> QED
    BY <2>2, <2>3, <2>4, <2>5, QuietEdit
<1>12. CASE DropAll(h)
  <2>1. /\ handler[h].request \in {"logoutAll", "changePassword"}
        /\ handler[h].new \notin Pairs
        /\ handler[h].covers \in SUBSET Pairs
    BY <1>12, <1>d, RequestAt DEF DropAll, Sound, Issues, Handler, AllSteps
  <2>2. /\ {} \in SUBSET Pairs
        /\ \A n \in Pairs : row'[n] = IF n \in {} THEN "revoked" ELSE row[n]
        /\ \A n \in handler[h].covers : row'[n] = "revoked"
    BY <1>12, <1>k DEF DropAll, Knows
  <2>3. Answer(h, handler[h].covers) /\ UNCHANGED version
    BY <1>12 DEF DropAll
  <2> QED
    BY <2>1, <2>2, <2>3, Answered
<1> QED
  BY <1>1, <1>2, <1>3, <1>4, <1>5, <1>6, <1>7, <1>8, <1>9, <1>10, <1>11, <1>12 DEF Ending

LEMMA UpdatingIssues ==
    ASSUME Typed, Issuance, NEW h \in Handlers, Updating(h)
    PROVE  Issuance'
<1> USE DEF At
<1>d. Sound(handler[h]) /\ handler[h] \in Handler
  BY DEF Typed, Sound
<1>k. Knows(handler[h], version, row, client)
  BY DEF Issuance
<1>1. CASE ChangePassword(h)
  <2>1. (Goto(h, "changeSave") /\ Quiet2(handler[h].pc, "changeSave")) \/ Reject(h)
    BY <1>1 DEF ChangePassword, Quiet2, Inserted
  <2>2. UNCHANGED <<version, row, client, ended>>
    BY <1>1 DEF ChangePassword, tokens
  <2> QED
    BY <2>1, <2>2, QuietGoto
<1>2. CASE ChangeSave(h)
  <2>1. Goto(h, "logoutAll") /\ Quiet2(handler[h].pc, "logoutAll")
    BY <1>2 DEF ChangeSave, Quiet2, Inserted
  <2>2. UNCHANGED <<version, row, client, ended>>
    BY <1>2 DEF ChangeSave, tokens
  <2> QED
    BY <2>1, <2>2, QuietGoto
<1>3. CASE ResetFind(h)
  <2>1. (Goto(h, "resetSave") /\ Quiet2(handler[h].pc, "resetSave")) \/ Reject(h)
    BY <1>3 DEF ResetFind, Quiet2, Inserted
  <2>2. UNCHANGED <<version, row, client, ended>>
    BY <1>3 DEF ResetFind, tokens
  <2> QED
    BY <2>1, <2>2, QuietGoto
<1>4. CASE ResetSave(h)
  <2>1. handler[h].new \notin Pairs
    BY <1>4, <1>d, RequestAt DEF ResetSave, Sound, Issues, ResetSteps
  <2>2. /\ {} \in SUBSET Pairs
        /\ \A n \in Pairs : row'[n] = IF n \in {} THEN "revoked" ELSE row[n]
    BY <1>4 DEF ResetSave
  <2>3. Answer(h, {}) /\ UNCHANGED version
    BY <1>4 DEF ResetSave
  <2> QED
    BY <2>1, <2>2, <2>3, Answered
<1>5. CASE FcmFind(h)
  <2>1. PICK e : e = [handler[h] EXCEPT !.user = user, !.pc = "fcmSave"]
    OBVIOUS
  <2>2. SameRequest(handler[h], e) /\ e.pc = "fcmSave"
    BY <1>d, <2>1 DEF Handler, SameRequest
  <2>3. Becomes(h, e)
    BY <1>5, <2>1 DEF FcmFind
  <2>4. Quiet2(handler[h].pc, "fcmSave")
    BY <1>5 DEF FcmFind, Quiet2, Inserted
  <2>5. UNCHANGED <<version, row, client, ended>>
    BY <1>5 DEF FcmFind, tokens
  <2> QED
    BY <2>2, <2>3, <2>4, <2>5, QuietEdit
<1>6. CASE FcmSave(h)
  <2>1. handler[h].new \notin Pairs
    BY <1>6, <1>d, RequestAt DEF FcmSave, Sound, Issues, FcmSteps
  <2>2. /\ {} \in SUBSET Pairs
        /\ \A n \in Pairs : row'[n] = IF n \in {} THEN "revoked" ELSE row[n]
    BY <1>6 DEF FcmSave
  <2>3. Answer(h, {}) /\ UNCHANGED version
    BY <1>6 DEF FcmSave
  <2> QED
    BY <2>1, <2>2, <2>3, Answered
<1> QED
  BY <1>1, <1>2, <1>3, <1>4, <1>5, <1>6 DEF Updating

LEMMA ArrivalIssues ==
    ASSUME Typed, Issuance, NEW h \in Handlers, Arrival(h)
    PROVE  Issuance'
<1> USE AccountAssumption DEF At
<1>i. handler[h].pc = "idle" /\ handler[h].new \notin Pairs /\ handler[h].new = NoPair
  BY DEF Arrival, SignIn, Refresh, ResetPassword, Request, Arrive, Typed, Sound, Issues, Handler
<1>c. client \subseteq Pairs /\ \A n \in client : row[n] # "none"
  BY DEF Typed, TypeOK, Issuance, TokensOK
<1>1. ASSUME NEW d, Arrive(h, d), Knows(d, version, row, client),
             d.new = NoPair \/ Fresh(d.new)
      PROVE  Issuance'
  <2>1. UNCHANGED <<version, row, client, ended>> /\ Becomes(h, d)
    BY <1>1 DEF Arrive, tokens
  <2>2. /\ handler'[h] = d
        /\ \A g \in Handlers \ {h} : handler'[g] = handler[g]
    BY <2>1 DEF Becomes, Typed, TypeOK
  <2>3. \A g \in Handlers : Knows(handler'[g], version', row', client')
    BY <1>1, <2>1, <2>2 DEF Issuance
  <2>4. \A f, g \in Handlers :
           handler'[f].new = handler'[g].new /\ f # g => handler'[f].new = NoPair
    BY <1>1, <2>2 DEF Issuance, Fresh
  <2>5. TokensOK'
    BY <2>1 DEF Issuance, TokensOK
  <2> QED
    BY <2>3, <2>4, <2>5 DEF Issuance
<1>2. ASSUME NEW n \in Pairs, Fresh(n)
      PROVE  row[n] = "none" /\ n \notin client
  BY <1>2, <1>c DEF Fresh, Issuance, TokensOK
<1>3. ASSUME NEW d, NEW c, NEW n \in Pairs, Fresh(n),
             Arrives(d, "readIp", "signin", NoPair, n, NoPair, c, {})
      PROVE  Knows(d, version, row, client) /\ Fresh(d.new)
  BY <1>2, <1>3 DEF Arrives, Knows, Issues, Inserted, Guarded
<1>4. ASSUME NEW d, NEW old \in client, NEW n \in Pairs, Fresh(n),
             Arrives(d, "refreshRedis", "refresh", old, n, NoPair, Nobody, {})
      PROVE  Knows(d, version, row, client) /\ Fresh(d.new)
  BY <1>2, <1>4 DEF Arrives, Knows, Issues, Inserted, Guarded
<1>5. ASSUME NEW d, NEW p,
             Arrives(d, "resetFind", "resetPassword", NoPair, NoPair, NoPair, p, {})
      PROVE  Knows(d, version, row, client) /\ d.new = NoPair
  BY <1>5 DEF Arrives, Knows, Issues, Inserted, Guarded
<1>6. ASSUME NEW d, NEW r \in Guarded, NEW n \in client, NEW m, NEW p, NEW S,
             Arrives(d, "authenticate", r, n, NoPair, m, p, S),
             r = "revokeSession" => m \in Pairs /\ row[m] # "none" /\ S = {m},
             r = "logout" => S = {n},
             r \in {"logoutAll", "changePassword"} => S = client,
             r = "fcm" => S = {}
      PROVE  Knows(d, version, row, client) /\ d.new = NoPair
  <2>1. \A k \in S : row[k] # "none"
    BY <1>6, <1>c DEF Guarded
  <2> QED
    BY <1>6, <2>1 DEF Arrives, Knows, Issues, Inserted, Guarded
<1>7. PICK d : /\ Arrive(h, d)
               /\ Knows(d, version, row, client)
               /\ d.new = NoPair \/ Fresh(d.new)
  <2> HIDE DEF Issuance, Typed
  <2> QED
    BY <1>3, <1>4, <1>5, <1>6, ArrivalCases
<1> QED
  BY <1>1, <1>7

LEMMA PassingIssues ==
    ASSUME Typed, Issuance, Passing
    PROVE  Issuance'
<1>1. ASSUME UNCHANGED <<version, row, client, ended>>,
             \A h \in Handlers : SameRequest(handler[h], handler'[h]) /\ handler'[h].pc = handler[h].pc
      PROVE  Issuance'
  <2>1. TokensOK'
    BY <1>1 DEF Issuance, TokensOK
  <2>2. \A h \in Handlers : Knows(handler'[h], version', row', client')
    BY <1>1 DEF Issuance, Knows, SameRequest, Issues
  <2>3. \A f, g \in Handlers :
           handler'[f].new = handler'[g].new /\ f # g => handler'[f].new = NoPair
    BY <1>1 DEF Issuance, SameRequest
  <2> QED
    BY <2>1, <2>2, <2>3 DEF Issuance
<1>2. ASSUME NEW n \in Pairs, ExpireAccess(n)
      PROVE  Issuance'
  BY <1>1, <1>2 DEF ExpireAccess, SameRequest
<1>3. ASSUME NEW n \in Pairs, ExpireRefresh(n)
      PROVE  Issuance'
  <2>1. /\ UNCHANGED <<version, client, ended, handler>>
        /\ row[n] = "live" /\ n \in client
        /\ \A m \in Pairs : row'[m] = IF m = n THEN "expired" ELSE row[m]
    BY <1>3 DEF ExpireRefresh, Typed, TypeOK
  <2>2. Forward(version, row, client, version', row', client')
    BY <2>1 DEF Forward
  <2>3. \A g \in Handlers : Reserved(handler[g], row, row', client')
    BY <2>1 DEF Reserved, Issuance, Knows
  <2>4. \A g \in Handlers : Knows(handler'[g], version', row', client')
    <3>1. \A g \in Handlers : Knows(handler[g], version', row', client')
      BY <2>2, <2>3, KnowsStays DEF Typed, Issuance
    <3> QED
      BY <2>1, <3>1
  <2>5. TokensOK'
    <3>1. client \subseteq Pairs
      BY DEF Typed, TypeOK
    <3> QED
      BY <2>1, <3>1 DEF Issuance, TokensOK
  <2> QED
    BY <2>1, <2>4, <2>5 DEF Issuance
<1>4. ASSUME NEW k \in Counters, CounterExpires(k)
      PROVE  Issuance'
  BY <1>1, <1>4 DEF CounterExpires, SameRequest, tokens
<1>5. ASSUME LockExpires
      PROVE  Issuance'
  <2>1. ASSUME NEW h \in Handlers
        PROVE  SameRequest(handler[h], handler'[h]) /\ handler'[h].pc = handler[h].pc
    <3>1. PICK u : u = [handler[h].user EXCEPT !.locked = FALSE]
      OBVIOUS
    <3>2. handler'[h] = [handler[h] EXCEPT !.user = u]
      BY <1>5, <3>1 DEF LockExpires
    <3> QED
      BY <3>2 DEF Typed, Sound, Handler, SameRequest
  <2> QED
    BY <1>1, <1>5, <2>1 DEF LockExpires, tokens
<1> QED
  BY <1>2, <1>3, <1>4, <1>5 DEF Passing

LEMMA FaultIssues ==
    ASSUME Typed, Issuance, (\E h \in Handlers : CallFails(h)) \/ Restart
    PROVE  Issuance'
<1> USE DEF At
<1>u. UNCHANGED <<version, row, client, ended>>
  BY DEF CallFails, Restart, tokens
<1>1. CASE Restart
  <2>1. \A h \in Handlers : handler'[h] = Idle
    BY <1>1 DEF Restart
  <2>2. TokensOK'
    BY <1>u DEF Issuance, TokensOK
  <2>3. \A h \in Handlers : Knows(handler'[h], version', row', client')
    BY <2>1, IdleKnows
  <2> QED
    BY <2>1, <2>2, <2>3, IdleSound DEF Issuance
<1>2. ASSUME NEW h \in Handlers, CallFails(h)
      PROVE  Issuance'
  <2>1. (Goto(h, "logoutRedis") /\ Quiet2(handler[h].pc, "logoutRedis")) \/ Reject(h)
    BY <1>2 DEF CallFails, Quiet2, Inserted
  <2> QED
    BY <1>u, <2>1, QuietGoto
<1> QED
  BY <1>1, <1>2

LEMMA InitIssues == Init => Issuance
<1>1. ASSUME Init
      PROVE  Issuance
  <2>1. \A h \in Handlers : handler[h] = Idle
    BY <1>1 DEF Init
  <2>2. TokensOK
    BY <1>1 DEF Init, TokensOK
  <2>3. \A h \in Handlers : Knows(handler[h], version, row, client)
    BY <2>1, IdleKnows
  <2> QED
    BY <2>1, <2>2, <2>3, IdleSound DEF Issuance
<1> QED
  BY <1>1

LEMMA NextIssues ==
    ASSUME Typed, Issuance, [Next]_vars
    PROVE  Issuance'
<1>1. CASE UNCHANGED vars
  BY <1>1 DEF vars, tokens, Issuance, TokensOK
<1> QED
  BY <1>1, ArrivalIssues, PassingIssues, QuietJudging, IssuingIssues, EndingIssues,
     UpdatingIssues, FaultIssues DEF Next

LEMMA IssuanceAlways == Spec => []Issuance
BY TypedAlways, InitIssues, NextIssues, PTL DEF Spec

\* A row that ended once stays revoked: nothing writes it but the request that
\* issued its token, before the token was known to anyone.
THEOREM EndedRefreshStaysRejected == Spec => []EndedRefreshIsRejected
<1>1. Issuance => EndedRefreshIsRejected
  BY DEF Issuance, TokensOK, EndedRefreshIsRejected, RefreshAccepted
<1> QED
  BY <1>1, IssuanceAlways, PTL

-----------------------------------------------------------------------------
(* Where a step takes the request.                                         *)

SameData(d, e) ==
    /\ SameRequest(d, e)
    /\ e.user = d.user
    /\ e.count = d.count
    /\ e.found = d.found

OthersKept(h) == \A g \in Handlers \ {h} : handler'[g] = handler[g]

LEMMA GotoMoves ==
    ASSUME Typed, NEW h \in Handlers, NEW q, Goto(h, q)
    PROVE  OthersKept(h) /\ handler'[h].pc = q /\ SameData(handler[h], handler'[h])
<1>1. handler[h] \in Handler /\ handler \in [Handlers -> Handler]
  BY DEF Typed, TypeOK, Sound
<1>2. handler'[h] = [handler[h] EXCEPT !.pc = q] /\ OthersKept(h)
  BY <1>1 DEF Goto, Becomes, OthersKept
<1> QED
  BY <1>1, <1>2 DEF Handler, SameData, SameRequest

LEMMA IdleMoves ==
    ASSUME Typed, NEW h \in Handlers, Becomes(h, Idle)
    PROVE  OthersKept(h) /\ handler'[h] = Idle /\ handler'[h].pc = "idle"
BY IdleSound DEF Becomes, OthersKept, Typed, TypeOK

\* An arriving request starts at its first call.
LEMMA ArrivalMoves ==
    ASSUME Typed, NEW h \in Handlers, Arrival(h)
    PROVE  /\ UNCHANGED <<user, counters, tokens, faults>>
           /\ OthersKept(h)
           /\ handler[h].pc = "idle"
           /\ handler'[h].pc \in {"readIp", "refreshRedis", "resetFind", "authenticate"}
           /\ \A n \in Pairs : handler'[h].new = n => version[n] = 0
<1>1. PICK d : /\ Arrive(h, d)
               /\ d.pc \in {"readIp", "refreshRedis", "resetFind", "authenticate"}
               /\ d.new = NoPair \/ Fresh(d.new)
  BY ArrivalCases DEF Arrives
<1>2. handler'[h] = d /\ OthersKept(h)
  BY <1>1 DEF Arrive, Becomes, OthersKept, Typed, TypeOK
<1> QED
  BY <1>1, <1>2, AccountAssumption DEF Arrive, At, Fresh

LEMMA FindUserMoves ==
    ASSUME Typed, NEW h \in Handlers, FindUser(h)
    PROVE  /\ OthersKept(h)
           /\ \/ handler'[h].pc = "idle" /\ handler'[h] = Idle
              \/ /\ handler'[h].pc = "incrIp"
                 /\ SameData(handler[h], handler'[h])
              \/ /\ handler'[h].pc \in {"clearUser", "incrUser"}
                 /\ ~user.locked
                 /\ SameRequest(handler[h], handler'[h])
                 /\ handler'[h].user = user
                 /\ handler'[h].count = handler[h].count
<1>d. handler[h] \in Handler /\ handler \in [Handlers -> Handler]
  BY DEF Typed, TypeOK, Sound
<1>1. CASE Goto(h, "incrIp")
  BY <1>1, GotoMoves
<1>2. CASE Reject(h)
  BY <1>2, IdleMoves DEF Reject
<1>3. CASE /\ ~user.locked
           /\ \E q \in {"clearUser", "incrUser"} :
               Becomes(h, [handler[h] EXCEPT !.user = user, !.credential = Nobody, !.pc = q])
  <2>1. PICK q \in {"clearUser", "incrUser"} :
          Becomes(h, [handler[h] EXCEPT !.user = user, !.credential = Nobody, !.pc = q])
    BY <1>3
  <2>2. PICK e : e = [handler[h] EXCEPT !.user = user, !.credential = Nobody, !.pc = q]
    OBVIOUS
  <2>3. SameRequest(handler[h], e) /\ e.pc = q /\ e.user = user /\ e.count = handler[h].count
    BY <1>d, <2>2 DEF Handler, SameRequest
  <2>4. handler'[h] = e /\ OthersKept(h)
    BY <1>d, <2>1, <2>2 DEF Becomes, OthersKept
  <2> QED
    BY <1>3, <2>1, <2>3, <2>4
<1> QED
  BY <1>1, <1>2, <1>3 DEF FindUser

LEMMA IncrUserMoves ==
    ASSUME Typed, NEW h \in Handlers, IncrUser(h)
    PROVE  /\ OthersKept(h)
           /\ SameRequest(handler[h], handler'[h])
           /\ handler'[h].user = handler[h].user
           /\ handler'[h].count = attempts["user"] + 1
           /\ handler'[h].pc = IF attempts["user"] = 0 THEN "expireUser" ELSE "incrIp"
<1>d. handler[h] \in Handler /\ handler \in [Handlers -> Handler]
  BY DEF Typed, TypeOK, Sound
<1>n. attempts["user"] \in Nat
  BY DEF Typed, TypeOK, Counters
<1>1. PICK i \in Nat : i = attempts["user"] + 1
  BY <1>n
<1>2. PICK q : q = IF i = 1 THEN "expireUser" ELSE "incrIp"
  OBVIOUS
<1>3. Becomes(h, [handler[h] EXCEPT !.count = i, !.pc = q])
  BY <1>1, <1>2 DEF IncrUser
<1>4. PICK e : e = [handler[h] EXCEPT !.count = i, !.pc = q]
  OBVIOUS
<1>5. SameRequest(handler[h], e) /\ e.pc = q /\ e.user = handler[h].user /\ e.count = i
  BY <1>d, <1>4 DEF Handler, SameRequest
<1>6. handler'[h] = e /\ OthersKept(h)
  BY <1>d, <1>3, <1>4 DEF Becomes, OthersKept
<1>7. q = IF attempts["user"] = 0 THEN "expireUser" ELSE "incrIp"
  BY <1>n, <1>1, <1>2
<1> QED
  BY <1>1, <1>5, <1>6, <1>7

LEMMA LoadMoves ==
    ASSUME Typed, NEW h \in Handlers, NEW q,
           Becomes(h, [handler[h] EXCEPT !.user = user, !.pc = q])
    PROVE  /\ OthersKept(h)
           /\ SameRequest(handler[h], handler'[h])
           /\ handler'[h].user = user
           /\ handler'[h].pc = q
<1>d. handler[h] \in Handler /\ handler \in [Handlers -> Handler]
  BY DEF Typed, TypeOK, Sound
<1>1. PICK e : e = [handler[h] EXCEPT !.user = user, !.pc = q]
  OBVIOUS
<1>2. SameRequest(handler[h], e) /\ e.pc = q /\ e.user = user
  BY <1>d, <1>1 DEF Handler, SameRequest
<1>3. handler'[h] = e /\ OthersKept(h)
  BY <1>d, <1>1 DEF Becomes, OthersKept
<1> QED
  BY <1>2, <1>3

LEMMA FindRevokedMoves ==
    ASSUME Typed, NEW h \in Handlers, FindRevoked(h)
    PROVE  /\ OthersKept(h)
           /\ SameRequest(handler[h], handler'[h])
           /\ handler'[h].pc = "dropAll"
           /\ handler'[h].found = {n \in Pairs : row[n] = "revoked"}
<1>d. handler[h] \in Handler /\ handler \in [Handlers -> Handler]
  BY DEF Typed, TypeOK, Sound
<1>1. PICK S : S = {n \in Pairs : row[n] = "revoked"}
  OBVIOUS
<1>2. PICK e : e = [handler[h] EXCEPT !.pc = "dropAll", !.found = S]
  OBVIOUS
<1>3. SameRequest(handler[h], e) /\ e.pc = "dropAll" /\ e.found = S
  BY <1>d, <1>2 DEF Handler, SameRequest
<1>4. handler'[h] = e /\ OthersKept(h)
  BY <1>d, <1>1, <1>2 DEF Becomes, OthersKept, FindRevoked
<1> QED
  BY <1>1, <1>3, <1>4

-----------------------------------------------------------------------------
(* Until a call fails, a logged out access token is in the blacklist for as *)
(* long as its JWT is valid.                                               *)

Dead == blacklist \cup expired

LEMMA LogoutKept ==
    ASSUME Typed, LoggedOut, NEW h \in Handlers, OthersKept(h),
           UNCHANGED faults, Dead \subseteq Dead',
           faults = 0 /\ handler'[h].pc \in {"logoutRedis", "logoutRevoke"} =>
               handler'[h].pair \in Dead',
           faults = 0 => \A n \in Pairs : "logout" \in ended'[n] =>
                             "logout" \in ended[n] \/ n \in Dead'
    PROVE  LoggedOut'
BY DEF LoggedOut, OthersKept, Dead

LEMMA AnswerEnds ==
    ASSUME Typed, NEW h \in Handlers, NEW S, Answer(h, S)
    PROVE  /\ OthersKept(h)
           /\ handler'[h] = Idle
           /\ handler'[h].pc = "idle"
           /\ handler[h].request # "logout" \/ S = {} =>
                \A n \in Pairs : "logout" \in ended'[n] => "logout" \in ended[n]
           /\ \A n \in Pairs \ S : ended'[n] = ended[n]
           /\ \A n \in S : n \in Pairs => ended'[n] = ended[n] \cup {handler[h].request}
BY IdleMoves DEF Answer

\* Steps after which the request is at none of logout's writes.
LEMMA NoLogout ==
    ASSUME Typed, LoggedOut, NEW h \in Handlers,
           UNCHANGED faults, UNCHANGED <<blacklist, expired>>,
           \/ UNCHANGED ended /\ OthersKept(h) /\ handler'[h].pc \notin {"logoutRedis", "logoutRevoke"}
           \/ \E S : Answer(h, S) /\ (handler[h].request # "logout" \/ S = {})
    PROVE  LoggedOut'
<1>1. Dead' = Dead
  BY DEF Dead
<1>2. /\ OthersKept(h)
      /\ handler'[h].pc \notin {"logoutRedis", "logoutRevoke"}
      /\ \A n \in Pairs : "logout" \in ended'[n] => "logout" \in ended[n]
  BY AnswerEnds
<1> QED
  BY <1>1, <1>2, LogoutKept

LEMMA GotoNoLogout ==
    ASSUME Typed, LoggedOut, NEW h \in Handlers, NEW q,
           q \notin {"logoutRedis", "logoutRevoke"}, Goto(h, q) \/ Reject(h),
           UNCHANGED <<faults, blacklist, expired, ended>>
    PROVE  LoggedOut'
<1>1. OthersKept(h) /\ handler'[h].pc \notin {"logoutRedis", "logoutRevoke"}
  BY GotoMoves, IdleMoves DEF Reject
<1> QED
  BY <1>1, NoLogout

LEMMA JudgingLogout ==
    ASSUME Typed, LoggedOut, NEW h \in Handlers, Judging(h)
    PROVE  LoggedOut'
<1> USE DEF At
<1>d. Sound(handler[h])
  BY DEF Typed
<1>1. CASE ReadIp(h)
  <2>1. (Goto(h, "findUser") \/ Reject(h)) /\ UNCHANGED <<faults, blacklist, expired, ended>>
    BY <1>1 DEF ReadIp, tokens
  <2> QED
    BY <2>1, GotoNoLogout
<1>2. CASE FindUser(h)
  <2>1. OthersKept(h) /\ handler'[h].pc \notin {"logoutRedis", "logoutRevoke"}
    BY <1>2, FindUserMoves DEF FindUser
  <2>2. UNCHANGED <<faults, blacklist, expired, ended>>
    BY <1>2 DEF FindUser, tokens
  <2> QED
    BY <2>1, <2>2, NoLogout
<1>3. CASE IncrUser(h)
  <2>1. OthersKept(h) /\ handler'[h].pc \notin {"logoutRedis", "logoutRevoke"}
    BY <1>3, IncrUserMoves DEF IncrUser
  <2>2. UNCHANGED <<faults, blacklist, expired, ended>>
    BY <1>3 DEF IncrUser, tokens
  <2> QED
    BY <2>1, <2>2, NoLogout
<1>4. CASE ExpireUser(h)
  <2>1. (Goto(h, "incrIp")) /\ UNCHANGED <<faults, blacklist, expired, ended>>
    BY <1>4 DEF ExpireUser, tokens
  <2> QED
    BY <2>1, GotoNoLogout
<1>5. CASE IncrIp(h)
  <2>1. (Goto(h, "expireIp")) /\ UNCHANGED <<faults, blacklist, expired, ended>>
    BY <1>5 DEF IncrIp, tokens
  <2> QED
    BY <2>1, GotoNoLogout
<1>6. CASE ExpireIp(h)
  <2>1. (Goto(h, "lock") \/ Reject(h)) /\ UNCHANGED <<faults, blacklist, expired, ended>>
    BY <1>6 DEF ExpireIp, tokens
  <2> QED
    BY <2>1, GotoNoLogout
<1>7. CASE LockSave(h)
  <2>1. (Goto(h, "idle") \/ Reject(h)) /\ UNCHANGED <<faults, blacklist, expired, ended>>
    BY <1>7 DEF LockSave, tokens
  <2> QED
    BY <2>1, GotoNoLogout
<1> QED
  BY <1>1, <1>2, <1>3, <1>4, <1>5, <1>6, <1>7 DEF Judging

LEMMA IssuingLogout ==
    ASSUME Typed, LoggedOut, NEW h \in Handlers, Issuing(h)
    PROVE  LoggedOut'
<1> USE DEF At
<1>d. Sound(handler[h])
  BY DEF Typed
<1>1. CASE ClearUser(h)
  <2>1. (Goto(h, "clearIp")) /\ UNCHANGED <<faults, blacklist, expired, ended>>
    BY <1>1 DEF ClearUser, tokens
  <2> QED
    BY <2>1, GotoNoLogout
<1>2. CASE ClearIp(h)
  <2>1. (Goto(h, "saveUser")) /\ UNCHANGED <<faults, blacklist, expired, ended>>
    BY <1>2 DEF ClearIp, tokens
  <2> QED
    BY <2>1, GotoNoLogout
<1>3. CASE SaveUser(h)
  <2>1. (Goto(h, "mintRedis")) /\ UNCHANGED <<faults, blacklist, expired, ended>>
    BY <1>3 DEF SaveUser, tokens
  <2> QED
    BY <2>1, GotoNoLogout
<1>4. CASE MintRedis(h)
  <2>1. (Goto(h, "mintRow")) /\ UNCHANGED <<faults, blacklist, expired, ended>>
    BY <1>4 DEF MintRedis, tokens
  <2> QED
    BY <2>1, GotoNoLogout
<1>5. CASE MintRow(h)
  <2>1. (Goto(h, "mintRedisAgain")) /\ UNCHANGED <<faults, blacklist, expired, ended>>
    BY <1>5 DEF MintRow, tokens
  <2> QED
    BY <2>1, GotoNoLogout
<1>6. CASE MintRedisAgain(h)
  BY <1>6, NoLogout DEF MintRedisAgain
<1>7. CASE RefreshRedis(h)
  <2>1. (Goto(h, "refreshRow") \/ Reject(h)) /\ UNCHANGED <<faults, blacklist, expired, ended>>
    BY <1>7 DEF RefreshRedis, tokens
  <2> QED
    BY <2>1, GotoNoLogout
<1>8. CASE RefreshRow(h)
  <2>1. (Goto(h, "refreshUser") \/ Reject(h)) /\ UNCHANGED <<faults, blacklist, expired, ended>>
    BY <1>8 DEF RefreshRow, tokens
  <2> QED
    BY <2>1, GotoNoLogout
<1>9. CASE RefreshUser(h)
  <2>1. OthersKept(h) /\ handler'[h].pc \notin {"logoutRedis", "logoutRevoke"}
    BY <1>9, LoadMoves DEF RefreshUser
  <2>2. UNCHANGED <<faults, blacklist, expired, ended>>
    BY <1>9 DEF RefreshUser, tokens
  <2> QED
    BY <2>1, <2>2, NoLogout
<1>10. CASE RefreshSet(h)
  <2>1. (Goto(h, "refreshInsert")) /\ UNCHANGED <<faults, blacklist, expired, ended>>
    BY <1>10 DEF RefreshSet, tokens
  <2> QED
    BY <2>1, GotoNoLogout
<1>11. CASE RefreshInsert(h)
  <2>1. (Goto(h, "refreshDrop")) /\ UNCHANGED <<faults, blacklist, expired, ended>>
    BY <1>11 DEF RefreshInsert, tokens
  <2> QED
    BY <2>1, GotoNoLogout
<1>12. CASE RefreshDrop(h)
  <2>1. (Goto(h, "refreshRevoke")) /\ UNCHANGED <<faults, blacklist, expired, ended>>
    BY <1>12 DEF RefreshDrop, tokens
  <2> QED
    BY <2>1, GotoNoLogout
<1>13. CASE RefreshRevoke(h)
  <2>1. handler[h].request # "logout"
    BY <1>13, <1>d, RequestAt DEF RefreshRevoke, Sound, RefreshSteps
  <2> QED
    BY <1>13, <2>1, NoLogout DEF RefreshRevoke
<1> QED
  BY <1>1, <1>2, <1>3, <1>4, <1>5, <1>6, <1>7, <1>8, <1>9, <1>10, <1>11, <1>12, <1>13 DEF Issuing

LEMMA EndingLogout ==
    ASSUME Typed, LoggedOut, NEW h \in Handlers, Ending(h)
    PROVE  LoggedOut'
<1> USE DEF At
<1>d. Sound(handler[h])
  BY DEF Typed
<1>1. CASE Authenticate(h)
  <2>1. (Goto(h, "checkBlacklist") \/ Reject(h)) /\ UNCHANGED <<faults, blacklist, expired, ended>>
    BY <1>1 DEF Authenticate, tokens
  <2> QED
    BY <2>1, GotoNoLogout
<1>2. CASE CheckBlacklist(h)
  <2>1. handler[h].request \notin {"logoutRedis", "logoutRevoke"}
    BY <1>d DEF Sound, Handler, Ways
  <2>2. (Goto(h, handler[h].request) \/ Reject(h)) /\ UNCHANGED <<faults, blacklist, expired, ended>>
    BY <1>2 DEF CheckBlacklist, tokens
  <2> QED
    BY <2>1, <2>2, GotoNoLogout
<1>3. CASE Logout(h)
  <2>1. /\ OthersKept(h)
        /\ handler'[h].pair = handler[h].pair
    BY <1>3, GotoMoves DEF Logout, SameData, SameRequest
  <2>2. /\ Dead' = Dead \cup ({handler[h].pair} \ expired)
        /\ UNCHANGED <<faults, ended>>
    BY <1>3 DEF Logout, Dead
  <2>3. handler'[h].pair \in Dead'
    BY <2>1, <2>2 DEF Dead
  <2>4. Dead \subseteq Dead'
    BY <2>2
  <2> QED
    BY <2>1, <2>2, <2>3, <2>4, LogoutKept
<1>4. CASE LogoutRedis(h)
  <2>1. /\ OthersKept(h)
        /\ handler'[h].pair = handler[h].pair
    BY <1>4, GotoMoves DEF LogoutRedis, SameData, SameRequest
  <2>2. /\ Dead' = Dead
        /\ UNCHANGED <<faults, ended>>
    BY <1>4 DEF LogoutRedis, Dead
  <2>3. faults = 0 => handler'[h].pair \in Dead'
    BY <1>4, <2>1, <2>2 DEF LogoutRedis, LoggedOut, Dead
  <2> QED
    BY <2>1, <2>2, <2>3, LogoutKept
<1>5. CASE LogoutRevoke(h)
  <2>1. handler[h].covers = {handler[h].pair}
    BY <1>5, <1>d, RequestAt DEF LogoutRevoke, Sound, LogoutSteps
  <2>2. /\ OthersKept(h)
        /\ handler'[h].pc = "idle"
        /\ \A n \in Pairs : n # handler[h].pair => ended'[n] = ended[n]
    BY <1>5, <2>1, AnswerEnds DEF LogoutRevoke
  <2>3. /\ Dead' = Dead
        /\ UNCHANGED faults
    BY <1>5 DEF LogoutRevoke, Dead
  <2>4. faults = 0 => handler[h].pair \in Dead
    BY <1>5 DEF LogoutRevoke, LoggedOut, Dead
  <2> QED
    BY <2>2, <2>3, <2>4, LogoutKept
<1>6. CASE RevokeSession(h)
  <2>1. (Goto(h, "sessionRedis")) /\ UNCHANGED <<faults, blacklist, expired, ended>>
    BY <1>6 DEF RevokeSession, tokens
  <2> QED
    BY <2>1, GotoNoLogout
<1>7. CASE SessionRedis(h)
  <2>1. (Goto(h, "sessionRevoke")) /\ UNCHANGED <<faults, blacklist, expired, ended>>
    BY <1>7 DEF SessionRedis, tokens
  <2> QED
    BY <2>1, GotoNoLogout
<1>8. CASE SessionRevoke(h)
  <2>1. handler[h].request # "logout"
    BY <1>8, <1>d, RequestAt DEF SessionRevoke, Sound, SessionSteps
  <2> QED
    BY <1>8, <2>1, NoLogout DEF SessionRevoke
<1>9. CASE LogoutAll(h)
  <2>1. (Goto(h, "revokeAll")) /\ UNCHANGED <<faults, blacklist, expired, ended>>
    BY <1>9 DEF LogoutAll, tokens
  <2> QED
    BY <2>1, GotoNoLogout
<1>10. CASE RevokeAll(h)
  <2>1. (Goto(h, "findRevoked")) /\ UNCHANGED <<faults, blacklist, expired, ended>>
    BY <1>10 DEF RevokeAll, tokens
  <2> QED
    BY <2>1, GotoNoLogout
<1>11. CASE FindRevoked(h)
  <2>1. OthersKept(h) /\ handler'[h].pc \notin {"logoutRedis", "logoutRevoke"}
    BY <1>11, FindRevokedMoves DEF FindRevoked
  <2>2. UNCHANGED <<faults, blacklist, expired, ended>>
    BY <1>11 DEF FindRevoked, tokens
  <2> QED
    BY <2>1, <2>2, NoLogout
<1>12. CASE DropAll(h)
  <2>1. handler[h].request # "logout"
    BY <1>12, <1>d, RequestAt DEF DropAll, Sound, AllSteps
  <2> QED
    BY <1>12, <2>1, NoLogout DEF DropAll
<1> QED
  BY <1>1, <1>2, <1>3, <1>4, <1>5, <1>6, <1>7, <1>8, <1>9, <1>10, <1>11, <1>12 DEF Ending

LEMMA UpdatingLogout ==
    ASSUME Typed, LoggedOut, NEW h \in Handlers, Updating(h)
    PROVE  LoggedOut'
<1> USE DEF At
<1>d. Sound(handler[h])
  BY DEF Typed
<1>1. CASE ChangePassword(h)
  <2>1. (Goto(h, "changeSave") \/ Reject(h)) /\ UNCHANGED <<faults, blacklist, expired, ended>>
    BY <1>1 DEF ChangePassword, tokens
  <2> QED
    BY <2>1, GotoNoLogout
<1>2. CASE ChangeSave(h)
  <2>1. (Goto(h, "logoutAll")) /\ UNCHANGED <<faults, blacklist, expired, ended>>
    BY <1>2 DEF ChangeSave, tokens
  <2> QED
    BY <2>1, GotoNoLogout
<1>3. CASE ResetFind(h)
  <2>1. (Goto(h, "resetSave") \/ Reject(h)) /\ UNCHANGED <<faults, blacklist, expired, ended>>
    BY <1>3 DEF ResetFind, tokens
  <2> QED
    BY <2>1, GotoNoLogout
<1>4. CASE ResetSave(h)
  BY <1>4, NoLogout DEF ResetSave
<1>5. CASE FcmFind(h)
  <2>1. OthersKept(h) /\ handler'[h].pc \notin {"logoutRedis", "logoutRevoke"}
    BY <1>5, LoadMoves DEF FcmFind
  <2>2. UNCHANGED <<faults, blacklist, expired, ended>>
    BY <1>5 DEF FcmFind, tokens
  <2> QED
    BY <2>1, <2>2, NoLogout
<1>6. CASE FcmSave(h)
  BY <1>6, NoLogout DEF FcmSave
<1> QED
  BY <1>1, <1>2, <1>3, <1>4, <1>5, <1>6 DEF Updating

LEMMA OtherLogout ==
    ASSUME Typed, LoggedOut,
           \/ \E h \in Handlers : Arrival(h) \/ CallFails(h)
           \/ Passing
           \/ Restart
    PROVE  LoggedOut'
<1> USE AccountAssumption
<1>1. ASSUME NEW h \in Handlers, Arrival(h)
      PROVE  LoggedOut'
  BY <1>1, ArrivalMoves, NoLogout DEF tokens
<1>2. CASE (\E h \in Handlers : CallFails(h)) \/ Restart
  BY <1>2 DEF CallFails, Restart, LoggedOut, Typed, TypeOK
<1>3. ASSUME UNCHANGED <<faults, ended>>, Dead \subseteq Dead',
             \A h \in Handlers : handler'[h].pc = handler[h].pc /\ handler'[h].pair = handler[h].pair
      PROVE  LoggedOut'
  BY <1>3 DEF LoggedOut, Dead
<1>4. ASSUME NEW n \in Pairs, ExpireAccess(n)
      PROVE  LoggedOut'
  BY <1>3, <1>4 DEF ExpireAccess, Dead
<1>5. ASSUME NEW n \in Pairs, ExpireRefresh(n)
      PROVE  LoggedOut'
  BY <1>3, <1>5 DEF ExpireRefresh, Dead
<1>6. ASSUME NEW k \in Counters, CounterExpires(k)
      PROVE  LoggedOut'
  BY <1>3, <1>6 DEF CounterExpires, Dead, tokens
<1>7. CASE LockExpires
  <2>1. ASSUME NEW h \in Handlers
        PROVE  handler'[h].pc = handler[h].pc /\ handler'[h].pair = handler[h].pair
    <3>1. PICK u : u = [handler[h].user EXCEPT !.locked = FALSE]
      OBVIOUS
    <3>2. handler'[h] = [handler[h] EXCEPT !.user = u]
      BY <1>7, <3>1 DEF LockExpires
    <3> QED
      BY <3>2 DEF Typed, Sound, Handler
  <2> QED
    BY <1>3, <1>7, <2>1 DEF LockExpires, Dead, tokens
<1> QED
  BY <1>1, <1>2, <1>4, <1>5, <1>6, <1>7 DEF Passing

LEMMA LoggedOutAlways == Spec => []LoggedOut
<1>1. Init => LoggedOut
  BY IdleSound DEF Init, LoggedOut
<1>2. Typed /\ LoggedOut /\ [Next]_vars => LoggedOut'
  <2>1. CASE UNCHANGED vars
    BY <2>1 DEF vars, tokens, LoggedOut
  <2> QED
    BY <2>1, JudgingLogout, IssuingLogout, EndingLogout, UpdatingLogout, OtherLogout DEF Next
<1> QED
  BY <1>1, <1>2, TypedAlways, PTL DEF Spec

\* The blacklist entry is written before the answer and outlives the token, so
\* no stale write of tokenVersion brings a logged out token back.
THEOREM LoggedOutStaysRejected == Spec => []LoggedOutAccessIsRejected
<1>1. LoggedOut => LoggedOutAccessIsRejected
  BY DEF LoggedOut, LoggedOutAccessIsRejected, AccessAccepted
<1> QED
  BY <1>1, LoggedOutAlways, PTL

-----------------------------------------------------------------------------
(* Counters with no TTL.                                                   *)

LEMMA BecomesKept ==
    ASSUME Typed, NEW h \in Handlers, NEW e, Becomes(h, e)
    PROVE  OthersKept(h)
BY DEF Becomes, OthersKept, Typed, TypeOK

\* A step that leaves the counters alone, of a request that owes no EXPIRE.
LEMMA CountersKept ==
    ASSUME Typed, CountersExpire, NEW h \in Handlers, NEW e, Becomes(h, e),
           handler[h].pc \notin {"expireUser", "expireIp"},
           UNCHANGED <<counters, faults>>
    PROVE  CountersExpire'
<1>1. OthersKept(h)
  BY BecomesKept
<1> QED
  BY <1>1 DEF CountersExpire, OthersKept, counters, At

LEMMA JudgingCounters ==
    ASSUME Typed, CountersExpire, NEW h \in Handlers,
           ReadIp(h) \/ FindUser(h) \/ LockSave(h)
    PROVE  CountersExpire'
<1> USE DEF At
<1>1. CASE ReadIp(h)
  <2>1. \E e : Becomes(h, e)
    BY <1>1 DEF ReadIp, Goto, Reject, Answer
  <2>2. UNCHANGED <<counters, faults>> /\ handler[h].pc \notin {"expireUser", "expireIp"}
    BY <1>1 DEF ReadIp
  <2> QED
    BY <2>1, <2>2, CountersKept
<1>2. CASE FindUser(h)
  <2>1. \E e : Becomes(h, e)
    BY <1>2 DEF FindUser, Goto, Reject, Answer
  <2>2. UNCHANGED <<counters, faults>> /\ handler[h].pc \notin {"expireUser", "expireIp"}
    BY <1>2 DEF FindUser
  <2> QED
    BY <2>1, <2>2, CountersKept
<1>3. CASE LockSave(h)
  <2>1. \E e : Becomes(h, e)
    BY <1>3 DEF LockSave, Goto, Reject, Answer
  <2>2. UNCHANGED <<counters, faults>> /\ handler[h].pc \notin {"expireUser", "expireIp"}
    BY <1>3 DEF LockSave
  <2> QED
    BY <2>1, <2>2, CountersKept
<1> QED
  BY <1>1, <1>2, <1>3

LEMMA IssuingCounters ==
    ASSUME Typed, CountersExpire, NEW h \in Handlers,
           SaveUser(h) \/ MintRedis(h) \/ MintRow(h) \/ MintRedisAgain(h) \/ RefreshRedis(h) \/ RefreshRow(h) \/ RefreshUser(h) \/ RefreshSet(h) \/ RefreshInsert(h) \/ RefreshDrop(h) \/ RefreshRevoke(h)
    PROVE  CountersExpire'
<1> USE DEF At
<1>1. CASE SaveUser(h)
  <2>1. \E e : Becomes(h, e)
    BY <1>1 DEF SaveUser, Goto, Reject, Answer
  <2>2. UNCHANGED <<counters, faults>> /\ handler[h].pc \notin {"expireUser", "expireIp"}
    BY <1>1 DEF SaveUser
  <2> QED
    BY <2>1, <2>2, CountersKept
<1>2. CASE MintRedis(h)
  <2>1. \E e : Becomes(h, e)
    BY <1>2 DEF MintRedis, Goto, Reject, Answer
  <2>2. UNCHANGED <<counters, faults>> /\ handler[h].pc \notin {"expireUser", "expireIp"}
    BY <1>2 DEF MintRedis
  <2> QED
    BY <2>1, <2>2, CountersKept
<1>3. CASE MintRow(h)
  <2>1. \E e : Becomes(h, e)
    BY <1>3 DEF MintRow, Goto, Reject, Answer
  <2>2. UNCHANGED <<counters, faults>> /\ handler[h].pc \notin {"expireUser", "expireIp"}
    BY <1>3 DEF MintRow
  <2> QED
    BY <2>1, <2>2, CountersKept
<1>4. CASE MintRedisAgain(h)
  <2>1. \E e : Becomes(h, e)
    BY <1>4 DEF MintRedisAgain, Goto, Reject, Answer
  <2>2. UNCHANGED <<counters, faults>> /\ handler[h].pc \notin {"expireUser", "expireIp"}
    BY <1>4 DEF MintRedisAgain
  <2> QED
    BY <2>1, <2>2, CountersKept
<1>5. CASE RefreshRedis(h)
  <2>1. \E e : Becomes(h, e)
    BY <1>5 DEF RefreshRedis, Goto, Reject, Answer
  <2>2. UNCHANGED <<counters, faults>> /\ handler[h].pc \notin {"expireUser", "expireIp"}
    BY <1>5 DEF RefreshRedis
  <2> QED
    BY <2>1, <2>2, CountersKept
<1>6. CASE RefreshRow(h)
  <2>1. \E e : Becomes(h, e)
    BY <1>6 DEF RefreshRow, Goto, Reject, Answer
  <2>2. UNCHANGED <<counters, faults>> /\ handler[h].pc \notin {"expireUser", "expireIp"}
    BY <1>6 DEF RefreshRow
  <2> QED
    BY <2>1, <2>2, CountersKept
<1>7. CASE RefreshUser(h)
  <2>1. \E e : Becomes(h, e)
    BY <1>7 DEF RefreshUser, Goto, Reject, Answer
  <2>2. UNCHANGED <<counters, faults>> /\ handler[h].pc \notin {"expireUser", "expireIp"}
    BY <1>7 DEF RefreshUser
  <2> QED
    BY <2>1, <2>2, CountersKept
<1>8. CASE RefreshSet(h)
  <2>1. \E e : Becomes(h, e)
    BY <1>8 DEF RefreshSet, Goto, Reject, Answer
  <2>2. UNCHANGED <<counters, faults>> /\ handler[h].pc \notin {"expireUser", "expireIp"}
    BY <1>8 DEF RefreshSet
  <2> QED
    BY <2>1, <2>2, CountersKept
<1>9. CASE RefreshInsert(h)
  <2>1. \E e : Becomes(h, e)
    BY <1>9 DEF RefreshInsert, Goto, Reject, Answer
  <2>2. UNCHANGED <<counters, faults>> /\ handler[h].pc \notin {"expireUser", "expireIp"}
    BY <1>9 DEF RefreshInsert
  <2> QED
    BY <2>1, <2>2, CountersKept
<1>10. CASE RefreshDrop(h)
  <2>1. \E e : Becomes(h, e)
    BY <1>10 DEF RefreshDrop, Goto, Reject, Answer
  <2>2. UNCHANGED <<counters, faults>> /\ handler[h].pc \notin {"expireUser", "expireIp"}
    BY <1>10 DEF RefreshDrop
  <2> QED
    BY <2>1, <2>2, CountersKept
<1>11. CASE RefreshRevoke(h)
  <2>1. \E e : Becomes(h, e)
    BY <1>11 DEF RefreshRevoke, Goto, Reject, Answer
  <2>2. UNCHANGED <<counters, faults>> /\ handler[h].pc \notin {"expireUser", "expireIp"}
    BY <1>11 DEF RefreshRevoke
  <2> QED
    BY <2>1, <2>2, CountersKept
<1> QED
  BY <1>1, <1>2, <1>3, <1>4, <1>5, <1>6, <1>7, <1>8, <1>9, <1>10, <1>11

LEMMA EndingCounters ==
    ASSUME Typed, CountersExpire, NEW h \in Handlers,
           Authenticate(h) \/ CheckBlacklist(h) \/ Logout(h) \/ LogoutRedis(h) \/ LogoutRevoke(h) \/ RevokeSession(h) \/ SessionRedis(h) \/ SessionRevoke(h) \/ LogoutAll(h) \/ RevokeAll(h) \/ FindRevoked(h) \/ DropAll(h)
    PROVE  CountersExpire'
<1> USE DEF At
<1>1. CASE Authenticate(h)
  <2>1. \E e : Becomes(h, e)
    BY <1>1 DEF Authenticate, Goto, Reject, Answer
  <2>2. UNCHANGED <<counters, faults>> /\ handler[h].pc \notin {"expireUser", "expireIp"}
    BY <1>1 DEF Authenticate
  <2> QED
    BY <2>1, <2>2, CountersKept
<1>2. CASE CheckBlacklist(h)
  <2>1. \E e : Becomes(h, e)
    BY <1>2 DEF CheckBlacklist, Goto, Reject, Answer
  <2>2. UNCHANGED <<counters, faults>> /\ handler[h].pc \notin {"expireUser", "expireIp"}
    BY <1>2 DEF CheckBlacklist
  <2> QED
    BY <2>1, <2>2, CountersKept
<1>3. CASE Logout(h)
  <2>1. \E e : Becomes(h, e)
    BY <1>3 DEF Logout, Goto, Reject, Answer
  <2>2. UNCHANGED <<counters, faults>> /\ handler[h].pc \notin {"expireUser", "expireIp"}
    BY <1>3 DEF Logout
  <2> QED
    BY <2>1, <2>2, CountersKept
<1>4. CASE LogoutRedis(h)
  <2>1. \E e : Becomes(h, e)
    BY <1>4 DEF LogoutRedis, Goto, Reject, Answer
  <2>2. UNCHANGED <<counters, faults>> /\ handler[h].pc \notin {"expireUser", "expireIp"}
    BY <1>4 DEF LogoutRedis
  <2> QED
    BY <2>1, <2>2, CountersKept
<1>5. CASE LogoutRevoke(h)
  <2>1. \E e : Becomes(h, e)
    BY <1>5 DEF LogoutRevoke, Goto, Reject, Answer
  <2>2. UNCHANGED <<counters, faults>> /\ handler[h].pc \notin {"expireUser", "expireIp"}
    BY <1>5 DEF LogoutRevoke
  <2> QED
    BY <2>1, <2>2, CountersKept
<1>6. CASE RevokeSession(h)
  <2>1. \E e : Becomes(h, e)
    BY <1>6 DEF RevokeSession, Goto, Reject, Answer
  <2>2. UNCHANGED <<counters, faults>> /\ handler[h].pc \notin {"expireUser", "expireIp"}
    BY <1>6 DEF RevokeSession
  <2> QED
    BY <2>1, <2>2, CountersKept
<1>7. CASE SessionRedis(h)
  <2>1. \E e : Becomes(h, e)
    BY <1>7 DEF SessionRedis, Goto, Reject, Answer
  <2>2. UNCHANGED <<counters, faults>> /\ handler[h].pc \notin {"expireUser", "expireIp"}
    BY <1>7 DEF SessionRedis
  <2> QED
    BY <2>1, <2>2, CountersKept
<1>8. CASE SessionRevoke(h)
  <2>1. \E e : Becomes(h, e)
    BY <1>8 DEF SessionRevoke, Goto, Reject, Answer
  <2>2. UNCHANGED <<counters, faults>> /\ handler[h].pc \notin {"expireUser", "expireIp"}
    BY <1>8 DEF SessionRevoke
  <2> QED
    BY <2>1, <2>2, CountersKept
<1>9. CASE LogoutAll(h)
  <2>1. \E e : Becomes(h, e)
    BY <1>9 DEF LogoutAll, Goto, Reject, Answer
  <2>2. UNCHANGED <<counters, faults>> /\ handler[h].pc \notin {"expireUser", "expireIp"}
    BY <1>9 DEF LogoutAll
  <2> QED
    BY <2>1, <2>2, CountersKept
<1>10. CASE RevokeAll(h)
  <2>1. \E e : Becomes(h, e)
    BY <1>10 DEF RevokeAll, Goto, Reject, Answer
  <2>2. UNCHANGED <<counters, faults>> /\ handler[h].pc \notin {"expireUser", "expireIp"}
    BY <1>10 DEF RevokeAll
  <2> QED
    BY <2>1, <2>2, CountersKept
<1>11. CASE FindRevoked(h)
  <2>1. \E e : Becomes(h, e)
    BY <1>11 DEF FindRevoked, Goto, Reject, Answer
  <2>2. UNCHANGED <<counters, faults>> /\ handler[h].pc \notin {"expireUser", "expireIp"}
    BY <1>11 DEF FindRevoked
  <2> QED
    BY <2>1, <2>2, CountersKept
<1>12. CASE DropAll(h)
  <2>1. \E e : Becomes(h, e)
    BY <1>12 DEF DropAll, Goto, Reject, Answer
  <2>2. UNCHANGED <<counters, faults>> /\ handler[h].pc \notin {"expireUser", "expireIp"}
    BY <1>12 DEF DropAll
  <2> QED
    BY <2>1, <2>2, CountersKept
<1> QED
  BY <1>1, <1>2, <1>3, <1>4, <1>5, <1>6, <1>7, <1>8, <1>9, <1>10, <1>11, <1>12

LEMMA UpdatingCounters ==
    ASSUME Typed, CountersExpire, NEW h \in Handlers,
           ChangePassword(h) \/ ChangeSave(h) \/ ResetFind(h) \/ ResetSave(h) \/ FcmFind(h) \/ FcmSave(h)
    PROVE  CountersExpire'
<1> USE DEF At
<1>1. CASE ChangePassword(h)
  <2>1. \E e : Becomes(h, e)
    BY <1>1 DEF ChangePassword, Goto, Reject, Answer
  <2>2. UNCHANGED <<counters, faults>> /\ handler[h].pc \notin {"expireUser", "expireIp"}
    BY <1>1 DEF ChangePassword
  <2> QED
    BY <2>1, <2>2, CountersKept
<1>2. CASE ChangeSave(h)
  <2>1. \E e : Becomes(h, e)
    BY <1>2 DEF ChangeSave, Goto, Reject, Answer
  <2>2. UNCHANGED <<counters, faults>> /\ handler[h].pc \notin {"expireUser", "expireIp"}
    BY <1>2 DEF ChangeSave
  <2> QED
    BY <2>1, <2>2, CountersKept
<1>3. CASE ResetFind(h)
  <2>1. \E e : Becomes(h, e)
    BY <1>3 DEF ResetFind, Goto, Reject, Answer
  <2>2. UNCHANGED <<counters, faults>> /\ handler[h].pc \notin {"expireUser", "expireIp"}
    BY <1>3 DEF ResetFind
  <2> QED
    BY <2>1, <2>2, CountersKept
<1>4. CASE ResetSave(h)
  <2>1. \E e : Becomes(h, e)
    BY <1>4 DEF ResetSave, Goto, Reject, Answer
  <2>2. UNCHANGED <<counters, faults>> /\ handler[h].pc \notin {"expireUser", "expireIp"}
    BY <1>4 DEF ResetSave
  <2> QED
    BY <2>1, <2>2, CountersKept
<1>5. CASE FcmFind(h)
  <2>1. \E e : Becomes(h, e)
    BY <1>5 DEF FcmFind, Goto, Reject, Answer
  <2>2. UNCHANGED <<counters, faults>> /\ handler[h].pc \notin {"expireUser", "expireIp"}
    BY <1>5 DEF FcmFind
  <2> QED
    BY <2>1, <2>2, CountersKept
<1>6. CASE FcmSave(h)
  <2>1. \E e : Becomes(h, e)
    BY <1>6 DEF FcmSave, Goto, Reject, Answer
  <2>2. UNCHANGED <<counters, faults>> /\ handler[h].pc \notin {"expireUser", "expireIp"}
    BY <1>6 DEF FcmSave
  <2> QED
    BY <2>1, <2>2, CountersKept
<1> QED
  BY <1>1, <1>2, <1>3, <1>4, <1>5, <1>6

LEMMA FailureCounters ==
    ASSUME Typed, CountersExpire, NEW h \in Handlers,
           \/ IncrUser(h) \/ ExpireUser(h) \/ IncrIp(h) \/ ExpireIp(h)
           \/ ClearUser(h) \/ ClearIp(h)
    PROVE  CountersExpire'
<1> USE DEF At
<1>t. attempts \in [Counters -> Nat] /\ ttl \subseteq Counters /\ Counters = {"user", "ip"}
  BY DEF Typed, TypeOK, Counters
<1>1. CASE IncrUser(h)
  <2>1. /\ OthersKept(h)
        /\ handler[h].pc = "incrUser"
        /\ attempts["user"] = 0 => handler'[h].pc = "expireUser"
    BY <1>1, IncrUserMoves DEF IncrUser
  <2>2. /\ attempts'["user"] = attempts["user"] + 1
        /\ attempts'["ip"] = attempts["ip"]
        /\ UNCHANGED <<ttl, faults>>
    BY <1>1, <1>t DEF IncrUser, Incr
  <2> QED
    BY <1>t, <2>1, <2>2 DEF CountersExpire, OthersKept
<1>2. CASE ExpireUser(h)
  <2>1. OthersKept(h) /\ handler[h].pc = "expireUser"
    BY <1>2, GotoMoves DEF ExpireUser
  <2>2. /\ UNCHANGED <<attempts, faults>>
        /\ attempts["user"] > 0 => ttl' = ttl \cup {"user"}
        /\ ~(attempts["user"] > 0) => ttl' = ttl
    BY <1>2 DEF ExpireUser, Expire
  <2> QED
    BY <1>t, <2>1, <2>2 DEF CountersExpire, OthersKept
<1>3. CASE IncrIp(h)
  <2>1. OthersKept(h) /\ handler[h].pc = "incrIp" /\ handler'[h].pc = "expireIp"
    BY <1>3, GotoMoves DEF IncrIp
  <2>2. /\ attempts'["user"] = attempts["user"]
        /\ UNCHANGED <<ttl, faults>>
    BY <1>3, <1>t DEF IncrIp, Incr
  <2> QED
    BY <1>t, <2>1, <2>2 DEF CountersExpire, OthersKept
<1>4. CASE ExpireIp(h)
  <2>1. OthersKept(h) /\ handler[h].pc = "expireIp"
    BY <1>4, GotoMoves, IdleMoves DEF ExpireIp, Reject
  <2>2. /\ UNCHANGED <<attempts, faults>>
        /\ attempts["ip"] > 0 => ttl' = ttl \cup {"ip"}
        /\ ~(attempts["ip"] > 0) => ttl' = ttl
    BY <1>4 DEF ExpireIp, Expire
  <2> QED
    BY <1>t, <2>1, <2>2 DEF CountersExpire, OthersKept
<1>5. CASE ClearUser(h) \/ ClearIp(h)
  <2>1. OthersKept(h) /\ handler[h].pc \notin {"expireUser", "expireIp"}
    BY <1>5, GotoMoves DEF ClearUser, ClearIp
  <2>2. PICK k \in Counters : /\ attempts'[k] = 0
                              /\ \A m \in Counters \ {k} : attempts'[m] = attempts[m]
                              /\ ttl' = ttl \ {k}
                              /\ UNCHANGED faults
    BY <1>5, <1>t DEF ClearUser, ClearIp, Del
  <2> QED
    BY <1>t, <2>1, <2>2 DEF CountersExpire, OthersKept
<1> QED
  BY <1>1, <1>2, <1>3, <1>4, <1>5

LEMMA OtherCounters ==
    ASSUME Typed, CountersExpire,
           \/ \E h \in Handlers : Arrival(h) \/ CallFails(h)
           \/ Passing
           \/ Restart
    PROVE  CountersExpire'
<1> USE AccountAssumption DEF At
<1>1. ASSUME NEW h \in Handlers, Arrival(h)
      PROVE  CountersExpire'
  <2>1. /\ UNCHANGED <<counters, faults>>
        /\ OthersKept(h)
        /\ handler[h].pc = "idle"
    BY <1>1, ArrivalMoves
  <2> QED
    BY <2>1 DEF CountersExpire, OthersKept, counters
<1>2. CASE (\E h \in Handlers : CallFails(h)) \/ Restart
  BY <1>2 DEF CallFails, Restart, CountersExpire, Typed, TypeOK
<1>3. ASSUME NEW n \in Pairs, ExpireAccess(n) \/ ExpireRefresh(n)
      PROVE  CountersExpire'
  BY <1>3 DEF ExpireAccess, ExpireRefresh, CountersExpire, counters
<1>4. ASSUME NEW k \in Counters, CounterExpires(k)
      PROVE  CountersExpire'
  <2>1. /\ attempts'[k] = 0
        /\ \A m \in Counters \ {k} : attempts'[m] = attempts[m]
        /\ ttl' = ttl \ {k}
        /\ UNCHANGED <<faults, handler>>
    BY <1>4 DEF CounterExpires, Del, Typed, TypeOK
  <2> QED
    BY <2>1 DEF CountersExpire
<1>5. CASE LockExpires
  <2>1. ASSUME NEW h \in Handlers
        PROVE  handler'[h].pc = handler[h].pc
    <3>1. PICK u : u = [handler[h].user EXCEPT !.locked = FALSE]
      OBVIOUS
    <3>2. handler'[h] = [handler[h] EXCEPT !.user = u]
      BY <1>5, <3>1 DEF LockExpires
    <3> QED
      BY <3>2 DEF Typed, Sound, Handler
  <2>2. UNCHANGED <<attempts, ttl, faults>>
    BY <1>5 DEF LockExpires, counters
  <2> QED
    BY <2>1, <2>2 DEF CountersExpire
<1> QED
  BY <1>1, <1>2, <1>3, <1>4, <1>5 DEF Passing

\* A counter with no TTL would lock for good; every INCR that may have created
\* the key is followed by the EXPIRE of the same request.
THEOREM CountersAlwaysExpire == Spec => []CountersExpire
<1>1. Init => CountersExpire
  BY DEF Init, CountersExpire
<1>2. Typed /\ CountersExpire /\ [Next]_vars => CountersExpire'
  <2>1. CASE UNCHANGED vars
    BY <2>1 DEF vars, counters, CountersExpire, At
  <2>2. ASSUME Typed, CountersExpire, NEW h \in Handlers,
               Judging(h) \/ Issuing(h) \/ Ending(h) \/ Updating(h)
        PROVE  CountersExpire'
    BY <2>2, JudgingCounters, IssuingCounters, EndingCounters, UpdatingCounters,
       FailureCounters DEF Judging, Issuing, Ending, Updating
  <2> QED
    BY <2>1, <2>2, OtherCounters DEF Next
<1> QED
  BY <1>1, <1>2, TypedAlways, PTL DEF Spec
=============================================================================
