---------------------------- MODULE CodesProofs ----------------------------
(* The types of OneTimeCodes, and that an answered code stays dead, for     *)
(* every set of handlers, number of codes, times to live and faults.        *)
EXTENDS CodesProperties, TLAPS

\* What each call of an endpoint works on, and that a checked code is removed,
\* after it was checked.
WellFormed(calls) ==
  /\ Len(calls) \in Nat
  /\ \A i \in 1..Len(calls) :
      LET call == calls[i][1]  on == calls[i][2] IN
        /\ call \in {"check", "issue", "send"} => on \in CodeKeys
        /\ call \in {"store", "load"} => on = "newEmail"
        /\ call \in {"attempts", "remove"} => on \in Keys
        /\ call = "check" =>
             /\ \E j \in 1..Len(calls) : calls[j] = <<"remove", on>>
             /\ \A j \in 1..(i - 1) : calls[j] # <<"remove", on>>

LEMMA PinCalls ==
    /\ WellFormed(SetPin)
    /\ WellFormed(InitiatePinChange)
    /\ WellFormed(CompletePinChange)
    /\ WellFormed(InitiatePinReset)
    /\ WellFormed(VerifyResetOtp)
    /\ WellFormed(CompletePinReset)
<1> USE DEF WellFormed, Keys, CodeKeys
<1>1. WellFormed(SetPin)
  BY DEF SetPin
<1>2. WellFormed(InitiatePinChange)
  BY DEF InitiatePinChange
<1>3. WellFormed(CompletePinChange)
  BY DEF CompletePinChange
<1>4. WellFormed(InitiatePinReset)
  BY DEF InitiatePinReset
<1>5. WellFormed(VerifyResetOtp)
  BY DEF VerifyResetOtp
<1>6. WellFormed(CompletePinReset)
  BY DEF CompletePinReset
<1> QED
  BY <1>1, <1>2, <1>3, <1>4, <1>5, <1>6

LEMMA PhoneCalls ==
    /\ WellFormed(SignupStart)
    /\ WellFormed(ResendOtp)
    /\ WellFormed(SignupVerifyOtp)
    /\ WellFormed(PasswordResetInitiate)
    /\ WellFormed(PasswordResetVerify)
    /\ WellFormed(PasswordChangeInitiate)
    /\ WellFormed(PasswordChangeVerify)
<1> USE DEF WellFormed, Keys, CodeKeys
<1>1. WellFormed(SignupStart)
  BY DEF SignupStart
<1>2. WellFormed(ResendOtp)
  BY DEF ResendOtp
<1>3. WellFormed(SignupVerifyOtp)
  BY DEF SignupVerifyOtp
<1>4. WellFormed(PasswordResetInitiate)
  BY DEF PasswordResetInitiate
<1>5. WellFormed(PasswordResetVerify)
  BY DEF PasswordResetVerify
<1>6. WellFormed(PasswordChangeInitiate)
  BY DEF PasswordChangeInitiate
<1>7. WellFormed(PasswordChangeVerify)
  BY DEF PasswordChangeVerify
<1> QED
  BY <1>1, <1>2, <1>3, <1>4, <1>5, <1>6, <1>7

LEMMA OtherCalls ==
    /\ WellFormed(EmailChangeInitiate)
    /\ WellFormed(EmailChangeVerify)
    /\ WellFormed(ChangeEmailInitiate)
    /\ WellFormed(VerifyEmailChange)
    /\ WellFormed(InitiateAddressEdit)
    /\ WellFormed(VerifyAddressOtp)
    /\ WellFormed(CompleteAddressEdit)
<1> USE DEF WellFormed, Keys, CodeKeys
<1>1. WellFormed(EmailChangeInitiate)
  BY DEF EmailChangeInitiate
<1>2. WellFormed(EmailChangeVerify)
  BY DEF EmailChangeVerify
<1>3. WellFormed(ChangeEmailInitiate)
  BY DEF ChangeEmailInitiate
<1>4. WellFormed(VerifyEmailChange)
  BY DEF VerifyEmailChange
<1>5. WellFormed(InitiateAddressEdit)
  BY DEF InitiateAddressEdit
<1>6. WellFormed(VerifyAddressOtp)
  BY DEF VerifyAddressOtp
<1>7. WellFormed(CompleteAddressEdit)
  BY DEF CompleteAddressEdit
<1> QED
  BY <1>1, <1>2, <1>3, <1>4, <1>5, <1>6, <1>7

\* The table holds for every endpoint.
LEMMA CallsAt ==
    ASSUME NEW op \in Endpoints
    PROVE  WellFormed(Calls[op])
<1>1. Calls[op] \in {SetPin, InitiatePinChange, CompletePinChange, InitiatePinReset,
        VerifyResetOtp, CompletePinReset, SignupStart, ResendOtp,
        SignupVerifyOtp, PasswordResetInitiate, PasswordResetVerify, PasswordChangeInitiate,
        PasswordChangeVerify, EmailChangeInitiate, EmailChangeVerify, ChangeEmailInitiate,
        VerifyEmailChange, InitiateAddressEdit, VerifyAddressOtp, CompleteAddressEdit}
  BY DEF Endpoints, Calls
<1> QED
  BY <1>1, PinCalls, PhoneCalls, OtherCalls

-----------------------------------------------------------------------------
(* Types.                                                                  *)

LEMMA TTLType ==
    ASSUME NEW k \in Keys
    PROVE  TTL(k) \in 0..AttemptTTL
BY CodesAssumption DEF TTL

LEMMA IdleType == Idle \in Handler
BY CodesAssumption DEF Idle, Handler, Paths, NoCode, Codes

LEMMA PutType ==
    ASSUME TypeOK, NEW k \in Keys, NEW v \in Nat,
           NEW path \in Paths, NEW to \in Emails \cup {0},
           redis' = Put(k, v, path, to)
    PROVE  /\ redis' \in [Keys -> Kept]
           /\ redis'[k].value = v
           /\ \A l \in Keys \ {k} : redis'[l] = redis[l]
<1>1. [value |-> v, left |-> TTL(k), path |-> path, to |-> to] \in Kept
  BY TTLType DEF Kept
<1> QED
  BY <1>1 DEF TypeOK, Put

LEMMA RefuseType ==
    ASSUME TypeOK, NEW h \in Handlers, Refuse(h)
    PROVE  handler' \in [Handlers -> Handler]
BY IdleType DEF TypeOK, Refuse

LEMMA ContinueType ==
    ASSUME TypeOK, NEW h \in Handlers, NEW d \in Handler, Continue(h, d)
    PROVE  handler' \in [Handlers -> Handler]
<1>1. [d EXCEPT !.pc = @ + 1] \in Handler
  BY DEF Handler
<1> QED
  BY <1>1 DEF TypeOK, Continue

LEMMA AdvanceType ==
    ASSUME TypeOK, NEW h \in Handlers, Advance(h)
    PROVE  handler' \in [Handlers -> Handler]
BY ContinueType DEF TypeOK, Advance

\* What a handler is about to work on.
LEMMA AtCall ==
    ASSUME TypeOK, NEW h \in Handlers, NEW call, At(h, call)
    PROVE  /\ handler[h].op \in Endpoints
           /\ handler[h].pc \in 1..Len(Calls[handler[h].op])
           /\ WellFormed(Calls[handler[h].op])
           /\ call \in {"check", "issue", "send"} => On(h) \in CodeKeys
           /\ call \in {"store", "load"} => On(h) = "newEmail"
           /\ call \in {"attempts", "remove"} => On(h) \in Keys
<1>1. handler[h] \in Handler
  BY DEF TypeOK
<1>2. handler[h].op \in Endpoints
  BY <1>1 DEF At, Busy, Handler
<1>3. WellFormed(Calls[handler[h].op])
  BY <1>2, CallsAt
<1>4. handler[h].pc \in 1..Len(Calls[handler[h].op])
  BY <1>1, <1>3 DEF At, Left, Handler, WellFormed
<1> QED
  BY <1>2, <1>3, <1>4 DEF WellFormed, At, On

\* Only a write to Redis can disturb what TypeOK says of the values of keys.
LEMMA SameRedisType ==
    ASSUME TypeOK, UNCHANGED <<redis, account, known, issued>>,
           handler' \in [Handlers -> Handler],
           faults' \in 0..MaxFaults,
           wrong' \in 0..AttemptLimit,
           latest' \in [CodeKeys -> Codes \cup {NoCode}],
           spent' \in SUBSET Codes,
           overlapped' \in BOOLEAN
    PROVE  TypeOK'
BY DEF TypeOK

LEMMA InitType == Init => TypeOK
<1> SUFFICES ASSUME Init PROVE TypeOK
  OBVIOUS
<1>1. redis \in [Keys -> Kept]
  BY CodesAssumption DEF Init, Absent, Kept, Paths, NoCode
<1>2. handler \in [Handlers -> Handler]
  BY IdleType DEF Init
<1>3. /\ \A k \in CodeKeys : redis[k].value \in Codes \cup {NoCode}
      /\ redis["newEmail"].value \in Emails \cup {0}
      /\ redis["signupOtpAttempts"].value <= AttemptLimit
  BY CodesAssumption DEF Init, Absent, NoCode, Keys
<1>4. account \in [registered : BOOLEAN, pin : BOOLEAN]
  <2>1. account = [registered |-> flow \notin {"phone", "signupEmail"}, pin |-> FALSE]
    BY DEF Init
  <2>2. (flow \notin {"phone", "signupEmail"}) \in BOOLEAN
    OBVIOUS
  <2> QED
    BY <2>1, <2>2
<1>5. /\ latest \in [CodeKeys -> Codes \cup {NoCode}]
      /\ spent \in SUBSET Codes /\ known \in SUBSET (Codes \cup {NoCode})
      /\ overlapped \in BOOLEAN
  BY DEF Init
<1>6. issued \in 0..MaxCodes /\ faults \in 0..MaxFaults /\ wrong \in 0..AttemptLimit
  BY CodesAssumption DEF Init
<1> QED
  BY <1>1, <1>2, <1>3, <1>4, <1>5, <1>6 DEF TypeOK

LEMMA BeginType ==
    ASSUME TypeOK, NEW h \in Handlers, NEW op \in Endpoints,
           NEW c \in Codes \cup {NoCode}, NEW e \in Emails \cup {0}, Begin(h, op, c, e)
    PROVE  TypeOK'
<1>1. [Idle EXCEPT !.op = op, !.offered = c, !.email = e] \in Handler
  BY IdleType DEF Handler
<1>2. handler' \in [Handlers -> Handler]
  BY <1>1 DEF Begin, TypeOK
<1>3. /\ wrong' \in 0..AttemptLimit
      /\ latest' \in [CodeKeys -> Codes \cup {NoCode}]
      /\ overlapped' \in BOOLEAN
  <2>1. CASE \E g \in Handlers : Busy(g)
    <3>1. overlapped' = TRUE /\ wrong' = 0 /\ latest' = [k \in CodeKeys |-> NoCode]
      BY <2>1 DEF Begin
    <3> QED
      BY <3>1, CodesAssumption
  <2>2. CASE ~ \E g \in Handlers : Busy(g)
    <3>1. UNCHANGED <<overlapped, wrong, latest>>
      BY <2>2 DEF Begin
    <3> QED
      BY <3>1 DEF TypeOK
  <2> QED
    BY <2>1, <2>2
<1>4. UNCHANGED <<redis, account, known, issued, faults, spent>>
  BY DEF Begin
<1> QED
  BY <1>2, <1>3, <1>4, SameRedisType DEF TypeOK

LEMMA FindType ==
    ASSUME TypeOK, NEW h \in Handlers,
           FindUnset(h) \/ FindUser(h) \/ FindMatching(h)
    PROVE  TypeOK'
<1>1. Advance(h) \/ Refuse(h)
  BY DEF FindUnset, FindUser, FindMatching
<1>2. handler' \in [Handlers -> Handler]
  BY <1>1, AdvanceType, RefuseType
<1> QED
  BY <1>2, SameRedisType DEF FindUnset, FindUser, FindMatching, history, TypeOK

LEMMA IssueType ==
    ASSUME TypeOK, NEW h \in Handlers, Issue(h)
    PROVE  TypeOK'
<1>1. handler[h] \in Handler /\ handler[h].op \in Endpoints /\ On(h) \in CodeKeys
  BY AtCall DEF Issue, TypeOK
<1>2. issued' \in 0..MaxCodes /\ issued' \in Codes
  BY CodesAssumption DEF Issue, TypeOK, Codes
<1>3. Append(handler[h].path, handler[h].op) \in Paths
  BY <1>1 DEF Handler, Paths
<1>4. handler[h].email \in Emails \cup {0}
  BY <1>1 DEF Handler
<1>5. On(h) \in Keys /\ issued' \in Nat
  BY <1>1, <1>2 DEF Keys, Codes
<1>6. /\ redis' \in [Keys -> Kept]
      /\ redis'[On(h)].value = issued'
      /\ \A l \in Keys \ {On(h)} : redis'[l] = redis[l]
  BY <1>3, <1>4, <1>5, PutType DEF Issue
<1>7. [handler[h] EXCEPT !.generated = issued'] \in Handler
  BY <1>1, <1>2 DEF Handler
<1>8. handler' \in [Handlers -> Handler]
  BY <1>7, ContinueType DEF Issue
<1>9. /\ \A k \in CodeKeys : redis'[k].value \in Codes \cup {NoCode}
      /\ redis'["newEmail"].value \in Emails \cup {0}
      /\ redis'["signupOtpAttempts"].value <= AttemptLimit
  BY <1>1, <1>2, <1>6 DEF TypeOK, Keys, CodeKeys
<1> QED
  BY <1>2, <1>6, <1>8, <1>9, CodesAssumption DEF Issue, TypeOK

LEMMA SendType ==
    ASSUME TypeOK, NEW h \in Handlers, Send(h)
    PROVE  TypeOK'
<1>1. handler[h] \in Handler /\ On(h) \in CodeKeys
  BY AtCall DEF Send, TypeOK
<1>2. handler[h].generated \in Codes \cup {NoCode}
  BY <1>1 DEF Handler
<1>3. handler' \in [Handlers -> Handler]
  BY AdvanceType DEF Send
<1>4. latest' \in [CodeKeys -> Codes \cup {NoCode}]
  BY <1>1, <1>2 DEF Send, TypeOK
<1> QED
  BY <1>2, <1>3, <1>4 DEF Send, TypeOK

LEMMA StoreEmailType ==
    ASSUME TypeOK, NEW h \in Handlers, StoreEmail(h)
    PROVE  TypeOK'
<1>1. handler[h] \in Handler /\ On(h) = "newEmail"
  BY AtCall DEF StoreEmail, TypeOK
<1>2. handler[h].email \in Nat /\ handler[h].email \in Emails \cup {0}
  <2>1. handler[h].email \in Emails \cup {0}
    BY <1>1 DEF Handler
  <2>2. \A e \in Emails : e \in Nat
    BY CodesAssumption
  <2> QED
    BY <2>1, <2>2
<1>3. <<>> \in Paths /\ On(h) \in Keys
  BY <1>1 DEF Paths, Keys
<1>4. /\ redis' \in [Keys -> Kept]
      /\ redis'[On(h)].value = handler[h].email
      /\ \A l \in Keys \ {On(h)} : redis'[l] = redis[l]
  BY <1>2, <1>3, PutType DEF StoreEmail
<1>5. handler' \in [Handlers -> Handler]
  BY AdvanceType DEF StoreEmail
<1>6. /\ \A k \in CodeKeys : redis'[k].value \in Codes \cup {NoCode}
      /\ redis'["newEmail"].value \in Emails \cup {0}
      /\ redis'["signupOtpAttempts"].value <= AttemptLimit
  BY <1>1, <1>2, <1>4 DEF TypeOK, Keys, CodeKeys
<1> QED
  BY <1>4, <1>5, <1>6 DEF StoreEmail, history, TypeOK

LEMMA ReadAttemptsType ==
    ASSUME TypeOK, NEW h \in Handlers, ReadAttempts(h)
    PROVE  TypeOK'
<1>1. handler[h] \in Handler /\ On(h) \in Keys
  BY AtCall DEF ReadAttempts, TypeOK
<1>2. redis[On(h)].value \in Nat
  BY <1>1 DEF TypeOK, Kept
<1>3. handler' \in [Handlers -> Handler]
  <2>1. CASE redis[On(h)].value >= AttemptLimit
    BY <2>1, RefuseType DEF ReadAttempts
  <2>2. CASE ~(redis[On(h)].value >= AttemptLimit)
    <3>1. redis[On(h)].value \in 0..(AttemptLimit - 1)
      BY <1>2, <2>2, CodesAssumption
    <3>2. [handler[h] EXCEPT !.attempts = redis[On(h)].value] \in Handler
      BY <1>1, <3>1 DEF Handler
    <3> QED
      BY <2>2, <3>2, ContinueType DEF ReadAttempts
  <2> QED
    BY <2>1, <2>2
<1> QED
  BY <1>3, SameRedisType DEF ReadAttempts, history, TypeOK

LEMMA CheckType ==
    ASSUME TypeOK, NEW h \in Handlers, Accept(h) \/ Reject(h)
    PROVE  TypeOK'
<1>1. handler[h] \in Handler /\ On(h) \in CodeKeys
  BY AtCall DEF Accept, Reject, TypeOK
<1>2. redis[On(h)] \in Kept /\ redis[On(h)].value \in Codes \cup {NoCode}
  BY <1>1 DEF TypeOK, Keys
<1>3. handler' \in [Handlers -> Handler]
  <2>1. CASE Accept(h)
    <3>1. [handler[h] EXCEPT !.accepted = handler[h].offered,
                             !.path = redis[On(h)].path,
                             !.to = redis[On(h)].to] \in Handler
      BY <1>1, <1>2 DEF Handler, Kept
    <3> QED
      BY <2>1, <3>1, ContinueType DEF Accept
  <2>2. CASE Reject(h)
    <3>1. CASE Refuse(h)
      BY <3>1, RefuseType
    <3>2. CASE handler' = [handler EXCEPT ![h].against = redis[On(h)].value]
      <4>1. [handler[h] EXCEPT !.against = redis[On(h)].value] \in Handler
        BY <1>1, <1>2 DEF Handler
      <4> QED
        BY <3>2, <4>1 DEF TypeOK
    <3> QED
      BY <2>2, <3>1, <3>2 DEF Reject
  <2> QED
    BY <2>1, <2>2
<1> QED
  BY <1>3, SameRedisType DEF Accept, Reject, history, TypeOK

LEMMA CountAttemptType ==
    ASSUME TypeOK, NEW h \in Handlers, CountAttempt(h)
    PROVE  TypeOK'
<1>1. handler[h].attempts + 1 \in Nat /\ handler[h].attempts + 1 <= AttemptLimit
  BY CodesAssumption DEF TypeOK, Handler
<1>2. <<>> \in Paths /\ "signupOtpAttempts" \in Keys
  BY DEF Paths, Keys
<1>3. /\ redis' \in [Keys -> Kept]
      /\ redis'["signupOtpAttempts"].value = handler[h].attempts + 1
      /\ \A l \in Keys \ {"signupOtpAttempts"} : redis'[l] = redis[l]
  BY <1>1, <1>2, PutType DEF CountAttempt
<1>4. handler' \in [Handlers -> Handler]
  BY RefuseType DEF CountAttempt
<1>5. /\ \A k \in CodeKeys : redis'[k].value \in Codes \cup {NoCode}
      /\ redis'["newEmail"].value \in Emails \cup {0}
      /\ redis'["signupOtpAttempts"].value <= AttemptLimit
  BY <1>1, <1>3 DEF TypeOK, Keys, CodeKeys
<1>6. wrong' \in 0..AttemptLimit
  BY CodesAssumption DEF CountAttempt, TypeOK
<1> QED
  BY <1>3, <1>4, <1>5, <1>6 DEF CountAttempt, TypeOK

LEMMA LoadEmailType ==
    ASSUME TypeOK, NEW h \in Handlers, LoadEmail(h)
    PROVE  TypeOK'
<1>1. handler[h] \in Handler /\ On(h) = "newEmail"
  BY AtCall DEF LoadEmail, TypeOK
<1>2. redis[On(h)].value \in Emails \cup {0}
  BY <1>1 DEF TypeOK
<1>3. handler' \in [Handlers -> Handler]
  <2>1. CASE Refuse(h)
    BY <2>1, RefuseType
  <2>2. CASE Continue(h, [handler[h] EXCEPT !.loaded = redis[On(h)].value])
    <3>1. [handler[h] EXCEPT !.loaded = redis[On(h)].value] \in Handler
      BY <1>1, <1>2 DEF Handler
    <3> QED
      BY <2>2, <3>1, ContinueType
  <2> QED
    BY <2>1, <2>2 DEF LoadEmail
<1> QED
  BY <1>3, SameRedisType DEF LoadEmail, history, TypeOK

LEMMA WriteType ==
    ASSUME TypeOK, NEW h \in Handlers, Write(h)
    PROVE  TypeOK'
<1>1. handler' \in [Handlers -> Handler]
  BY AdvanceType DEF Write
<1>2. account' \in [registered : BOOLEAN, pin : BOOLEAN]
  <2>1. (account.pin \/ On(h) = "pin") \in BOOLEAN
    OBVIOUS
  <2> QED
    BY <2>1 DEF Write, TypeOK
<1> QED
  BY <1>1, <1>2 DEF Write, history, TypeOK

LEMMA AbsentType == Absent \in Kept
BY CodesAssumption DEF Absent, Kept, NoCode, Paths

LEMMA RemoveType ==
    ASSUME TypeOK, NEW h \in Handlers, Remove(h)
    PROVE  TypeOK'
<1>1. On(h) \in Keys
  BY AtCall DEF Remove
<1>2. handler' \in [Handlers -> Handler]
  BY AdvanceType DEF Remove
<1>3. redis' \in [Keys -> Kept]
  BY AbsentType DEF Remove, TypeOK
<1>4. Absent.value = 0
  BY DEF Absent, NoCode
<1>5. \A k \in Keys : redis'[k].value \in {redis[k].value, 0}
  BY <1>1, <1>4 DEF Remove, TypeOK
<1>6. /\ \A k \in CodeKeys : redis'[k].value \in Codes \cup {NoCode}
      /\ redis'["newEmail"].value \in Emails \cup {0}
      /\ redis'["signupOtpAttempts"].value <= AttemptLimit
  BY <1>5, CodesAssumption DEF TypeOK, Keys, NoCode
<1> QED
  BY <1>2, <1>3, <1>6 DEF Remove, history, TypeOK

LEMMA EndType ==
    ASSUME TypeOK, NEW h \in Handlers, Finish(h) \/ Fault(h)
    PROVE  TypeOK'
<1>1. handler' \in [Handlers -> Handler]
  BY RefuseType DEF Finish, Fault
<1>2. spent' \in SUBSET Codes
  BY DEF Finish, Fault, TypeOK, Handler, history
<1>3. faults' \in 0..MaxFaults
  BY CodesAssumption DEF Finish, Fault, TypeOK
<1> QED
  BY <1>1, <1>2, <1>3, SameRedisType DEF Finish, Fault, history, TypeOK

LEMMA TickType == TypeOK /\ Tick => TypeOK'
<1> SUFFICES ASSUME TypeOK, Tick PROVE TypeOK'
  OBVIOUS
<1>1. \A k \in Keys : redis[k] \in Kept
  BY DEF TypeOK
<1>2. \A k \in Keys :
        \/ redis'[k] = Absent
        \/ redis[k].left > 1 /\ redis'[k] = [redis[k] EXCEPT !.left = @ - 1]
  BY <1>1 DEF Tick, Kept
<1>3. redis' \in [Keys -> Kept] /\ \A k \in Keys : redis'[k].value \in {redis[k].value, 0}
  <2>1. ASSUME NEW k \in Keys
        PROVE  redis'[k] \in Kept /\ redis'[k].value \in {redis[k].value, 0}
    <3>1. CASE redis'[k] = Absent
      BY <3>1, AbsentType DEF Absent, NoCode
    <3>2. CASE redis[k].left > 1 /\ redis'[k] = [redis[k] EXCEPT !.left = @ - 1]
      BY <1>1, <3>2, CodesAssumption DEF Kept
    <3> QED
      BY <1>2, <3>1, <3>2
  <2>2. redis' = [k \in Keys |-> redis'[k]]
    BY DEF Tick
  <2> QED
    BY <2>1, <2>2
<1>4. /\ \A k \in CodeKeys : redis'[k].value \in Codes \cup {NoCode}
      /\ redis'["newEmail"].value \in Emails \cup {0}
      /\ redis'["signupOtpAttempts"].value <= AttemptLimit
  BY <1>3, CodesAssumption DEF TypeOK, Keys, NoCode
<1>5. latest' \in [CodeKeys -> Codes \cup {NoCode}]
  BY DEF Tick, TypeOK
<1> QED
  BY <1>3, <1>4, <1>5 DEF Tick, TypeOK

LEMMA NextType == TypeOK /\ [Next]_vars => TypeOK'
<1> SUFFICES ASSUME TypeOK, [Next]_vars PROVE TypeOK'
  OBVIOUS
<1>1. ASSUME NEW h \in Handlers, NEW op \in Endpoints,
             NEW c \in Codes \cup {NoCode}, NEW e \in Emails \cup {0},
             Begin(h, op, c, e)
      PROVE  TypeOK'
  BY <1>1, BeginType
<1>2. ASSUME NEW h \in Handlers, Step(h) PROVE TypeOK'
  BY <1>2, FindType, IssueType, SendType, StoreEmailType, ReadAttemptsType,
     CheckType, CountAttemptType, LoadEmailType, WriteType, RemoveType, EndType
     DEF Step
<1>3. ASSUME NEW h \in Handlers, Fault(h) PROVE TypeOK'
  BY <1>3, EndType
<1>4. CASE Register
  BY <1>4 DEF Register, history, TypeOK
<1>5. CASE Tick
  BY <1>5, TickType
<1>6. CASE UNCHANGED vars
  BY <1>6 DEF vars, history, TypeOK
<1> QED
  BY <1>1, <1>2, <1>3, <1>4, <1>5, <1>6 DEF Next

\* Redis, the account and the requests hold what they may; the counter of
\* wrong signup codes never passes the limit however requests that read it
\* at the same time interleave.
THEOREM CodesTypeCorrect == Spec => []TypeOK
<1>1. Init => TypeOK
  BY InitType
<1>2. TypeOK /\ [Next]_vars => TypeOK'
  BY NextType
<1> QED
  BY <1>1, <1>2, PTL DEF Spec

-----------------------------------------------------------------------------
(* An answered code is dead.  SpentCodeIsDead is not inductive: a request   *)
(* about to be answered must already have removed its code.                 *)

\* Codes are fresh when they are issued, and no two keys hold the same.
Fresh == /\ \A k \in CodeKeys : redis[k].value <= issued
         /\ \A c \in spent : c <= issued
         /\ \A h \in Handlers : handler[h].accepted <= issued
Unique == \A k, l \in CodeKeys :
            redis[k].value # NoCode /\ redis[k].value = redis[l].value => k = l

\* A code that h has accepted is stored at most under the key h checked, and
\* only until h has removed it there.
Held(h) ==
    handler[h].accepted # NoCode =>
      /\ handler[h].op \in Endpoints
      /\ \E i \in 1..Len(Calls[handler[h].op]) :
           /\ Calls[handler[h].op][i][1] = "check"
           /\ \A k \in CodeKeys : redis[k].value = handler[h].accepted =>
                /\ Calls[handler[h].op][i][2] = k
                /\ \A j \in 1..(handler[h].pc - 1) :
                     Calls[handler[h].op][j] # <<"remove", k>>

CodesInv ==
    TypeOK /\ Fresh /\ Unique /\ SpentCodeIsDead /\ \A h \in Handlers : Held(h)

\* Nothing is stored under the keys of codes, though some may be dropped.
Shrinks == \A k \in CodeKeys : redis'[k].value \in {redis[k].value, NoCode}

LEMMA ShrinksKeep ==
    ASSUME CodesInv, Shrinks, UNCHANGED <<issued, spent>>
    PROVE  /\ \A k \in CodeKeys : redis'[k].value <= issued'
           /\ \A c \in spent' : c <= issued'
           /\ Unique' /\ SpentCodeIsDead'
<1>1. \A k \in CodeKeys : redis[k].value \in Codes \cup {NoCode}
  BY DEF CodesInv, TypeOK
<1>2. issued \in Nat
  BY DEF CodesInv, TypeOK
<1>3. NoCode \notin spent
  BY DEF CodesInv, TypeOK, Codes, NoCode
<1> QED
  BY <1>1, <1>2, <1>3 DEF CodesInv, Shrinks, Fresh, Unique, SpentCodeIsDead, NoCode

\* A handler that stays, or does a call that is no DEL of a stored code.
LEMMA HeldStep ==
    ASSUME CodesInv, Shrinks, NEW h \in Handlers,
           handler'[h].accepted = handler[h].accepted,
           handler'[h].op = handler[h].op,
           \/ handler'[h].pc = handler[h].pc
           \/ /\ handler'[h].pc = handler[h].pc + 1
              /\ \A k \in CodeKeys :
                   redis'[k].value # NoCode =>
                     Calls[handler[h].op][handler[h].pc] # <<"remove", k>>
    PROVE  Held(h)'
<1> SUFFICES ASSUME handler[h].accepted # NoCode
             PROVE  Held(h)'
  BY DEF Held
<1>1. handler[h].op \in Endpoints /\ handler[h].pc \in Nat
  BY DEF CodesInv, TypeOK, Handler, Held
<1>2. PICK i \in 1..Len(Calls[handler[h].op]) :
        /\ Calls[handler[h].op][i][1] = "check"
        /\ \A k \in CodeKeys : redis[k].value = handler[h].accepted =>
             /\ Calls[handler[h].op][i][2] = k
             /\ \A j \in 1..(handler[h].pc - 1) :
                  Calls[handler[h].op][j] # <<"remove", k>>
  BY DEF CodesInv, Held
<1>3. ASSUME NEW k \in CodeKeys, redis'[k].value = handler[h].accepted
      PROVE  /\ Calls[handler[h].op][i][2] = k
             /\ \A j \in 1..(handler'[h].pc - 1) :
                  Calls[handler[h].op][j] # <<"remove", k>>
  <2>1. redis[k].value = handler[h].accepted
    BY <1>3 DEF Shrinks
  <2>2. ASSUME NEW j \in 1..(handler'[h].pc - 1)
        PROVE  Calls[handler[h].op][j] # <<"remove", k>>
    <3>1. j \in 1..(handler[h].pc - 1) \/ (j = handler[h].pc /\ handler'[h].pc = handler[h].pc + 1)
      BY <1>1
    <3>2. CASE j \in 1..(handler[h].pc - 1)
      BY <1>2, <2>1, <3>2
    <3>3. CASE j = handler[h].pc /\ handler'[h].pc = handler[h].pc + 1
      BY <1>1, <1>3, <3>3
    <3> QED
      BY <3>1, <3>2, <3>3
  <2> QED
    BY <1>2, <2>1, <2>2
<1> QED
  BY <1>1, <1>2, <1>3 DEF Held

\* A step of h that issues and answers nothing.
LEMMA QuietStep ==
    ASSUME CodesInv, TypeOK', Shrinks, UNCHANGED <<issued, spent>>,
           NEW h \in Handlers,
           \A g \in Handlers \ {h} : handler'[g] = handler[g],
           \/ handler'[h].accepted = NoCode
           \/ /\ handler'[h].accepted = handler[h].accepted
              /\ handler'[h].op = handler[h].op
              /\ \/ handler'[h].pc = handler[h].pc
                 \/ /\ handler'[h].pc = handler[h].pc + 1
                    /\ \A k \in CodeKeys :
                         redis'[k].value # NoCode =>
                           Calls[handler[h].op][handler[h].pc] # <<"remove", k>>
    PROVE  CodesInv'
<1>1. \A g \in Handlers : Held(g)'
  <2>1. ASSUME NEW g \in Handlers, g # h PROVE Held(g)'
    BY <2>1, HeldStep
  <2>2. Held(h)'
    <3>1. CASE handler'[h].accepted = NoCode
      BY <3>1 DEF Held
    <3>2. CASE handler'[h].accepted # NoCode
      BY <3>2, HeldStep
    <3> QED
      BY <3>1, <3>2
  <2> QED
    BY <2>1, <2>2
<1>2. issued \in Nat /\ \A g \in Handlers : handler[g].accepted <= issued
  BY DEF CodesInv, TypeOK, Fresh
<1>3. \A g \in Handlers : handler'[g].accepted <= issued
  BY <1>2 DEF NoCode
<1> QED
  BY <1>1, <1>3, ShrinksKeep DEF CodesInv, Fresh

\* How the helpers change a handler's record.
LEMMA ContinueAt ==
    ASSUME TypeOK, NEW h \in Handlers, NEW d \in Handler, Continue(h, d)
    PROVE  /\ handler'[h].pc = d.pc + 1
           /\ handler'[h].op = d.op
           /\ handler'[h].accepted = d.accepted
           /\ \A g \in Handlers \ {h} : handler'[g] = handler[g]
<1>1. handler'[h] = [d EXCEPT !.pc = @ + 1]
  BY DEF Continue, TypeOK
<1>2. \A g \in Handlers \ {h} : handler'[g] = handler[g]
  BY DEF Continue, TypeOK
<1> QED
  BY <1>1, <1>2 DEF Handler

LEMMA AdvanceAt ==
    ASSUME TypeOK, NEW h \in Handlers, Advance(h)
    PROVE  /\ handler'[h].pc = handler[h].pc + 1
           /\ handler'[h].op = handler[h].op
           /\ handler'[h].accepted = handler[h].accepted
           /\ \A g \in Handlers \ {h} : handler'[g] = handler[g]
BY ContinueAt DEF TypeOK, Advance

LEMMA RefuseAt ==
    ASSUME TypeOK, NEW h \in Handlers, Refuse(h)
    PROVE  /\ handler'[h].accepted = NoCode
           /\ \A g \in Handlers \ {h} : handler'[g] = handler[g]
BY DEF TypeOK, Refuse, Idle

LEMMA AtNotRemove ==
    ASSUME NEW h \in Handlers, NEW call, At(h, call), call # "remove"
    PROVE  \A k \in CodeKeys : Calls[handler[h].op][handler[h].pc] # <<"remove", k>>
BY DEF At

\* Steps that leave Redis alone, or write only keys that hold no code.
LEMMA PlainStep ==
    ASSUME CodesInv, TypeOK', UNCHANGED <<issued, spent>>, Shrinks,
           NEW h \in Handlers, NEW call, At(h, call), call # "remove",
           Advance(h) \/ Refuse(h)
    PROVE  CodesInv'
<1>1. TypeOK
  BY DEF CodesInv
<1> QED
  BY <1>1, AdvanceAt, RefuseAt, AtNotRemove, QuietStep

LEMMA SameRedisShrinks == UNCHANGED redis => Shrinks
BY DEF Shrinks

LEMMA BeginInv ==
    ASSUME CodesInv, TypeOK', NEW h \in Handlers, NEW op \in Endpoints,
           NEW c \in Codes \cup {NoCode}, NEW e \in Emails \cup {0}, Begin(h, op, c, e)
    PROVE  CodesInv'
<1>1. /\ handler'[h] = [Idle EXCEPT !.op = op, !.offered = c, !.email = e]
      /\ \A g \in Handlers \ {h} : handler'[g] = handler[g]
  BY DEF Begin, CodesInv, TypeOK
<1>2. handler'[h].accepted = NoCode
  BY <1>1 DEF Idle
<1> QED
  BY <1>1, <1>2, SameRedisShrinks, QuietStep DEF Begin

LEMMA FindInv ==
    ASSUME CodesInv, TypeOK', NEW h \in Handlers,
           FindUnset(h) \/ FindUser(h) \/ FindMatching(h) \/ Write(h) \/ Send(h)
    PROVE  CodesInv'
<1>1. Shrinks /\ UNCHANGED <<issued, spent>>
  BY SameRedisShrinks DEF FindUnset, FindUser, FindMatching, Write, Send, history
<1>2. PICK call \in {"unset", "present", "absent", "matches", "write", "send"} : At(h, call)
  BY DEF FindUnset, FindUser, FindMatching, Write, Send
<1>3. Advance(h) \/ Refuse(h)
  BY DEF FindUnset, FindUser, FindMatching, Write, Send
<1> QED
  BY <1>1, <1>2, <1>3, PlainStep

LEMMA OtherKeysInv ==
    ASSUME CodesInv, TypeOK', NEW h \in Handlers, StoreEmail(h) \/ CountAttempt(h)
    PROVE  CodesInv'
<1>1. TypeOK
  BY DEF CodesInv
<1>2. CASE StoreEmail(h)
  <2>1. On(h) = "newEmail" /\ At(h, "store")
    BY <1>1, <1>2, AtCall DEF StoreEmail
  <2>2. Shrinks
    BY <1>1, <1>2, <2>1 DEF StoreEmail, Put, Shrinks, TypeOK, CodeKeys, Keys
  <2> QED
    BY <1>2, <2>1, <2>2, PlainStep DEF StoreEmail, history
<1>3. CASE CountAttempt(h)
  <2>1. Shrinks
    BY <1>1, <1>3 DEF CountAttempt, Put, Shrinks, TypeOK, CodeKeys, Keys
  <2> QED
    BY <1>1, <1>3, <2>1, RefuseAt, QuietStep DEF CountAttempt
<1> QED
  BY <1>2, <1>3

LEMMA ReadInv ==
    ASSUME CodesInv, TypeOK', NEW h \in Handlers, ReadAttempts(h) \/ LoadEmail(h)
    PROVE  CodesInv'
<1>1. TypeOK /\ handler[h] \in Handler
  BY DEF CodesInv, TypeOK
<1>2. PICK call \in {"attempts", "load"} : At(h, call)
  BY DEF ReadAttempts, LoadEmail
<1>3. Shrinks /\ UNCHANGED <<issued, spent>>
  BY SameRedisShrinks DEF ReadAttempts, LoadEmail, history
<1>4. CASE Refuse(h)
  BY <1>2, <1>3, <1>4, PlainStep
<1>5. CASE ReadAttempts(h) /\ ~Refuse(h)
  <2>1. handler' = [handler EXCEPT ![h] =
                      [[handler[h] EXCEPT !.attempts = redis[On(h)].value] EXCEPT !.pc = @ + 1]]
    BY <1>5 DEF ReadAttempts, Continue
  <2>2. /\ handler'[h].pc = handler[h].pc + 1
        /\ handler'[h].op = handler[h].op
        /\ handler'[h].accepted = handler[h].accepted
        /\ \A g \in Handlers \ {h} : handler'[g] = handler[g]
    BY <1>1, <2>1 DEF TypeOK, Handler
  <2> QED
    BY <1>2, <1>3, <2>2, AtNotRemove, QuietStep
<1>6. CASE LoadEmail(h) /\ ~Refuse(h)
  <2>1. handler' = [handler EXCEPT ![h] =
                      [[handler[h] EXCEPT !.loaded = redis[On(h)].value] EXCEPT !.pc = @ + 1]]
    BY <1>6 DEF LoadEmail, Continue
  <2>2. /\ handler'[h].pc = handler[h].pc + 1
        /\ handler'[h].op = handler[h].op
        /\ handler'[h].accepted = handler[h].accepted
        /\ \A g \in Handlers \ {h} : handler'[g] = handler[g]
    BY <1>1, <2>1 DEF TypeOK, Handler
  <2> QED
    BY <1>2, <1>3, <2>2, AtNotRemove, QuietStep
<1> QED
  BY <1>4, <1>5, <1>6

LEMMA RejectInv ==
    ASSUME CodesInv, TypeOK', NEW h \in Handlers, Reject(h)
    PROVE  CodesInv'
<1>1. TypeOK /\ handler[h] \in Handler
  BY DEF CodesInv, TypeOK
<1>2. Shrinks /\ UNCHANGED <<issued, spent>>
  BY SameRedisShrinks DEF Reject, history
<1>3. CASE Refuse(h)
  BY <1>1, <1>2, <1>3, RefuseAt, QuietStep
<1>4. CASE handler' = [handler EXCEPT ![h].against = redis[On(h)].value]
  <2>1. handler'[h] = [handler[h] EXCEPT !.against = redis[On(h)].value]
        /\ \A g \in Handlers \ {h} : handler'[g] = handler[g]
    BY <1>1, <1>4 DEF TypeOK
  <2>2. /\ handler'[h].accepted = handler[h].accepted
        /\ handler'[h].op = handler[h].op
        /\ handler'[h].pc = handler[h].pc
    BY <1>1, <2>1 DEF Handler
  <2> QED
    BY <1>2, <2>1, <2>2, QuietStep
<1> QED
  BY <1>3, <1>4 DEF Reject

\* The code was under the key that is checked, and under no other.
LEMMA AcceptInv ==
    ASSUME CodesInv, TypeOK', NEW h \in Handlers, Accept(h)
    PROVE  CodesInv'
<1>1. TypeOK /\ handler[h] \in Handler
  BY DEF CodesInv, TypeOK
<1>2. /\ handler[h].op \in Endpoints
      /\ handler[h].pc \in 1..Len(Calls[handler[h].op])
      /\ WellFormed(Calls[handler[h].op])
      /\ On(h) \in CodeKeys
      /\ Calls[handler[h].op][handler[h].pc][1] = "check"
  BY <1>1, AtCall DEF Accept, At
<1> DEFINE d == [handler[h] EXCEPT !.accepted = handler[h].offered,
                                   !.path = redis[On(h)].path,
                                   !.to = redis[On(h)].to]
<1>3. d \in Handler
  <2>1. redis[On(h)] \in Kept
    BY <1>1, <1>2 DEF TypeOK, Keys
  <2> QED
    BY <1>1, <2>1 DEF Handler, Kept
<1>4. d.pc = handler[h].pc /\ d.op = handler[h].op /\ d.accepted = handler[h].offered
  BY <1>1 DEF Handler
<1>5. Continue(h, d)
  BY DEF Accept
<1>6. /\ handler'[h].pc = handler[h].pc + 1
      /\ handler'[h].op = handler[h].op
      /\ handler'[h].accepted = handler[h].offered
      /\ \A g \in Handlers \ {h} : handler'[g] = handler[g]
  <2> HIDE DEF d
  <2> QED
    BY <1>1, <1>3, <1>4, <1>5, ContinueAt
<1>7. redis[On(h)].value = handler[h].offered /\ handler[h].offered # NoCode
  BY DEF Accept, Valid
<1>8. UNCHANGED <<redis, issued, spent>> /\ Shrinks
  BY SameRedisShrinks DEF Accept, history
<1>9. Held(h)'
  <2> DEFINE i == handler[h].pc
  <2>1. \A k \in CodeKeys : redis[k].value = handler[h].offered => k = On(h)
    BY <1>2, <1>7 DEF CodesInv, Unique
  <2>2. On(h) = Calls[handler[h].op][i][2]
    BY DEF On
  <2>3. \A j \in 1..(i - 1) : Calls[handler[h].op][j] # <<"remove", On(h)>>
    BY <1>2, <2>2 DEF WellFormed
  <2>4. handler'[h].pc - 1 = i
    BY <1>1, <1>6 DEF Handler
  <2>5. Calls[handler[h].op][i] # <<"remove", On(h)>>
    BY <1>2
  <2>6. \A j \in 1..i : Calls[handler[h].op][j] # <<"remove", On(h)>>
    BY <1>2, <2>3, <2>5
  <2>7. \A k \in CodeKeys : redis'[k].value = handler'[h].accepted =>
          /\ Calls[handler[h].op][i][2] = k
          /\ \A j \in 1..(handler'[h].pc - 1) : Calls[handler[h].op][j] # <<"remove", k>>
    <3> HIDE DEF i
    <3> QED
      BY <1>6, <1>8, <2>1, <2>2, <2>4, <2>6
  <2>8. i \in 1..Len(Calls[handler[h].op]) /\ Calls[handler[h].op][i][1] = "check"
    BY <1>2
  <2>9. handler'[h].op = handler[h].op /\ handler[h].op \in Endpoints
    BY <1>2, <1>6
  <2> HIDE DEF i, d
  <2> QED
    BY <2>7, <2>8, <2>9 DEF Held
<1>10. \A g \in Handlers \ {h} : Held(g)'
  BY <1>6, <1>8, HeldStep
<1>11. \A g \in Handlers : handler'[g].accepted <= issued
  BY <1>2, <1>6, <1>7 DEF CodesInv, Fresh
<1> QED
  BY <1>8, <1>9, <1>10, <1>11, ShrinksKeep DEF CodesInv, Fresh

\* The new code is above all that were issued, stored or answered before.
LEMMA IssueInv ==
    ASSUME CodesInv, TypeOK', NEW h \in Handlers, Issue(h)
    PROVE  CodesInv'
<1>1. TypeOK /\ handler[h] \in Handler /\ issued \in Nat
  BY DEF CodesInv, TypeOK
<1>2. On(h) \in CodeKeys /\ On(h) \in Keys
  BY <1>1, AtCall DEF Issue, Keys
<1>3. issued' = issued + 1 /\ spent' = spent
  BY DEF Issue
<1>4. /\ redis'[On(h)].value = issued + 1
      /\ \A k \in CodeKeys \ {On(h)} : redis'[k] = redis[k]
  BY <1>1, <1>2, <1>3 DEF Issue, Put, TypeOK, Keys
<1>5. \A k \in CodeKeys : redis[k].value \in Nat /\ redis[k].value <= issued
  BY DEF CodesInv, Fresh, TypeOK, Keys, Kept
<1>6. /\ handler'[h].pc = handler[h].pc + 1
      /\ handler'[h].op = handler[h].op
      /\ handler'[h].accepted = handler[h].accepted
      /\ \A g \in Handlers \ {h} : handler'[g] = handler[g]
  <2>1. handler' = [handler EXCEPT ![h] =
                      [[handler[h] EXCEPT !.generated = issued'] EXCEPT !.pc = @ + 1]]
    BY DEF Issue, Continue
  <2> QED
    BY <1>1, <2>1 DEF TypeOK, Handler
<1>7. \A g \in Handlers : /\ handler'[g].accepted = handler[g].accepted
                          /\ handler[g].accepted \in Nat
                          /\ handler[g].accepted <= issued
  BY <1>1, <1>6 DEF CodesInv, Fresh, TypeOK, Handler, Codes, NoCode
<1>8. Fresh'
  <2>1. \A k \in CodeKeys : redis'[k].value <= issued'
    BY <1>1, <1>3, <1>4, <1>5
  <2>2. \A c \in spent' : c <= issued'
    BY <1>1, <1>3 DEF CodesInv, Fresh, TypeOK, Codes
  <2>3. \A g \in Handlers : handler'[g].accepted <= issued'
    BY <1>1, <1>3, <1>7
  <2> QED
    BY <2>1, <2>2, <2>3 DEF Fresh
<1>9. Unique'
  BY <1>1, <1>4, <1>5 DEF CodesInv, Unique, NoCode
<1>10. SpentCodeIsDead'
  BY <1>1, <1>3, <1>4 DEF CodesInv, Fresh, SpentCodeIsDead
<1>11. ASSUME NEW g \in Handlers PROVE Held(g)'
  <2> SUFFICES ASSUME handler'[g].accepted # NoCode PROVE Held(g)'
    BY DEF Held
  <2>1. handler[g].accepted # NoCode
    BY <1>7
  <2>2. handler[g].op \in Endpoints /\ handler'[g].op = handler[g].op
    BY <1>6, <2>1 DEF CodesInv, Held
  <2>3. PICK i \in 1..Len(Calls[handler[g].op]) :
          /\ Calls[handler[g].op][i][1] = "check"
          /\ \A k \in CodeKeys : redis[k].value = handler[g].accepted =>
               /\ Calls[handler[g].op][i][2] = k
               /\ \A j \in 1..(handler[g].pc - 1) :
                    Calls[handler[g].op][j] # <<"remove", k>>
    BY <2>1 DEF CodesInv, Held
  <2>4. ASSUME NEW k \in CodeKeys, redis'[k].value = handler'[g].accepted
        PROVE  /\ Calls[handler[g].op][i][2] = k
               /\ \A j \in 1..(handler'[g].pc - 1) :
                    Calls[handler[g].op][j] # <<"remove", k>>
    <3>1. k # On(h)
      BY <1>1, <1>4, <1>7, <2>4
    <3>2. redis[k].value = handler[g].accepted
      BY <1>4, <1>7, <2>4, <3>1
    <3>3. CASE g # h
      BY <1>6, <2>3, <3>2, <3>3
    <3>4. CASE g = h
      <4>1. handler[h].pc \in Nat \ {0}
        BY <1>1 DEF Handler
      <4>2. Calls[handler[h].op][handler[h].pc] # <<"remove", k>>
        BY AtNotRemove DEF Issue
      <4>3. \A j \in 1..handler[h].pc : j = handler[h].pc \/ j \in 1..(handler[h].pc - 1)
        BY <4>1
      <4>4. handler'[h].pc - 1 = handler[h].pc
        BY <1>6, <4>1
      <4> QED
        BY <2>3, <3>2, <3>4, <4>2, <4>3, <4>4
    <3> QED
      BY <3>3, <3>4
  <2> QED
    BY <2>2, <2>3, <2>4 DEF Held
<1> QED
  BY <1>8, <1>9, <1>10, <1>11 DEF CodesInv

LEMMA RemoveInv ==
    ASSUME CodesInv, TypeOK', NEW h \in Handlers, Remove(h)
    PROVE  CodesInv'
<1>1. TypeOK /\ On(h) \in Keys /\ handler[h].pc \in 1..Len(Calls[handler[h].op])
  BY AtCall DEF CodesInv, Remove
<1>2. redis' = [redis EXCEPT ![On(h)] = Absent] /\ Absent.value = NoCode
  BY DEF Remove, Absent
<1>3. Shrinks
  BY <1>1, <1>2 DEF Shrinks, TypeOK, Keys
<1>4. \A k \in CodeKeys :
        redis'[k].value # NoCode => Calls[handler[h].op][handler[h].pc] # <<"remove", k>>
  <2>1. ASSUME NEW k \in CodeKeys, redis'[k].value # NoCode PROVE k # On(h)
    BY <1>1, <1>2, <2>1 DEF TypeOK
  <2>2. \A k : Calls[handler[h].op][handler[h].pc] = <<"remove", k>> => On(h) = k
    BY DEF On
  <2> QED
    BY <2>1, <2>2
<1> QED
  BY <1>1, <1>3, <1>4, AdvanceAt, QuietStep DEF Remove, history

\* Done means that the DEL of the checked key is among the calls done.
LEMMA FinishInv ==
    ASSUME CodesInv, TypeOK', NEW h \in Handlers, Finish(h)
    PROVE  CodesInv'
<1>1. TypeOK /\ handler[h] \in Handler /\ issued \in Nat
  BY DEF CodesInv, TypeOK
<1>2. UNCHANGED <<redis, issued>> /\ Shrinks
  BY SameRedisShrinks DEF Finish
<1>3. handler'[h].accepted = NoCode /\ \A g \in Handlers \ {h} : handler'[g] = handler[g]
  BY <1>1, RefuseAt DEF Finish
<1>4. \A k \in CodeKeys :
        handler[h].accepted # NoCode => redis[k].value # handler[h].accepted
  <2> SUFFICES ASSUME NEW k \in CodeKeys, handler[h].accepted # NoCode,
                      redis[k].value = handler[h].accepted
               PROVE  FALSE
    OBVIOUS
  <2>1. PICK i \in 1..Len(Calls[handler[h].op]) :
          /\ Calls[handler[h].op][i][1] = "check"
          /\ Calls[handler[h].op][i][2] = k
          /\ \A j \in 1..(handler[h].pc - 1) : Calls[handler[h].op][j] # <<"remove", k>>
    BY DEF CodesInv, Held
  <2>2. handler[h].op \in Endpoints
    BY DEF CodesInv, Held
  <2>3. WellFormed(Calls[handler[h].op])
    BY <2>2, CallsAt
  <2>4. PICK j \in 1..Len(Calls[handler[h].op]) : Calls[handler[h].op][j] = <<"remove", k>>
    BY <2>1, <2>3 DEF WellFormed
  <2>5. handler[h].pc > Len(Calls[handler[h].op])
    BY <1>1, <2>3 DEF Finish, Done, Left, Handler, WellFormed
  <2>6. handler[h].pc \in Nat /\ Len(Calls[handler[h].op]) \in Nat
    BY <1>1, <2>3 DEF Handler, WellFormed
  <2> QED
    BY <2>1, <2>4, <2>5, <2>6
<1>5. SpentCodeIsDead'
  BY <1>2, <1>4 DEF Finish, CodesInv, SpentCodeIsDead
<1>6. \A g \in Handlers : Held(g)'
  <2>1. \A g \in Handlers \ {h} : Held(g)'
    BY <1>2, <1>3, HeldStep
  <2>2. Held(h)'
    BY <1>3 DEF Held
  <2> QED
    BY <2>1, <2>2
<1>7. Fresh'
  <2>1. \A g \in Handlers : handler'[g].accepted <= issued
    BY <1>1, <1>3 DEF CodesInv, Fresh, NoCode
  <2>2. \A c \in spent' : c <= issued
    BY DEF Finish, CodesInv, Fresh
  <2> QED
    BY <1>2, <2>1, <2>2 DEF CodesInv, Fresh
<1>8. Unique'
  BY <1>2 DEF CodesInv, Unique
<1> QED
  BY <1>5, <1>6, <1>7, <1>8 DEF CodesInv

\* Steps of no handler: the handlers keep what they hold.
LEMMA OutsideInv ==
    ASSUME CodesInv, TypeOK', Shrinks, UNCHANGED <<issued, spent, handler>>
    PROVE  CodesInv'
<1>1. \A g \in Handlers : Held(g)'
  BY HeldStep
<1>2. \A g \in Handlers : handler'[g].accepted <= issued'
  BY DEF CodesInv, Fresh
<1> QED
  BY <1>1, <1>2, ShrinksKeep DEF CodesInv, Fresh

LEMMA TickShrinks == TypeOK /\ Tick => Shrinks
BY DEF Tick, Shrinks, TypeOK, Absent, NoCode, Keys, Kept

LEMMA NextInv == CodesInv /\ [Next]_vars => CodesInv'
<1> SUFFICES ASSUME CodesInv, [Next]_vars PROVE CodesInv'
  OBVIOUS
<1>1. TypeOK /\ TypeOK'
  BY NextType DEF CodesInv
<1>2. ASSUME NEW h \in Handlers, NEW op \in Endpoints,
             NEW c \in Codes \cup {NoCode}, NEW e \in Emails \cup {0},
             Begin(h, op, c, e)
      PROVE  CodesInv'
  BY <1>1, <1>2, BeginInv
<1>3. ASSUME NEW h \in Handlers, Step(h) PROVE CodesInv'
  BY <1>1, <1>3, FindInv, IssueInv, OtherKeysInv, ReadInv, AcceptInv, RejectInv,
     RemoveInv, FinishInv DEF Step
<1>4. ASSUME NEW h \in Handlers, Fault(h) PROVE CodesInv'
  BY <1>1, <1>4, RefuseAt, SameRedisShrinks, QuietStep DEF Fault, history
<1>5. CASE Register
  BY <1>1, <1>5, SameRedisShrinks, OutsideInv DEF Register, history
<1>6. CASE Tick
  BY <1>1, <1>6, TickShrinks, OutsideInv DEF Tick
<1>7. CASE UNCHANGED vars
  BY <1>1, <1>7, SameRedisShrinks, OutsideInv DEF vars, history
<1> QED
  BY <1>2, <1>3, <1>4, <1>5, <1>6, <1>7 DEF Next

LEMMA InitInv == Init => CodesInv
<1> SUFFICES ASSUME Init PROVE CodesInv
  OBVIOUS
<1>1. /\ \A k \in CodeKeys : redis[k].value = NoCode
      /\ \A h \in Handlers : handler[h].accepted = NoCode
      /\ spent = {} /\ issued = 0
  BY DEF Init, Absent, Idle, Keys
<1> QED
  BY <1>1, InitType DEF CodesInv, Fresh, Unique, SpentCodeIsDead, Held, NoCode

\* A code or token that authorised an answered request is not stored, and so
\* not accepted, ever again: whatever requests, faults and expiries interleave.
THEOREM SpentCodesAreDead == Spec => []SpentCodeIsDead
<1>1. Init => CodesInv
  BY InitInv
<1>2. CodesInv /\ [Next]_vars => CodesInv'
  BY NextInv
<1>3. CodesInv => SpentCodeIsDead
  BY DEF CodesInv
<1> QED
  BY <1>1, <1>2, <1>3, PTL DEF Spec
-----------------------------------------------------------------------------
(* How each call changes the record of the request that makes it.          *)

\* What a request keeps from its arrival to its check.
Same(d, e) ==
    /\ d.op = e.op /\ d.offered = e.offered /\ d.email = e.email
    /\ d.accepted = e.accepted /\ d.path = e.path /\ d.to = e.to

Others(h) == \A g \in Handlers \ {h} : handler'[g] = handler[g]

LEMMA AdvanceMoves ==
    ASSUME TypeOK, NEW h \in Handlers, Advance(h)
    PROVE  /\ handler'[h].pc = handler[h].pc + 1
           /\ Same(handler'[h], handler[h])
           /\ handler'[h].generated = handler[h].generated
           /\ handler'[h].loaded = handler[h].loaded
           /\ handler'[h].attempts = handler[h].attempts
           /\ handler'[h].against = handler[h].against
           /\ Others(h)
<1>1. handler'[h] = [handler[h] EXCEPT !.pc = @ + 1] /\ handler[h] \in Handler
  BY DEF Advance, Continue, TypeOK
<1>2. Others(h)
  BY DEF Advance, Continue, TypeOK, Others
<1> QED
  BY <1>1, <1>2 DEF Handler, Same

LEMMA RefuseMoves ==
    ASSUME TypeOK, NEW h \in Handlers, Refuse(h)
    PROVE  handler'[h] = Idle /\ Others(h)
BY DEF Refuse, TypeOK, Others

LEMMA BeginMoves ==
    ASSUME TypeOK, NEW h \in Handlers, NEW op \in Endpoints,
           NEW c \in Codes \cup {NoCode}, NEW e \in Emails \cup {0}, Begin(h, op, c, e)
    PROVE  /\ handler'[h].op = op /\ handler'[h].offered = c /\ handler'[h].email = e
           /\ handler'[h].pc = 1 /\ handler'[h].accepted = NoCode
           /\ handler'[h].path = <<>> /\ handler'[h].to = 0
           /\ handler'[h].generated = NoCode /\ handler'[h].loaded = 0
           /\ handler'[h].against = NoCode
           /\ Others(h)
<1>1. handler'[h] = [Idle EXCEPT !.op = op, !.offered = c, !.email = e] /\ Others(h)
  BY DEF Begin, TypeOK, Others
<1> QED
  BY <1>1 DEF Idle

LEMMA IssueMoves ==
    ASSUME TypeOK, NEW h \in Handlers, Issue(h)
    PROVE  /\ handler'[h].pc = handler[h].pc + 1
           /\ Same(handler'[h], handler[h])
           /\ handler'[h].generated = issued + 1
           /\ handler'[h].loaded = handler[h].loaded
           /\ handler'[h].attempts = handler[h].attempts
           /\ handler'[h].against = handler[h].against
           /\ Others(h)
           /\ redis'[On(h)] = [value |-> issued + 1, left |-> TTL(On(h)),
                               path |-> Append(handler[h].path, handler[h].op),
                               to |-> handler[h].email]
           /\ \A k \in Keys \ {On(h)} : redis'[k] = redis[k]
<1>1. PICK d : d = [handler[h] EXCEPT !.generated = issued + 1]
  OBVIOUS
<1>2. handler[h] \in Handler /\ On(h) \in Keys
  BY AtCall DEF TypeOK, Issue, Keys
<1>3. d.pc = handler[h].pc /\ Same(d, handler[h]) /\ d.generated = issued + 1
      /\ d.loaded = handler[h].loaded /\ d.against = handler[h].against
      /\ d.attempts = handler[h].attempts
  BY <1>1, <1>2 DEF Handler, Same
<1>5. handler' = [handler EXCEPT ![h] = [d EXCEPT !.pc = @ + 1]]
  BY <1>1 DEF Issue, Continue
<1>6. handler'[h] = [d EXCEPT !.pc = @ + 1] /\ Others(h)
  BY <1>5 DEF TypeOK, Others
<1>7. /\ handler'[h].pc = d.pc + 1
      /\ Same(handler'[h], d)
      /\ handler'[h].generated = d.generated /\ handler'[h].loaded = d.loaded
      /\ handler'[h].attempts = d.attempts
      /\ handler'[h].against = d.against
  BY <1>1, <1>2, <1>6 DEF Handler, Same
<1>8. /\ redis'[On(h)] = [value |-> issued + 1, left |-> TTL(On(h)),
                          path |-> Append(handler[h].path, handler[h].op),
                          to |-> handler[h].email]
      /\ \A k \in Keys \ {On(h)} : redis'[k] = redis[k]
  BY <1>2 DEF Issue, Put, TypeOK
<1> QED
  BY <1>3, <1>6, <1>7, <1>8 DEF Same

LEMMA AcceptMoves ==
    ASSUME TypeOK, NEW h \in Handlers, Accept(h)
    PROVE  /\ handler'[h].pc = handler[h].pc + 1
           /\ handler'[h].op = handler[h].op /\ handler'[h].email = handler[h].email
           /\ handler'[h].offered = handler[h].offered
           /\ handler'[h].accepted = handler[h].offered
           /\ handler'[h].path = redis[On(h)].path
           /\ handler'[h].to = redis[On(h)].to
           /\ handler'[h].generated = handler[h].generated
           /\ handler'[h].loaded = handler[h].loaded
           /\ handler'[h].against = handler[h].against
           /\ Others(h)
<1>1. PICK d : d = [handler[h] EXCEPT !.accepted = handler[h].offered,
                                      !.path = redis[On(h)].path,
                                      !.to = redis[On(h)].to]
  OBVIOUS
<1>2. handler[h] \in Handler
  BY DEF TypeOK
<1>3. /\ d.pc = handler[h].pc /\ d.op = handler[h].op /\ d.email = handler[h].email
      /\ d.offered = handler[h].offered
      /\ d.accepted = handler[h].offered
      /\ d.path = redis[On(h)].path /\ d.to = redis[On(h)].to
      /\ d.generated = handler[h].generated /\ d.loaded = handler[h].loaded
      /\ d.against = handler[h].against
  BY <1>1, <1>2 DEF Handler
<1>4. handler' = [handler EXCEPT ![h] = [d EXCEPT !.pc = @ + 1]]
  BY <1>1 DEF Accept, Continue
<1>5. handler'[h] = [d EXCEPT !.pc = @ + 1] /\ Others(h)
  BY <1>4 DEF TypeOK, Others
<1>7. /\ handler'[h].pc = d.pc + 1 /\ handler'[h].op = d.op /\ handler'[h].email = d.email
      /\ handler'[h].offered = d.offered /\ handler'[h].accepted = d.accepted
      /\ handler'[h].path = d.path /\ handler'[h].to = d.to
      /\ handler'[h].generated = d.generated /\ handler'[h].loaded = d.loaded
      /\ handler'[h].against = d.against
  BY <1>1, <1>2, <1>5 DEF Handler
<1> QED
  BY <1>3, <1>5, <1>7

LEMMA ReadMoves ==
    ASSUME TypeOK, NEW h \in Handlers, ReadAttempts(h)
    PROVE  /\ Others(h)
           /\ \/ handler'[h] = Idle
              \/ /\ redis[On(h)].value < AttemptLimit
                 /\ handler'[h].pc = handler[h].pc + 1
                 /\ Same(handler'[h], handler[h])
                 /\ handler'[h].attempts = redis[On(h)].value
                 /\ handler'[h].generated = handler[h].generated
                 /\ handler'[h].loaded = handler[h].loaded
                 /\ handler'[h].against = handler[h].against
<1>1. PICK d : d = [handler[h] EXCEPT !.attempts = redis[On(h)].value]
  OBVIOUS
<1>2. handler[h] \in Handler /\ On(h) \in Keys
  BY AtCall DEF TypeOK, ReadAttempts
<1>3. redis[On(h)].value \in Nat
  BY <1>2 DEF TypeOK, Kept
<1>4. CASE Refuse(h)
  BY <1>4, RefuseMoves
<1>5. CASE ~Refuse(h)
  <2>1. redis[On(h)].value < AttemptLimit /\ Continue(h, d)
    BY <1>1, <1>3, <1>5, CodesAssumption DEF ReadAttempts
  <2>2. handler'[h] = [d EXCEPT !.pc = @ + 1] /\ Others(h)
    BY <2>1 DEF Continue, TypeOK, Others
  <2>3. /\ handler'[h].pc = handler[h].pc + 1 /\ Same(handler'[h], handler[h])
        /\ handler'[h].attempts = redis[On(h)].value
        /\ handler'[h].generated = handler[h].generated
        /\ handler'[h].loaded = handler[h].loaded
        /\ handler'[h].against = handler[h].against
    BY <1>1, <1>2, <2>2 DEF Handler, Same
  <2> QED
    BY <2>1, <2>2, <2>3
<1> QED
  BY <1>4, <1>5

LEMMA LoadMoves ==
    ASSUME TypeOK, NEW h \in Handlers, LoadEmail(h)
    PROVE  /\ Others(h)
           /\ \/ handler'[h] = Idle
              \/ /\ handler'[h].pc = handler[h].pc + 1
                 /\ Same(handler'[h], handler[h])
                 /\ handler'[h].loaded = redis[On(h)].value
                 /\ handler'[h].generated = handler[h].generated
                 /\ handler'[h].against = handler[h].against
<1>1. PICK d : d = [handler[h] EXCEPT !.loaded = redis[On(h)].value]
  OBVIOUS
<1>2. handler[h] \in Handler
  BY DEF TypeOK
<1>3. CASE Refuse(h)
  BY <1>3, RefuseMoves
<1>4. CASE Continue(h, d)
  <2>1. handler'[h] = [d EXCEPT !.pc = @ + 1] /\ Others(h)
    BY <1>4 DEF Continue, TypeOK, Others
  <2>2. /\ handler'[h].pc = handler[h].pc + 1 /\ Same(handler'[h], handler[h])
        /\ handler'[h].loaded = redis[On(h)].value
        /\ handler'[h].generated = handler[h].generated
        /\ handler'[h].against = handler[h].against
    BY <1>1, <1>2, <2>1 DEF Handler, Same
  <2> QED
    BY <2>1, <2>2
<1> QED
  BY <1>1, <1>3, <1>4 DEF LoadEmail

LEMMA RejectMoves ==
    ASSUME TypeOK, NEW h \in Handlers, Reject(h)
    PROVE  /\ Others(h)
           /\ \/ handler'[h] = Idle
              \/ /\ handler[h].op = "signupVerifyOtp" /\ redis[On(h)].value # NoCode
                 /\ handler'[h].pc = handler[h].pc
                 /\ Same(handler'[h], handler[h])
                 /\ handler'[h].attempts = handler[h].attempts
                 /\ handler'[h].generated = handler[h].generated
                 /\ handler'[h].loaded = handler[h].loaded
<1>1. CASE Refuse(h)
  BY <1>1, RefuseMoves
<1>2. CASE ~Refuse(h)
  <2>1. /\ handler[h].op = "signupVerifyOtp" /\ redis[On(h)].value # NoCode
        /\ handler' = [handler EXCEPT ![h].against = redis[On(h)].value]
    BY <1>2 DEF Reject
  <2>2. handler'[h] = [handler[h] EXCEPT !.against = redis[On(h)].value] /\ Others(h)
    BY <2>1 DEF TypeOK, Others
  <2>3. handler[h] \in Handler
    BY DEF TypeOK
  <2> QED
    BY <2>1, <2>2, <2>3 DEF Handler, Same
<1> QED
  BY <1>1, <1>2

-----------------------------------------------------------------------------
(* A code keeps its purpose.  CodesKeepTheirPurpose is not inductive: what  *)
(* is stored under a key must stand for what the endpoints that check the   *)
(* key want, and a request has a path only once it has checked a code.      *)

\* What the codes under each key may stand for.
KeyPaths == [
    pinChangeOtp |-> {<<"initiatePinChange">>},
    pinResetOtp |-> {<<"initiatePinReset">>},
    pinResetToken |-> {<<"initiatePinReset", "verifyResetOtp">>},
    otp |-> Signup,
    passwordChangeOtp |-> {<<"passwordChangeInitiate">>},
    emailChangeOtp |-> {<<"emailChangeInitiate">>},
    signupEmailOtp |-> {<<"changeEmailInitiate">>},
    addressEditOtp |-> {<<"initiateAddressEdit">>},
    addressEditToken |-> {<<"initiateAddressEdit", "verifyAddressOtp">>}]

\* Of the calls of an endpoint: it checks keys that hold what it wants, and
\* issues, if at all after its check, what stands for it under the key.
Rights(op, calls) ==
    \A i \in 1..Len(calls) :
      /\ calls[i][1] = "check" => KeyPaths[calls[i][2]] \subseteq AuthorityFor[op]
      /\ calls[i][1] = "issue" =>
           IF \E j \in 1..(i - 1) : calls[j][1] = "check"
           THEN \A p \in AuthorityFor[op] : Append(p, op) \in KeyPaths[calls[i][2]]
           ELSE <<op>> \in KeyPaths[calls[i][2]]

LEMMA AppendTwo ==
    ASSUME NEW a, NEW b
    PROVE  Append(<<a>>, b) = <<a, b>>
<1>1. <<a>> \in Seq({a, b}) /\ Len(<<a>>) = 1 /\ <<a>>[1] = a
  OBVIOUS
<1>2. PICK q : q = Append(<<a>>, b)
  OBVIOUS
<1>3. q \in Seq({a, b}) /\ Len(q) = 2 /\ q[1] = a /\ q[2] = b
  BY <1>1, <1>2
<1>4. q = <<a, b>>
  BY <1>3
<1> QED
  BY <1>2, <1>4

LEMMA PinRights ==
    /\ Rights("setPin", SetPin)
    /\ Rights("initiatePinChange", InitiatePinChange)
    /\ Rights("completePinChange", CompletePinChange)
    /\ Rights("initiatePinReset", InitiatePinReset)
    /\ Rights("verifyResetOtp", VerifyResetOtp)
    /\ Rights("completePinReset", CompletePinReset)
<1> USE DEF Rights, KeyPaths, AuthorityFor
<1>1. Rights("setPin", SetPin)
  BY DEF SetPin
<1>2. Rights("initiatePinChange", InitiatePinChange)
  BY DEF InitiatePinChange
<1>3. Rights("completePinChange", CompletePinChange)
  BY DEF CompletePinChange
<1>4. Rights("initiatePinReset", InitiatePinReset)
  BY DEF InitiatePinReset
<1>5. Rights("verifyResetOtp", VerifyResetOtp)
  <2>1. Append(<<"initiatePinReset">>, "verifyResetOtp") = <<"initiatePinReset", "verifyResetOtp">>
    BY AppendTwo
  <2>2. /\ Len(VerifyResetOtp) = 4 /\ VerifyResetOtp[1][1] = "check"
        /\ VerifyResetOtp[2][1] = "issue" /\ VerifyResetOtp[3][1] = "remove"
        /\ VerifyResetOtp[4][1] = "send"
    BY DEF VerifyResetOtp
  <2>3. KeyPaths[VerifyResetOtp[1][2]] \subseteq AuthorityFor["verifyResetOtp"]
    BY DEF VerifyResetOtp
  <2>4. \A p \in AuthorityFor["verifyResetOtp"] : Append(p, "verifyResetOtp") \in KeyPaths[VerifyResetOtp[2][2]]
    BY <2>1 DEF VerifyResetOtp
  <2>5. ASSUME NEW i \in 1..4, VerifyResetOtp[i][1] = "check" PROVE i = 1
    BY <2>2, <2>5
  <2>6. ASSUME NEW i \in 1..4, VerifyResetOtp[i][1] = "issue" PROVE i = 2 /\ 1 \in 1..(i - 1)
    BY <2>2, <2>6
  <2> QED
    BY <2>2, <2>3, <2>4, <2>5, <2>6 DEF Rights
<1>6. Rights("completePinReset", CompletePinReset)
  BY DEF CompletePinReset
<1> QED
  BY <1>1, <1>2, <1>3, <1>4, <1>5, <1>6

LEMMA PhoneRights ==
    /\ Rights("signupStart", SignupStart)
    /\ Rights("resendOtp", ResendOtp)
    /\ Rights("signupVerifyOtp", SignupVerifyOtp)
    /\ Rights("passwordResetInitiateOtp", PasswordResetInitiate)
    /\ Rights("passwordResetVerifyOtp", PasswordResetVerify)
    /\ Rights("passwordChangeInitiate", PasswordChangeInitiate)
    /\ Rights("passwordChangeVerifyOtp", PasswordChangeVerify)
<1> USE DEF Rights, KeyPaths, AuthorityFor, Signup
<1>1. Rights("signupStart", SignupStart)
  BY DEF SignupStart
<1>2. Rights("resendOtp", ResendOtp)
  BY DEF ResendOtp
<1>3. Rights("signupVerifyOtp", SignupVerifyOtp)
  BY DEF SignupVerifyOtp
<1>4. Rights("passwordResetInitiateOtp", PasswordResetInitiate)
  BY DEF PasswordResetInitiate
<1>5. Rights("passwordResetVerifyOtp", PasswordResetVerify)
  BY DEF PasswordResetVerify
<1>6. Rights("passwordChangeInitiate", PasswordChangeInitiate)
  BY DEF PasswordChangeInitiate
<1>7. Rights("passwordChangeVerifyOtp", PasswordChangeVerify)
  BY DEF PasswordChangeVerify
<1> QED
  BY <1>1, <1>2, <1>3, <1>4, <1>5, <1>6, <1>7

LEMMA OtherRights ==
    /\ Rights("emailChangeInitiate", EmailChangeInitiate)
    /\ Rights("emailChangeVerify", EmailChangeVerify)
    /\ Rights("changeEmailInitiate", ChangeEmailInitiate)
    /\ Rights("verifyEmailChange", VerifyEmailChange)
    /\ Rights("initiateAddressEdit", InitiateAddressEdit)
    /\ Rights("verifyAddressOtp", VerifyAddressOtp)
    /\ Rights("completeAddressEdit", CompleteAddressEdit)
<1> USE DEF Rights, KeyPaths, AuthorityFor
<1>1. Rights("emailChangeInitiate", EmailChangeInitiate)
  BY DEF EmailChangeInitiate
<1>2. Rights("emailChangeVerify", EmailChangeVerify)
  BY DEF EmailChangeVerify
<1>3. Rights("changeEmailInitiate", ChangeEmailInitiate)
  BY DEF ChangeEmailInitiate
<1>4. Rights("verifyEmailChange", VerifyEmailChange)
  BY DEF VerifyEmailChange
<1>5. Rights("initiateAddressEdit", InitiateAddressEdit)
  BY DEF InitiateAddressEdit
<1>6. Rights("verifyAddressOtp", VerifyAddressOtp)
  <2>1. Append(<<"initiateAddressEdit">>, "verifyAddressOtp") = <<"initiateAddressEdit", "verifyAddressOtp">>
    BY AppendTwo
  <2>2. /\ Len(VerifyAddressOtp) = 4 /\ VerifyAddressOtp[1][1] = "check"
        /\ VerifyAddressOtp[2][1] = "issue" /\ VerifyAddressOtp[3][1] = "remove"
        /\ VerifyAddressOtp[4][1] = "send"
    BY DEF VerifyAddressOtp
  <2>3. KeyPaths[VerifyAddressOtp[1][2]] \subseteq AuthorityFor["verifyAddressOtp"]
    BY DEF VerifyAddressOtp
  <2>4. \A p \in AuthorityFor["verifyAddressOtp"] : Append(p, "verifyAddressOtp") \in KeyPaths[VerifyAddressOtp[2][2]]
    BY <2>1 DEF VerifyAddressOtp
  <2>5. ASSUME NEW i \in 1..4, VerifyAddressOtp[i][1] = "check" PROVE i = 1
    BY <2>2, <2>5
  <2>6. ASSUME NEW i \in 1..4, VerifyAddressOtp[i][1] = "issue" PROVE i = 2 /\ 1 \in 1..(i - 1)
    BY <2>2, <2>6
  <2> QED
    BY <2>2, <2>3, <2>4, <2>5, <2>6 DEF Rights
<1>7. Rights("completeAddressEdit", CompleteAddressEdit)
  BY DEF CompleteAddressEdit
<1> QED
  BY <1>1, <1>2, <1>3, <1>4, <1>5, <1>6, <1>7

\* The table holds for every endpoint.
LEMMA RightsAt ==
    ASSUME NEW op \in Endpoints
    PROVE  Rights(op, Calls[op])
<1>1. CASE op \in {"setPin", "initiatePinChange", "completePinChange",
                   "initiatePinReset", "verifyResetOtp", "completePinReset"}
  BY <1>1, PinRights DEF Calls
<1>2. CASE op \in {"signupStart", "resendOtp", "signupVerifyOtp", "passwordResetInitiateOtp",
                   "passwordResetVerifyOtp", "passwordChangeInitiate", "passwordChangeVerifyOtp"}
  BY <1>2, PhoneRights DEF Calls
<1>3. CASE op \in {"emailChangeInitiate", "emailChangeVerify", "changeEmailInitiate",
                   "verifyEmailChange", "initiateAddressEdit", "verifyAddressOtp",
                   "completeAddressEdit"}
  BY <1>3, OtherRights DEF Calls
<1> QED
  BY <1>1, <1>2, <1>3 DEF Endpoints, Calls

\* h has checked a code.
Checked(h) ==
    Busy(h) /\ \E i \in 1..(handler[h].pc - 1) : Calls[handler[h].op][i][1] = "check"
RightCode(k) == redis[k].value # NoCode => redis[k].path \in KeyPaths[k]
RightRequest(h) ==
    IF Checked(h) THEN handler[h].path \in AuthorityFor[handler[h].op]
                  ELSE handler[h].path = <<>> /\ handler[h].accepted = NoCode
Rightful ==
    TypeOK /\ (\A k \in CodeKeys : RightCode(k)) /\ \A h \in Handlers : RightRequest(h)

\* What is stored under the keys of codes was there before.
Stored ==
    \A k \in CodeKeys : redis'[k].value # NoCode =>
      /\ redis'[k].value = redis[k].value
      /\ redis'[k].path = redis[k].path /\ redis'[k].to = redis[k].to

LEMMA StoredKeeps ==
    ASSUME Rightful, Stored
    PROVE  \A k \in CodeKeys : RightCode(k)'
BY DEF Rightful, Stored, RightCode

\* A request that goes on to its next call, other than by a check, or ends.
LEMMA RequestKeeps ==
    ASSUME Rightful, NEW h \in Handlers,
           \/ handler'[h] = Idle
           \/ handler'[h] = handler[h]
           \/ /\ Same(handler'[h], handler[h])
              /\ \/ handler'[h].pc = handler[h].pc
                 \/ /\ handler'[h].pc = handler[h].pc + 1
                    /\ Calls[handler[h].op][handler[h].pc][1] # "check"
    PROVE  RightRequest(h)'
<1>1. CASE handler'[h] = Idle
  BY <1>1 DEF RightRequest, Checked, Busy, Idle
<1>2. CASE handler'[h] = handler[h]
  BY <1>2 DEF Rightful, RightRequest, Checked, Busy
<1>3. CASE Same(handler'[h], handler[h]) /\ handler'[h].pc = handler[h].pc
  BY <1>3 DEF Rightful, RightRequest, Checked, Busy, Same
<1>4. CASE /\ Same(handler'[h], handler[h])
           /\ handler'[h].pc = handler[h].pc + 1
           /\ Calls[handler[h].op][handler[h].pc][1] # "check"
  <2>1. handler[h].pc \in Nat \ {0}
    BY DEF Rightful, TypeOK, Handler
  <2>2. handler'[h].op = handler[h].op
    BY <1>4 DEF Same
  <2>3. \A i \in 1..(handler'[h].pc - 1) : i = handler[h].pc \/ i \in 1..(handler[h].pc - 1)
    BY <1>4, <2>1
  <2>4. \A i \in 1..(handler[h].pc - 1) : i \in 1..(handler'[h].pc - 1)
    BY <1>4, <2>1
  <2>5. Checked(h)' <=> Checked(h)
    BY <1>4, <2>2, <2>3, <2>4 DEF Checked, Busy
  <2> QED
    BY <1>4, <2>2, <2>5 DEF Rightful, RightRequest, Same
<1> QED
  BY <1>1, <1>2, <1>3, <1>4

LEMMA RightStep ==
    ASSUME Rightful, TypeOK', Stored, NEW h \in Handlers, Others(h),
           \/ handler'[h] = Idle
           \/ /\ Same(handler'[h], handler[h])
              /\ \/ handler'[h].pc = handler[h].pc
                 \/ /\ handler'[h].pc = handler[h].pc + 1
                    /\ Calls[handler[h].op][handler[h].pc][1] # "check"
    PROVE  Rightful'
<1>1. \A g \in Handlers : RightRequest(g)'
  BY RequestKeeps DEF Others
<1>2. \A k \in CodeKeys : RightCode(k)'
  BY StoredKeeps
<1> QED
  BY <1>1, <1>2 DEF Rightful

LEMMA BeginRight ==
    ASSUME Rightful, TypeOK', NEW h \in Handlers, NEW op \in Endpoints,
           NEW c \in Codes \cup {NoCode}, NEW e \in Emails \cup {0}, Begin(h, op, c, e)
    PROVE  Rightful'
<1>1. TypeOK
  BY DEF Rightful
<1>2. /\ handler'[h].pc = 1 /\ handler'[h].accepted = NoCode
      /\ handler'[h].path = <<>> /\ Others(h)
  BY <1>1, BeginMoves
<1>3. RightRequest(h)'
  BY <1>2 DEF RightRequest, Checked
<1>4. \A g \in Handlers \ {h} : RightRequest(g)'
  BY <1>2, RequestKeeps DEF Others
<1>5. UNCHANGED redis
  BY DEF Begin
<1>6. \A k \in CodeKeys : RightCode(k)'
  BY <1>5 DEF Rightful, RightCode
<1> QED
  BY <1>3, <1>4, <1>6 DEF Rightful

\* The calls that store nothing under a code's key and check none.
LEMMA PlainRight ==
    ASSUME Rightful, TypeOK', NEW h \in Handlers,
           \/ FindUnset(h) \/ FindUser(h) \/ FindMatching(h) \/ Send(h) \/ Write(h)
           \/ StoreEmail(h) \/ Remove(h)
    PROVE  Rightful'
<1>1. TypeOK
  BY DEF Rightful
<1>2. PICK call : /\ At(h, call)
                  /\ call \in {"unset", "present", "absent", "matches", "send", "write",
                               "store", "remove"}
  BY DEF FindUnset, FindUser, FindMatching, Send, Write, StoreEmail, Remove
<1>3. Calls[handler[h].op][handler[h].pc][1] # "check"
  BY <1>2 DEF At
<1>4. Advance(h) \/ Refuse(h)
  BY DEF FindUnset, FindUser, FindMatching, Send, Write, StoreEmail, Remove
<1>5. Stored
  <2>1. CASE StoreEmail(h)
    <3>1. On(h) = "newEmail"
      BY <1>1, <2>1, AtCall DEF StoreEmail
    <3>2. \A k \in CodeKeys : redis'[k] = redis[k]
      BY <1>1, <2>1, <3>1 DEF StoreEmail, Put, TypeOK, CodeKeys, Keys
    <3> QED
      BY <3>2 DEF Stored
  <2>2. CASE Remove(h)
    <3>1. \A k \in CodeKeys : redis'[k] = redis[k] \/ redis'[k] = Absent
      BY <1>1, <2>2 DEF Remove, TypeOK, Keys
    <3> QED
      BY <3>1 DEF Stored, Absent
  <2>3. CASE UNCHANGED redis
    BY <2>3 DEF Stored
  <2> QED
    BY <2>1, <2>2, <2>3 DEF FindUnset, FindUser, FindMatching, Send, Write
<1>6. CASE Advance(h)
  BY <1>1, <1>3, <1>5, <1>6, AdvanceMoves, RightStep
<1>7. CASE Refuse(h)
  BY <1>1, <1>5, <1>7, RefuseMoves, RightStep
<1> QED
  BY <1>4, <1>6, <1>7

LEMMA ReadRight ==
    ASSUME Rightful, TypeOK', NEW h \in Handlers,
           ReadAttempts(h) \/ LoadEmail(h) \/ Reject(h)
    PROVE  Rightful'
<1>1. TypeOK
  BY DEF Rightful
<1>2. Stored
  BY DEF ReadAttempts, LoadEmail, Reject, Stored
<1>3. CASE ReadAttempts(h)
  <2>1. Calls[handler[h].op][handler[h].pc][1] # "check"
    BY <1>3 DEF ReadAttempts, At
  <2> QED
    BY <1>1, <1>2, <1>3, <2>1, ReadMoves, RightStep
<1>4. CASE LoadEmail(h)
  <2>1. Calls[handler[h].op][handler[h].pc][1] # "check"
    BY <1>4 DEF LoadEmail, At
  <2> QED
    BY <1>1, <1>2, <1>4, <2>1, LoadMoves, RightStep
<1>5. CASE Reject(h)
  BY <1>1, <1>2, <1>5, RejectMoves, RightStep
<1> QED
  BY <1>3, <1>4, <1>5

LEMMA EndRight ==
    ASSUME Rightful, TypeOK', NEW h \in Handlers,
           CountAttempt(h) \/ Finish(h) \/ Fault(h)
    PROVE  Rightful'
<1>1. TypeOK
  BY DEF Rightful
<1>2. Refuse(h)
  BY DEF CountAttempt, Finish, Fault
<1>3. \A k \in CodeKeys : redis'[k] = redis[k]
  BY <1>1 DEF CountAttempt, Put, Finish, Fault, TypeOK, CodeKeys, Keys
<1>4. Stored
  BY <1>3 DEF Stored
<1> QED
  BY <1>1, <1>2, <1>4, RefuseMoves, RightStep

LEMMA AcceptRight ==
    ASSUME Rightful, TypeOK', NEW h \in Handlers, Accept(h)
    PROVE  Rightful'
<1>1. TypeOK
  BY DEF Rightful
<1>2. /\ handler[h].op \in Endpoints
      /\ handler[h].pc \in 1..Len(Calls[handler[h].op])
      /\ On(h) \in CodeKeys
      /\ Calls[handler[h].op][handler[h].pc] [1] = "check"
  BY <1>1, AtCall DEF Accept, At
<1>3. KeyPaths[On(h)] \subseteq AuthorityFor[handler[h].op]
  BY <1>2, RightsAt DEF Rights, On
<1>4. redis[On(h)].path \in KeyPaths[On(h)]
  BY <1>2 DEF Accept, Valid, Rightful, RightCode
<1>5. /\ handler'[h].pc = handler[h].pc + 1 /\ handler'[h].op = handler[h].op
      /\ handler'[h].path = redis[On(h)].path /\ Others(h)
  BY <1>1, AcceptMoves
<1>6. Checked(h)'
  <2>1. handler[h].pc \in Nat \ {0}
    BY <1>1 DEF TypeOK, Handler
  <2>2. handler[h].pc \in 1..(handler'[h].pc - 1)
    BY <1>5, <2>1
  <2>3. Busy(h)'
    BY <1>5 DEF Accept, At, Busy
  <2> QED
    BY <1>2, <1>5, <2>2, <2>3 DEF Checked
<1>7. RightRequest(h)'
  BY <1>3, <1>4, <1>5, <1>6 DEF RightRequest
<1>8. \A g \in Handlers \ {h} : RightRequest(g)'
  BY <1>5, RequestKeeps DEF Others
<1>9. UNCHANGED redis
  BY DEF Accept
<1>10. \A k \in CodeKeys : RightCode(k)'
  BY <1>9 DEF Rightful, RightCode
<1> QED
  BY <1>7, <1>8, <1>10 DEF Rightful

LEMMA IssueRight ==
    ASSUME Rightful, TypeOK', NEW h \in Handlers, Issue(h)
    PROVE  Rightful'
<1>1. TypeOK
  BY DEF Rightful
<1>2. /\ handler[h].op \in Endpoints
      /\ handler[h].pc \in 1..Len(Calls[handler[h].op])
      /\ On(h) \in CodeKeys
      /\ Calls[handler[h].op][handler[h].pc][1] = "issue"
      /\ Busy(h)
  BY <1>1, AtCall DEF Issue, At
<1>3. Append(handler[h].path, handler[h].op) \in KeyPaths[On(h)]
  <2>1. Rights(handler[h].op, Calls[handler[h].op])
    BY <1>2, RightsAt
  <2>2. CASE Checked(h)
    <3>1. \A p \in AuthorityFor[handler[h].op] : Append(p, handler[h].op) \in KeyPaths[On(h)]
      BY <1>2, <2>1, <2>2 DEF Rights, Checked, On
    <3> QED
      BY <2>2, <3>1 DEF Rightful, RightRequest
  <2>3. CASE ~Checked(h)
    <3>1. <<handler[h].op>> \in KeyPaths[On(h)]
      BY <1>2, <2>1, <2>3 DEF Rights, Checked, On
    <3>2. handler[h].path = <<>>
      BY <2>3 DEF Rightful, RightRequest
    <3>3. Append(<<>>, handler[h].op) = <<handler[h].op>>
      OBVIOUS
    <3> QED
      BY <3>1, <3>2, <3>3
  <2> QED
    BY <2>2, <2>3
<1>4. /\ handler'[h].pc = handler[h].pc + 1 /\ Same(handler'[h], handler[h]) /\ Others(h)
      /\ redis'[On(h)].path = Append(handler[h].path, handler[h].op)
      /\ \A k \in Keys \ {On(h)} : redis'[k] = redis[k]
  <2>1. /\ handler'[h].pc = handler[h].pc + 1 /\ Same(handler'[h], handler[h]) /\ Others(h)
        /\ \A k \in Keys \ {On(h)} : redis'[k] = redis[k]
    BY <1>1, IssueMoves
  <2>2. redis'[On(h)] = [value |-> issued + 1, left |-> TTL(On(h)),
                         path |-> Append(handler[h].path, handler[h].op),
                         to |-> handler[h].email]
    BY <1>1, IssueMoves
  <2> QED
    BY <2>1, <2>2
<1>5. \A k \in CodeKeys : RightCode(k)'
  BY <1>3, <1>4 DEF Rightful, RightCode, Keys
<1>6. \A g \in Handlers : RightRequest(g)'
  BY <1>2, <1>4, RequestKeeps DEF Others
<1> QED
  BY <1>5, <1>6 DEF Rightful

LEMMA TickStored == TypeOK /\ Tick => Stored
BY DEF Tick, Stored, TypeOK, Absent, NoCode, Keys, Kept

LEMMA NextRight == Rightful /\ [Next]_vars => Rightful'
<1> SUFFICES ASSUME Rightful, [Next]_vars PROVE Rightful'
  OBVIOUS
<1>1. TypeOK /\ TypeOK'
  BY NextType DEF Rightful
<1>2. ASSUME NEW h \in Handlers, NEW op \in Endpoints,
             NEW c \in Codes \cup {NoCode}, NEW e \in Emails \cup {0},
             Begin(h, op, c, e)
      PROVE  Rightful'
  BY <1>1, <1>2, BeginRight
<1>3. ASSUME NEW h \in Handlers, Step(h) PROVE Rightful'
  BY <1>1, <1>3, PlainRight, ReadRight, AcceptRight, IssueRight, EndRight DEF Step
<1>4. ASSUME NEW h \in Handlers, Fault(h) PROVE Rightful'
  BY <1>1, <1>4, EndRight
<1>5. CASE Stored /\ UNCHANGED handler
  <2>1. \A h \in Handlers : RightRequest(h)'
    BY <1>5, RequestKeeps
  <2> QED
    BY <1>1, <1>5, <2>1, StoredKeeps DEF Rightful
<1>6. CASE Register
  BY <1>5, <1>6 DEF Register, Stored
<1>7. CASE Tick
  BY <1>1, <1>5, <1>7, TickStored DEF Tick
<1>8. CASE UNCHANGED vars
  BY <1>5, <1>8 DEF vars, Stored
<1> QED
  BY <1>2, <1>3, <1>4, <1>6, <1>7, <1>8 DEF Next

LEMMA InitRight == Init => Rightful
<1> SUFFICES ASSUME Init PROVE Rightful
  OBVIOUS
<1>1. \A k \in CodeKeys : redis[k] = Absent
  BY DEF Init, Keys
<1>2. \A h \in Handlers : handler[h] = Idle
  BY DEF Init
<1> QED
  BY <1>1, <1>2, InitType DEF Rightful, RightCode, RightRequest, Checked, Busy, Absent, Idle

\* A code is accepted only by the endpoints it was issued for, and a token only
\* where the code it stands for was, whatever requests, faults and expiries
\* interleave.
THEOREM CodesServeTheirPurpose == Spec => []CodesKeepTheirPurpose
<1>1. Init => Rightful
  BY InitRight
<1>2. Rightful /\ [Next]_vars => Rightful'
  BY NextRight
<1>3. Rightful => CodesKeepTheirPurpose
  BY DEF Rightful, RightRequest, CodesKeepTheirPurpose
<1> QED
  BY <1>1, <1>2, <1>3, PTL DEF Spec

-----------------------------------------------------------------------------
(* Requests that come one after the other.  The properties below speak of   *)
(* behaviours in which no two requests have been in flight together, and    *)
(* rest on the order of the calls of each endpoint.                         *)

\* An endpoint issues and checks one code at most; it sends what it has
\* issued, and removes what it has checked and never what it issues; what
\* may turn a request away comes before it has issued or removed anything.
Order(op, calls) ==
    \A i \in 1..Len(calls) :
      LET call == calls[i][1]  on == calls[i][2] IN
        /\ calls[i] = <<call, on>>
        /\ call = "issue" =>
             /\ \E j \in 1..Len(calls) : calls[j] = <<"send", on>>
             /\ \A j \in 1..(i - 1) : calls[j] # <<"send", on>>
             /\ \A j \in 1..Len(calls) : calls[j][1] = "issue" => j = i
        /\ call = "send" =>
             /\ \E j \in 1..(i - 1) : calls[j] = <<"issue", on>>
             /\ \A j \in 1..(i - 1) : calls[j] # <<"send", on>>
        /\ call = "remove" /\ on \in CodeKeys =>
             /\ \E j \in 1..(i - 1) : calls[j] = <<"check", on>>
             /\ \A j \in 1..Len(calls) : calls[j] # <<"issue", on>>
        /\ call = "check" =>
             /\ \A j \in 1..Len(calls) : calls[j] # <<"issue", on>>
             /\ \A j \in 1..Len(calls) : calls[j][1] = "check" => j = i
        /\ call \in {"unset", "present", "absent", "matches", "attempts", "check", "load"} =>
             \A j \in 1..(i - 1) : calls[j][1] \notin {"issue", "remove"}
        /\ on \in {"signupEmailOtp", "newEmail"} =>
             op \in {"changeEmailInitiate", "verifyEmailChange"}
        /\ on = "signupOtpAttempts" => op = "signupVerifyOtp"

LEMMA PinOrder ==
    /\ Order("setPin", SetPin)
    /\ Order("initiatePinChange", InitiatePinChange)
    /\ Order("completePinChange", CompletePinChange)
    /\ Order("initiatePinReset", InitiatePinReset)
    /\ Order("verifyResetOtp", VerifyResetOtp)
    /\ Order("completePinReset", CompletePinReset)
<1> USE DEF Order, CodeKeys
<1>1. Order("setPin", SetPin)
  BY DEF SetPin
<1>2. Order("initiatePinChange", InitiatePinChange)
  BY DEF InitiatePinChange
<1>3. Order("completePinChange", CompletePinChange)
  BY DEF CompletePinChange
<1>4. Order("initiatePinReset", InitiatePinReset)
  BY DEF InitiatePinReset
<1>5. Order("verifyResetOtp", VerifyResetOtp)
  BY DEF VerifyResetOtp
<1>6. Order("completePinReset", CompletePinReset)
  BY DEF CompletePinReset
<1> QED
  BY <1>1, <1>2, <1>3, <1>4, <1>5, <1>6

LEMMA PhoneOrder ==
    /\ Order("signupStart", SignupStart)
    /\ Order("resendOtp", ResendOtp)
    /\ Order("signupVerifyOtp", SignupVerifyOtp)
    /\ Order("passwordResetInitiateOtp", PasswordResetInitiate)
    /\ Order("passwordResetVerifyOtp", PasswordResetVerify)
    /\ Order("passwordChangeInitiate", PasswordChangeInitiate)
    /\ Order("passwordChangeVerifyOtp", PasswordChangeVerify)
<1> USE DEF Order, CodeKeys
<1>1. Order("signupStart", SignupStart)
  BY DEF SignupStart
<1>2. Order("resendOtp", ResendOtp)
  BY DEF ResendOtp
<1>3. Order("signupVerifyOtp", SignupVerifyOtp)
  BY DEF SignupVerifyOtp
<1>4. Order("passwordResetInitiateOtp", PasswordResetInitiate)
  BY DEF PasswordResetInitiate
<1>5. Order("passwordResetVerifyOtp", PasswordResetVerify)
  BY DEF PasswordResetVerify
<1>6. Order("passwordChangeInitiate", PasswordChangeInitiate)
  BY DEF PasswordChangeInitiate
<1>7. Order("passwordChangeVerifyOtp", PasswordChangeVerify)
  BY DEF PasswordChangeVerify
<1> QED
  BY <1>1, <1>2, <1>3, <1>4, <1>5, <1>6, <1>7

LEMMA OtherOrder ==
    /\ Order("emailChangeInitiate", EmailChangeInitiate)
    /\ Order("emailChangeVerify", EmailChangeVerify)
    /\ Order("changeEmailInitiate", ChangeEmailInitiate)
    /\ Order("verifyEmailChange", VerifyEmailChange)
    /\ Order("initiateAddressEdit", InitiateAddressEdit)
    /\ Order("verifyAddressOtp", VerifyAddressOtp)
    /\ Order("completeAddressEdit", CompleteAddressEdit)
<1> USE DEF Order, CodeKeys
<1>1. Order("emailChangeInitiate", EmailChangeInitiate)
  BY DEF EmailChangeInitiate
<1>2. Order("emailChangeVerify", EmailChangeVerify)
  BY DEF EmailChangeVerify
<1>3. Order("changeEmailInitiate", ChangeEmailInitiate)
  BY DEF ChangeEmailInitiate
<1>4. Order("verifyEmailChange", VerifyEmailChange)
  BY DEF VerifyEmailChange
<1>5. Order("initiateAddressEdit", InitiateAddressEdit)
  BY DEF InitiateAddressEdit
<1>6. Order("verifyAddressOtp", VerifyAddressOtp)
  BY DEF VerifyAddressOtp
<1>7. Order("completeAddressEdit", CompleteAddressEdit)
  BY DEF CompleteAddressEdit
<1> QED
  BY <1>1, <1>2, <1>3, <1>4, <1>5, <1>6, <1>7

\* The table holds for every endpoint.
LEMMA OrderAt ==
    ASSUME NEW op \in Endpoints
    PROVE  Order(op, Calls[op])
<1>1. CASE op \in {"setPin", "initiatePinChange", "completePinChange", "initiatePinReset",
                   "verifyResetOtp", "completePinReset"}
  BY <1>1, PinOrder DEF Calls
<1>2. CASE op \in {"signupStart", "resendOtp", "signupVerifyOtp", "passwordResetInitiateOtp",
                   "passwordResetVerifyOtp", "passwordChangeInitiate", "passwordChangeVerifyOtp"}
  BY <1>2, PhoneOrder DEF Calls
<1>3. CASE op \in {"emailChangeInitiate", "emailChangeVerify", "changeEmailInitiate", "verifyEmailChange",
                   "initiateAddressEdit", "verifyAddressOtp", "completeAddressEdit"}
  BY <1>3, OtherOrder DEF Calls
<1> QED
  BY <1>1, <1>2, <1>3 DEF Endpoints, Calls

\* h has done this call on this key.
Past(h, call, k) ==
    /\ Busy(h)
    /\ \E i \in 1..Len(Calls[handler[h].op]) :
         i < handler[h].pc /\ Calls[handler[h].op][i] = <<call, k>>

\* Until two requests overlap, at most one is in flight.
Alone == ~overlapped => \A g, h \in Handlers : Busy(g) /\ Busy(h) => g = h
\* A guess is held against a code only where signupVerifyOtp checks it.
Guessing ==
    \A h \in Handlers : handler[h].against # NoCode =>
      handler[h].op = "signupVerifyOtp" /\ handler[h].pc = 2
\* What is stored has time left.
Lasting == \A k \in Keys : redis[k].value # NoCode => redis[k].left > 0
\* Users know, and requests carry, only codes that were issued.
Told == /\ \A c \in known : c <= issued
        /\ \A h \in Handlers :
             handler[h].generated <= issued /\ handler[h].offered \in known \cup {NoCode}
\* The code a request has generated is stored only where it stored it.
Own == \A h \in Handlers, k \in CodeKeys :
         handler[h].generated # NoCode /\ redis[k].value = handler[h].generated =>
           Past(h, "issue", k)
OneByOne == CodesInv /\ Alone /\ Guessing /\ Lasting /\ Told /\ Own

LEMMA PastKeeps ==
    ASSUME TypeOK, NEW h \in Handlers, NEW call, NEW k, Past(h, call, k),
           handler'[h].op = handler[h].op,
           handler'[h].pc \in {handler[h].pc, handler[h].pc + 1}
    PROVE  Past(h, call, k)'
<1>1. handler[h].pc \in Nat \ {0}
  BY DEF TypeOK, Handler
<1>2. PICK i \in 1..Len(Calls[handler[h].op]) :
        i < handler[h].pc /\ Calls[handler[h].op][i] = <<call, k>>
  BY DEF Past
<1>3. i < handler'[h].pc
  BY <1>1, <1>2
<1> QED
  BY <1>2, <1>3 DEF Past, Busy

\* A call is its name and what it works on.
LEMMA OnCall ==
    ASSUME TypeOK, NEW h \in Handlers, NEW call, At(h, call)
    PROVE  /\ handler[h].op \in Endpoints
           /\ handler[h].pc \in 1..Len(Calls[handler[h].op])
           /\ Calls[handler[h].op][handler[h].pc] = <<call, On(h)>>
           /\ Order(handler[h].op, Calls[handler[h].op])
<1>1. handler[h].op \in Endpoints /\ handler[h].pc \in 1..Len(Calls[handler[h].op])
  BY AtCall
<1>2. Order(handler[h].op, Calls[handler[h].op])
  BY <1>1, OrderAt
<1> QED
  BY <1>1, <1>2 DEF Order, At, On

\* What is past after a call was past before it, or is that call.
LEMMA PastCall ==
    ASSUME TypeOK, NEW h \in Handlers, NEW call, NEW k, Past(h, call, k)',
           handler'[h].op = handler[h].op
    PROVE  /\ handler'[h].pc = handler[h].pc => Past(h, call, k)
           /\ handler'[h].pc = handler[h].pc + 1 =>
                Past(h, call, k) \/ Calls[handler[h].op][handler[h].pc] = <<call, k>>
<1>1. handler[h].pc \in Nat \ {0}
  BY DEF TypeOK, Handler
<1>2. PICK i \in 1..Len(Calls[handler[h].op]) :
        i < handler'[h].pc /\ Calls[handler[h].op][i] = <<call, k>>
  BY DEF Past
<1>3. Busy(h)
  BY DEF Past, Busy
<1>4. CASE handler'[h].pc = handler[h].pc
  BY <1>1, <1>2, <1>3, <1>4 DEF Past
<1>5. CASE handler'[h].pc = handler[h].pc + 1
  <2>1. i < handler[h].pc \/ i = handler[h].pc
    BY <1>1, <1>2, <1>5
  <2> QED
    BY <1>1, <1>2, <1>3, <1>5, <2>1 DEF Past
<1> QED
  BY <1>4, <1>5

\* What a step does to the request that takes it.
LEMMA StepMoves ==
    ASSUME TypeOK, NEW h \in Handlers, Step(h) \/ Fault(h)
    PROVE  /\ Busy(h) /\ Others(h) /\ UNCHANGED overlapped
           /\ \/ handler'[h] = Idle
              \/ /\ handler'[h].op = handler[h].op
                 /\ handler'[h].offered = handler[h].offered
                 /\ handler'[h].email = handler[h].email
                 /\ \/ /\ handler'[h].pc = handler[h].pc + 1
                       /\ handler'[h].against = handler[h].against
                    \/ handler'[h].pc = handler[h].pc /\ At(h, "check")
                 /\ \/ handler'[h].generated = handler[h].generated
                    \/ Issue(h)
<1>1. Busy(h) /\ UNCHANGED overlapped
  BY DEF Step, FindUnset, FindUser, FindMatching, Issue, Send, StoreEmail, ReadAttempts,
         Accept, Reject, CountAttempt, LoadEmail, Write, Remove, Finish, Fault, At, Done,
         history
<1>2. CASE Refuse(h)
  BY <1>1, <1>2, RefuseMoves
<1>3. CASE Advance(h)
  BY <1>1, <1>3, AdvanceMoves DEF Same
<1>4. CASE Issue(h)
  BY <1>1, <1>4, IssueMoves DEF Same
<1>5. CASE Accept(h)
  BY <1>1, <1>5, AcceptMoves DEF Accept
<1>6. CASE Reject(h)
  BY <1>1, <1>6, RejectMoves DEF Same, Reject
<1>7. CASE ReadAttempts(h)
  BY <1>1, <1>7, ReadMoves DEF Same
<1>8. CASE LoadEmail(h)
  BY <1>1, <1>8, LoadMoves DEF Same
<1> QED
  BY <1>2, <1>3, <1>4, <1>5, <1>6, <1>7, <1>8
  DEF Step, FindUnset, FindUser, FindMatching, Send, StoreEmail, CountAttempt, Write,
      Remove, Finish, Fault

LEMMA AloneStep ==
    ASSUME OneByOne, NEW h \in Handlers, Step(h) \/ Fault(h)
    PROVE  /\ Alone'
           /\ ~overlapped => \A g \in Handlers \ {h} : ~Busy(g)
<1>1. TypeOK
  BY DEF OneByOne, CodesInv
<1>2. Busy(h) /\ Others(h) /\ UNCHANGED overlapped
  BY <1>1, StepMoves
<1>3. ~overlapped => \A g \in Handlers \ {h} : ~Busy(g)
  BY <1>2 DEF OneByOne, Alone
<1>4. ~overlapped => \A g \in Handlers \ {h} : ~Busy(g)'
  BY <1>2, <1>3 DEF Others, Busy
<1> QED
  BY <1>2, <1>3, <1>4 DEF Alone

LEMMA GuessingStep ==
    ASSUME OneByOne, NEW h \in Handlers, Step(h) \/ Fault(h)
    PROVE  Guessing'
<1>1. TypeOK
  BY DEF OneByOne, CodesInv
<1>2. Others(h)
  BY <1>1, StepMoves
<1>3. CASE handler'[h] = Idle
  BY <1>2, <1>3 DEF OneByOne, Guessing, Others, Idle
<1>4. CASE handler'[h] # Idle /\ At(h, "check") /\ handler'[h].pc = handler[h].pc
  <2>1. Reject(h)
    <3>1. ~Advance(h) /\ ~Refuse(h) /\ ~Issue(h) /\ ~Accept(h) /\ ~ReadAttempts(h) /\ ~LoadEmail(h)
      <4>1. handler[h].pc # handler[h].pc + 1
        BY <1>1 DEF TypeOK, Handler
      <4> QED
        BY <1>1, <1>4, <4>1, AdvanceMoves, RefuseMoves, IssueMoves, AcceptMoves, ReadMoves,
           LoadMoves
    <3> QED
      BY <3>1 DEF Step, FindUnset, FindUser, FindMatching, Send, StoreEmail, CountAttempt,
                  Write, Remove, Finish, Fault
  <2>2. handler[h].op = "signupVerifyOtp" /\ handler'[h].op = handler[h].op
    BY <1>1, <1>4, <2>1, RejectMoves DEF Same
  <2>3. handler[h].pc = 2
    <3>1. Calls["signupVerifyOtp"] = SignupVerifyOtp
      BY DEF Calls
    <3>2. \A i \in 1..Len(SignupVerifyOtp) : SignupVerifyOtp[i][1] = "check" => i = 2
      BY DEF SignupVerifyOtp
    <3>3. /\ handler[h].pc \in 1..Len(Calls[handler[h].op])
          /\ Calls[handler[h].op][handler[h].pc][1] = "check"
      BY <1>1, <1>4, AtCall DEF At
    <3> QED
      BY <2>2, <3>1, <3>2, <3>3
  <2> QED
    BY <1>2, <1>4, <2>2, <2>3 DEF OneByOne, Guessing, Others
<1>5. CASE handler'[h] # Idle /\ handler'[h].pc = handler[h].pc + 1
  <2>1. handler[h].against = NoCode
    <3>1. ~Refuse(h)
      BY <1>1, <1>5, RefuseMoves
    <3> QED
      BY <3>1 DEF Step, FindUnset, FindUser, FindMatching, Issue, Send, StoreEmail,
                  ReadAttempts, Accept, Reject, CountAttempt, LoadEmail, Write, Remove,
                  Finish, Fault, At
  <2>2. handler'[h].against = handler[h].against
    <3>1. handler[h].pc # handler[h].pc + 1
      BY <1>1 DEF TypeOK, Handler
    <3> QED
      BY <1>1, <1>5, <3>1, StepMoves
  <2> QED
    BY <1>2, <2>1, <2>2 DEF OneByOne, Guessing, Others
<1> QED
  BY <1>1, <1>3, <1>4, <1>5, StepMoves

LEMMA LastingStep ==
    ASSUME OneByOne, NEW h \in Handlers, Step(h) \/ Fault(h)
    PROVE  Lasting'
<1>1. TypeOK
  BY DEF OneByOne, CodesInv
<1>2. \A k \in Keys : TTL(k) > 0
  BY CodesAssumption DEF TTL
<1>3. \A k \in Keys : \/ redis'[k] = redis[k]
                      \/ redis'[k].value = NoCode
                      \/ redis'[k].left = TTL(k)
  <2>1. CASE UNCHANGED redis
    BY <2>1
  <2>2. CASE Issue(h)
    <3>1. \A k \in Keys \ {On(h)} : redis'[k] = redis[k]
      BY <1>1, <2>2, IssueMoves
    <3>2. redis'[On(h)] = [value |-> issued + 1, left |-> TTL(On(h)),
                           path |-> Append(handler[h].path, handler[h].op),
                           to |-> handler[h].email]
      BY <1>1, <2>2, IssueMoves
    <3>3. redis'[On(h)].left = TTL(On(h))
      BY <3>2
    <3> QED
      BY <3>1, <3>3
  <2>3. CASE StoreEmail(h)
    BY <1>1, <2>3 DEF StoreEmail, Put, TypeOK
  <2>4. CASE CountAttempt(h)
    BY <1>1, <2>4 DEF CountAttempt, Put, TypeOK
  <2>5. CASE Remove(h)
    BY <1>1, <2>5 DEF Remove, TypeOK, Absent
  <2> QED
    BY <2>1, <2>2, <2>3, <2>4, <2>5
    DEF Step, FindUnset, FindUser, FindMatching, Send, ReadAttempts, Accept, Reject,
        LoadEmail, Write, Finish, Fault
<1> QED
  BY <1>2, <1>3 DEF OneByOne, Lasting

LEMMA ToldStep ==
    ASSUME OneByOne, NEW h \in Handlers, Step(h) \/ Fault(h)
    PROVE  Told'
<1>1. TypeOK /\ issued \in Nat
  BY DEF OneByOne, CodesInv, TypeOK
<1>2. issued' = issued \/ (Issue(h) /\ issued' = issued + 1)
  <2>1. CASE Issue(h)
    BY <2>1 DEF Issue
  <2>2. CASE ~Issue(h)
    BY <2>2 DEF Step, FindUnset, FindUser, FindMatching, Send, StoreEmail, ReadAttempts,
         Accept, Reject, CountAttempt, LoadEmail, Write, Remove, Finish, Fault, history
  <2> QED
    BY <2>1, <2>2
<1>3. known' = known \/ known' = known \cup {handler[h].generated}
  BY DEF Step, FindUnset, FindUser, FindMatching, Issue, Send, StoreEmail, ReadAttempts,
         Accept, Reject, CountAttempt, LoadEmail, Write, Remove, Finish, Fault
<1>4. \A g \in Handlers : handler[g].generated \in Nat
  BY <1>1 DEF TypeOK, Handler, Codes, NoCode
<1>5. \A c \in known : c \in Nat
  BY <1>1 DEF TypeOK, Codes, NoCode
<1>6. \A c \in known' : c <= issued'
  BY <1>1, <1>2, <1>3, <1>4, <1>5 DEF OneByOne, Told
<1>7. \A g \in Handlers \ {h} : /\ handler'[g].generated <= issued'
                                /\ handler'[g].offered \in known' \cup {NoCode}
  <2>1. Others(h)
    BY <1>1, StepMoves
  <2> QED
    BY <1>1, <1>2, <1>3, <1>4, <2>1 DEF OneByOne, Told, Others
<1>8. handler'[h].generated <= issued' /\ handler'[h].offered \in known' \cup {NoCode}
  <2>1. CASE handler'[h] = Idle
    BY <1>1, <1>2, <2>1 DEF Idle, NoCode
  <2>2. CASE Issue(h)
    <3>1. handler'[h].generated = issued + 1 /\ Same(handler'[h], handler[h])
      BY <1>1, <2>2, IssueMoves
    <3>2. issued' = issued + 1 /\ known' = known
      BY <2>2 DEF Issue
    <3> QED
      BY <1>1, <3>1, <3>2 DEF Same, OneByOne, Told
  <2>3. CASE handler'[h] # Idle /\ ~Issue(h)
    <3>1. /\ handler'[h].generated = handler[h].generated
          /\ handler'[h].offered = handler[h].offered
      BY <1>1, <2>3, StepMoves
    <3> QED
      BY <1>1, <1>2, <1>3, <1>4, <3>1 DEF OneByOne, Told
  <2> QED
    BY <2>1, <2>2, <2>3
<1> QED
  BY <1>6, <1>7, <1>8 DEF Told

LEMMA StepStored ==
    ASSUME TypeOK, NEW h \in Handlers, Step(h) \/ Fault(h), ~Issue(h)
    PROVE  Stored
<1>1. CASE UNCHANGED redis
  BY <1>1 DEF Stored
<1>2. CASE StoreEmail(h)
  <2>1. On(h) = "newEmail"
    BY <1>2, AtCall DEF StoreEmail
  <2>2. \A k \in CodeKeys : redis'[k] = redis[k]
    BY <1>2, <2>1 DEF StoreEmail, Put, TypeOK, CodeKeys, Keys
  <2> QED
    BY <2>2 DEF Stored
<1>3. CASE CountAttempt(h)
  <2>1. \A k \in CodeKeys : redis'[k] = redis[k]
    BY <1>3 DEF CountAttempt, Put, TypeOK, CodeKeys, Keys
  <2> QED
    BY <2>1 DEF Stored
<1>4. CASE Remove(h)
  <2>1. \A k \in CodeKeys : redis'[k] = redis[k] \/ redis'[k] = Absent
    BY <1>4 DEF Remove, TypeOK, Keys
  <2> QED
    BY <2>1 DEF Stored, Absent
<1> QED
  BY <1>1, <1>2, <1>3, <1>4
  DEF Step, FindUnset, FindUser, FindMatching, Send, ReadAttempts, Accept, Reject,
      LoadEmail, Write, Finish, Fault

\* Where a request that stays is concerned, what is stored was there before.
LEMMA OwnKeeps ==
    ASSUME OneByOne, Stored, NEW g \in Handlers, NEW k \in CodeKeys,
           handler'[g].generated = handler[g].generated,
           handler'[g].op = handler[g].op,
           handler'[g].pc \in {handler[g].pc, handler[g].pc + 1},
           handler'[g].generated # NoCode, redis'[k].value = handler'[g].generated
    PROVE  Past(g, "issue", k)'
<1>1. TypeOK
  BY DEF OneByOne, CodesInv
<1>2. redis[k].value = handler[g].generated
  BY DEF Stored
<1>3. Past(g, "issue", k)
  BY <1>2 DEF OneByOne, Own
<1> QED
  BY <1>1, <1>3, PastKeeps

LEMMA OwnStep ==
    ASSUME OneByOne, NEW h \in Handlers, Step(h) \/ Fault(h)
    PROVE  Own'
<1>1. TypeOK /\ issued \in Nat
  BY DEF OneByOne, CodesInv, TypeOK
<1>2. Others(h)
  BY <1>1, StepMoves
<1>3. \A g \in Handlers, k \in CodeKeys :
        handler[g].generated <= issued /\ redis[k].value <= issued
  BY DEF OneByOne, CodesInv, Fresh, Told
<1>4. CASE Issue(h)
  <2>1. /\ handler'[h].pc = handler[h].pc + 1 /\ handler'[h].op = handler[h].op
        /\ handler'[h].generated = issued + 1
    BY <1>1, <1>4, IssueMoves DEF Same
  <2>2. redis'[On(h)] = [value |-> issued + 1, left |-> TTL(On(h)),
                         path |-> Append(handler[h].path, handler[h].op),
                         to |-> handler[h].email]
    BY <1>1, <1>4, IssueMoves
  <2>3. redis'[On(h)].value = issued + 1
    BY <2>2
  <2>4. \A k \in CodeKeys \ {On(h)} : redis'[k] = redis[k]
    BY <1>1, <1>4, IssueMoves DEF Keys
  <2>5. PICK l \in CodeKeys : l = On(h)
    BY <1>1, <1>4, AtCall DEF Issue
  <2>6. Past(h, "issue", l)'
    <3>1. handler[h].pc \in Nat \ {0} /\ Busy(h)
      BY <1>1, <1>4 DEF TypeOK, Handler, Issue, At
    <3>2. handler[h].pc < handler'[h].pc
      BY <2>1, <3>1
    <3>3. /\ handler[h].pc \in 1..Len(Calls[handler[h].op])
          /\ Calls[handler[h].op][handler[h].pc] = <<"issue", l>>
      BY <1>1, <1>4, <2>5, OnCall DEF Issue
    <3> QED
      BY <2>1, <3>1, <3>2, <3>3 DEF Past, Busy
  <2>7. ASSUME NEW g \in Handlers, NEW k \in CodeKeys,
               handler'[g].generated # NoCode, redis'[k].value = handler'[g].generated
        PROVE  Past(g, "issue", k)'
    <3>1. CASE g = h
      <4>1. k = l
        BY <1>1, <1>3, <2>1, <2>3, <2>4, <2>5, <2>7, <3>1
      <4> QED
        BY <2>6, <3>1, <4>1
    <3>2. CASE g # h
      <4>1. handler'[g] = handler[g]
        BY <1>2, <3>2 DEF Others
      <4>2. k # l
        BY <1>1, <1>3, <2>3, <2>5, <2>7, <4>1
      <4>3. redis[k].value = handler[g].generated
        BY <2>4, <2>5, <2>7, <4>1, <4>2
      <4>4. Past(g, "issue", k)
        BY <2>7, <4>1, <4>3 DEF OneByOne, Own
      <4> QED
        BY <1>1, <4>1, <4>4, PastKeeps
    <3> QED
      BY <3>1, <3>2
  <2> QED
    BY <2>7 DEF Own
<1>5. CASE ~Issue(h)
  <2>1. Stored
    BY <1>1, <1>5, StepStored
  <2>2. ASSUME NEW g \in Handlers, NEW k \in CodeKeys,
               handler'[g].generated # NoCode, redis'[k].value = handler'[g].generated
        PROVE  Past(g, "issue", k)'
    <3>1. CASE g # h
      <4>1. handler'[g] = handler[g]
        BY <1>2, <3>1 DEF Others
      <4> QED
        BY <2>1, <2>2, <4>1, OwnKeeps
    <3>2. CASE g = h
      <4>1. handler'[h] # Idle
        BY <2>2, <3>2 DEF Idle
      <4> QED
        BY <1>1, <1>5, <2>1, <2>2, <3>2, <4>1, StepMoves, OwnKeeps
    <3> QED
      BY <3>1, <3>2
  <2> QED
    BY <2>2 DEF Own
<1> QED
  BY <1>4, <1>5

LEMMA BeginOneByOne ==
    ASSUME OneByOne, CodesInv', NEW h \in Handlers, NEW op \in Endpoints,
           NEW c \in Codes \cup {NoCode}, NEW e \in Emails \cup {0}, Begin(h, op, c, e)
    PROVE  /\ OneByOne'
           /\ ~overlapped' => \A g \in Handlers : ~Busy(g)
<1>1. TypeOK
  BY DEF OneByOne, CodesInv
<1>2. /\ handler'[h].op = op /\ handler'[h].offered = c /\ handler'[h].pc = 1
      /\ handler'[h].generated = NoCode /\ handler'[h].against = NoCode /\ Others(h)
  BY <1>1, BeginMoves
<1>3. UNCHANGED <<redis, known, issued>>
  BY DEF Begin
<1>4. ~overlapped' => \A g \in Handlers : ~Busy(g)
  BY <1>1 DEF Begin, TypeOK
<1>5. Alone'
  <2>1. ASSUME ~overlapped', NEW g \in Handlers \ {h} PROVE ~Busy(g)'
    BY <1>2, <1>4, <2>1 DEF Others, Busy
  <2> QED
    BY <2>1 DEF Alone
<1>6. Guessing'
  BY <1>2 DEF OneByOne, Guessing, Others
<1>7. Lasting'
  BY <1>3 DEF OneByOne, Lasting
<1>8. Told'
  <2>1. c \in known \cup {NoCode}
    BY DEF Begin, Current
  <2>2. issued \in Nat
    BY <1>1 DEF TypeOK
  <2> QED
    BY <1>2, <1>3, <2>1, <2>2 DEF OneByOne, Told, Others, NoCode
<1>9. Own'
  <2>1. ASSUME NEW g \in Handlers, NEW k \in CodeKeys,
               handler'[g].generated # NoCode, redis'[k].value = handler'[g].generated
        PROVE  Past(g, "issue", k)'
    <3>1. g # h
      BY <1>2, <2>1
    <3>2. handler'[g] = handler[g]
      BY <1>2, <3>1 DEF Others
    <3>3. Past(g, "issue", k)
      BY <1>3, <2>1, <3>2 DEF OneByOne, Own
    <3> QED
      BY <1>1, <3>2, <3>3, PastKeeps
  <2> QED
    BY <2>1 DEF Own
<1> QED
  BY <1>4, <1>5, <1>6, <1>7, <1>8, <1>9 DEF OneByOne

LEMMA OutsideOneByOne ==
    ASSUME OneByOne, CodesInv', UNCHANGED <<handler, known, issued, overlapped>>,
           UNCHANGED redis \/ Tick
    PROVE  OneByOne'
<1>1. TypeOK
  BY DEF OneByOne, CodesInv
<1>2. Alone' /\ Guessing' /\ Told'
  BY DEF OneByOne, Alone, Guessing, Told, Busy
<1>3. Lasting'
  <2>1. CASE UNCHANGED redis
    BY <2>1 DEF OneByOne, Lasting
  <2>2. CASE Tick
    <3>1. ASSUME NEW k \in Keys, redis'[k].value # NoCode PROVE redis'[k].left > 0
      <4>1. redis[k] \in Kept
        BY <1>1 DEF TypeOK
      <4>2. /\ ~(redis[k].left <= 1)
            /\ redis'[k] = [redis[k] EXCEPT !.left = @ - 1]
        BY <2>2, <3>1 DEF Tick, Absent
      <4>3. redis'[k].left = redis[k].left - 1 /\ redis[k].left \in Nat
        BY <4>1, <4>2, CodesAssumption DEF Kept
      <4> QED
        BY <4>2, <4>3
    <3> QED
      BY <3>1 DEF Lasting
  <2> QED
    BY <2>1, <2>2
<1>4. Own'
  <2>1. Stored
    BY <1>1, TickStored DEF Stored
  <2>2. ASSUME NEW g \in Handlers, NEW k \in CodeKeys,
               handler'[g].generated # NoCode, redis'[k].value = handler'[g].generated
        PROVE  Past(g, "issue", k)'
    BY <2>1, <2>2, OwnKeeps
  <2> QED
    BY <2>2 DEF Own
<1> QED
  BY <1>2, <1>3, <1>4 DEF OneByOne

LEMMA StepOneByOne ==
    ASSUME OneByOne, CodesInv', NEW h \in Handlers, Step(h) \/ Fault(h)
    PROVE  OneByOne'
BY AloneStep, GuessingStep, LastingStep, ToldStep, OwnStep DEF OneByOne

LEMMA NextOneByOne == OneByOne /\ [Next]_vars => OneByOne'
<1> SUFFICES ASSUME OneByOne, [Next]_vars PROVE OneByOne'
  OBVIOUS
<1>1. CodesInv'
  BY NextInv DEF OneByOne
<1>2. ASSUME NEW h \in Handlers, NEW op \in Endpoints,
             NEW c \in Codes \cup {NoCode}, NEW e \in Emails \cup {0},
             Begin(h, op, c, e)
      PROVE  OneByOne'
  BY <1>1, <1>2, BeginOneByOne
<1>3. ASSUME NEW h \in Handlers, Step(h) \/ Fault(h) PROVE OneByOne'
  BY <1>1, <1>3, StepOneByOne
<1>4. CASE Register
  BY <1>1, <1>4, OutsideOneByOne DEF Register, history
<1>5. CASE Tick
  BY <1>1, <1>5, OutsideOneByOne DEF Tick
<1>6. CASE UNCHANGED vars
  BY <1>1, <1>6, OutsideOneByOne DEF vars, history
<1> QED
  BY <1>2, <1>3, <1>4, <1>5, <1>6 DEF Next

LEMMA InitOneByOne == Init => OneByOne
<1> SUFFICES ASSUME Init PROVE OneByOne
  OBVIOUS
<1>1. \A k \in Keys : redis[k].value = NoCode
  BY DEF Init, Absent
<1>2. \A h \in Handlers :
        /\ handler[h].op = "none" /\ handler[h].against = NoCode
        /\ handler[h].generated = NoCode /\ handler[h].offered = NoCode
  BY DEF Init, Idle
<1>3. known = {} /\ issued = 0
  BY DEF Init
<1> QED
  BY <1>1, <1>2, <1>3, InitInv DEF OneByOne, Alone, Guessing, Lasting, Told, Own, Busy, NoCode

-----------------------------------------------------------------------------
(* The code sent last works.  Between its issue and its sending a code is   *)
(* stored and not yet the last; between its check and the answer it may be  *)
(* the last and no longer stored.                                           *)

\* h has issued a code under k that it has not sent.
Unsent(h, k) == Past(h, "issue", k) /\ ~Past(h, "send", k)
UnsentHeld(h, k) ==
    Unsent(h, k) => redis[k] = Absent \/ redis[k].value = handler[h].generated
CheckedHeld(h, k) == Past(h, "check", k) => redis[k].value \in {NoCode, handler[h].accepted}
Works(k) ==
    \/ latest[k] \in spent \cup {NoCode}
    \/ redis[k].value = latest[k]
    \/ \E h \in Handlers :
         \/ Unsent(h, k)
         \/ Past(h, "remove", k) /\ handler[h].accepted = latest[k]
Settled ==
    ~overlapped =>
      \A k \in CodeKeys :
        /\ \A h \in Handlers : UnsentHeld(h, k) /\ CheckedHeld(h, k)
        /\ faults = 0 => Works(k)

\* What a step of h shows of the keys, the other requests being idle.
SettledAt(h, k) ==
    UnsentHeld(h, k) /\ CheckedHeld(h, k) /\ (faults = 0 => Works(k))

LEMMA SettledStep ==
    ASSUME OneByOne, NEW h \in Handlers, Step(h) \/ Fault(h),
           ~overlapped => \A k \in CodeKeys : SettledAt(h, k)'
    PROVE  Settled'
<1>1. TypeOK
  BY DEF OneByOne, CodesInv
<1>2. Others(h) /\ UNCHANGED overlapped
  BY <1>1, StepMoves
<1>3. ASSUME ~overlapped PROVE \A g \in Handlers \ {h} : ~Busy(g)'
  BY <1>2, <1>3, AloneStep DEF Others, Busy
<1>4. ASSUME ~overlapped PROVE \A g \in Handlers \ {h}, k \in CodeKeys :
                                 UnsentHeld(g, k)' /\ CheckedHeld(g, k)'
  BY <1>3, <1>4 DEF UnsentHeld, CheckedHeld, Unsent, Past
<1> QED
  BY <1>2, <1>4 DEF Settled, SettledAt

\* While only h is in flight.
LEMMA WorksAlone ==
    ASSUME OneByOne, Settled, ~overlapped, faults = 0, NEW k \in CodeKeys,
           NEW h \in Handlers, \A g \in Handlers \ {h} : ~Busy(g)
    PROVE  \/ latest[k] \in spent \cup {NoCode}
           \/ redis[k].value = latest[k]
           \/ Unsent(h, k)
           \/ Past(h, "remove", k) /\ handler[h].accepted = latest[k]
BY DEF Settled, Works, Unsent, Past

\* A call that neither issues, sends nor checks a code under k.
LEMMA SettledKeeps ==
    ASSUME OneByOne, Settled, ~overlapped, NEW h \in Handlers, NEW k \in CodeKeys,
           \A g \in Handlers \ {h} : ~Busy(g),
           redis'[k] = redis[k], latest'[k] = latest[k], UNCHANGED <<spent, faults>>,
           handler'[h].op = handler[h].op,
           handler'[h].accepted = handler[h].accepted,
           handler'[h].generated = handler[h].generated,
           \/ handler'[h].pc = handler[h].pc
           \/ /\ handler'[h].pc = handler[h].pc + 1
              /\ Calls[handler[h].op][handler[h].pc] \notin
                   {<<"issue", k>>, <<"send", k>>, <<"check", k>>}
    PROVE  SettledAt(h, k)'
<1>1. TypeOK
  BY DEF OneByOne, CodesInv
<1>2. ASSUME NEW call \in {"issue", "send", "check", "remove"}, Past(h, call, k)
      PROVE  Past(h, call, k)'
  BY <1>1, <1>2, PastKeeps
<1>3. ASSUME NEW call \in {"issue", "send", "check"}, Past(h, call, k)'
      PROVE  Past(h, call, k)
  BY <1>1, <1>3, PastCall
<1>4. Unsent(h, k)' <=> Unsent(h, k)
  BY <1>2, <1>3 DEF Unsent
<1>5. UnsentHeld(h, k)'
  BY <1>4 DEF Settled, UnsentHeld
<1>6. CheckedHeld(h, k)'
  BY <1>3 DEF Settled, CheckedHeld
<1>7. ASSUME faults' = 0 PROVE Works(k)'
  <2>1. \/ latest[k] \in spent \cup {NoCode}
        \/ redis[k].value = latest[k]
        \/ Unsent(h, k)
        \/ Past(h, "remove", k) /\ handler[h].accepted = latest[k]
    BY <1>7, WorksAlone
  <2>2. Past(h, "remove", k) => Past(h, "remove", k)'
    BY <1>2
  <2> QED
    BY <1>4, <2>1, <2>2 DEF Works
<1> QED
  BY <1>5, <1>6, <1>7 DEF SettledAt

\* The place of such a call in the order of its endpoint.
LEMMA TurnsAwayEarly ==
    ASSUME NEW op, NEW calls, Order(op, calls), NEW i \in 1..Len(calls), NEW on,
           NEW call \in {"unset", "present", "absent", "matches", "attempts", "check",
                         "load"},
           calls[i] = <<call, on>>
    PROVE  \A j \in 1..(i - 1) : calls[j][1] \notin {"issue", "remove"}
<1>1. calls[i][1] = call
  OBVIOUS
<1>2. calls[i][1] \in {"unset", "present", "absent", "matches", "attempts", "check", "load"} =>
        \A j \in 1..(i - 1) : calls[j][1] \notin {"issue", "remove"}
  BY Zenon DEF Order
<1> QED
  BY <1>1, <1>2

\* Before a call that may turn the request away, nothing was issued or removed.
LEMMA NothingDone ==
    ASSUME OneByOne, NEW h \in Handlers, NEW k,
           \/ \E call \in {"unset", "present", "absent", "matches", "attempts", "check",
                           "load"} : At(h, call)
           \/ CountAttempt(h)
    PROVE  ~Past(h, "issue", k) /\ ~Past(h, "remove", k)
<1>1. TypeOK
  BY DEF OneByOne, CodesInv
<1>2. CASE CountAttempt(h)
  <2>1. handler[h].op = "signupVerifyOtp" /\ handler[h].pc = 2
    BY <1>2 DEF CountAttempt, OneByOne, Guessing
  <2>2. Calls["signupVerifyOtp"][1] = <<"attempts", "signupOtpAttempts">>
    BY DEF Calls, SignupVerifyOtp
  <2>3. \A i \in 1..Len(Calls[handler[h].op]) : i < handler[h].pc => i = 1
    BY <2>1, CallsAt DEF WellFormed
  <2> QED
    BY <2>1, <2>2, <2>3 DEF Past
<1>3. ASSUME NEW call \in {"unset", "present", "absent", "matches", "attempts", "check",
                           "load"}, At(h, call)
      PROVE  ~Past(h, "issue", k) /\ ~Past(h, "remove", k)
  <2>1. /\ handler[h].pc \in 1..Len(Calls[handler[h].op])
        /\ Calls[handler[h].op][handler[h].pc] = <<call, On(h)>>
        /\ Order(handler[h].op, Calls[handler[h].op])
    BY <1>1, <1>3, OnCall
  <2>2. \A j \in 1..(handler[h].pc - 1) :
          Calls[handler[h].op][j][1] \notin {"issue", "remove"}
    <3>1. PICK op, calls, i : op = handler[h].op /\ calls = Calls[op] /\ i = handler[h].pc
      OBVIOUS
    <3>2. /\ Order(op, calls) /\ i \in 1..Len(calls)
          /\ calls[i] = <<call, On(h)>>
      BY <2>1, <3>1
    <3>3. \A j \in 1..(i - 1) : calls[j][1] \notin {"issue", "remove"}
      BY <1>3, <3>2, TurnsAwayEarly
    <3> QED
      BY <3>1, <3>3
  <2>3. handler[h].pc \in Nat
    BY <1>1 DEF TypeOK, Handler
  <2>4. \A j \in 1..Len(Calls[handler[h].op]) :
          j < handler[h].pc => j \in 1..(handler[h].pc - 1)
    BY <2>3
  <2> QED
    BY <2>2, <2>4 DEF Past
<1> QED
  BY <1>2, <1>3

\* A request that is turned away.
LEMMA RefuseSettled ==
    ASSUME OneByOne, Settled, ~overlapped, NEW h \in Handlers, NEW k \in CodeKeys,
           \A g \in Handlers \ {h} : ~Busy(g),
           redis'[k] = redis[k], UNCHANGED <<latest, spent, faults>>,
           handler'[h] = Idle,
           ~Past(h, "issue", k) /\ ~Past(h, "remove", k)
    PROVE  SettledAt(h, k)'
<1>1. ~Busy(h)'
  BY DEF Busy, Idle
<1>2. UnsentHeld(h, k)' /\ CheckedHeld(h, k)'
  BY <1>1 DEF UnsentHeld, CheckedHeld, Unsent, Past
<1>3. ASSUME faults' = 0 PROVE Works(k)'
  <2>1. latest[k] \in spent \cup {NoCode} \/ redis[k].value = latest[k]
    BY <1>3, WorksAlone DEF Unsent
  <2> QED
    BY <2>1 DEF Works
<1> QED
  BY <1>2, <1>3 DEF SettledAt

LEMMA FinishSettled ==
    ASSUME OneByOne, Settled, ~overlapped, NEW h \in Handlers, NEW k \in CodeKeys,
           \A g \in Handlers \ {h} : ~Busy(g), Finish(h)
    PROVE  SettledAt(h, k)'
<1>1. TypeOK
  BY DEF OneByOne, CodesInv
<1>2. handler'[h] = Idle
  BY <1>1, RefuseMoves DEF Finish
<1>3. UnsentHeld(h, k)' /\ CheckedHeld(h, k)'
  BY <1>2 DEF UnsentHeld, CheckedHeld, Unsent, Past, Busy, Idle
<1>4. ASSUME faults' = 0 PROVE Works(k)'
  <2>1. \/ latest[k] \in spent \cup {NoCode}
        \/ redis[k].value = latest[k]
        \/ Unsent(h, k)
        \/ Past(h, "remove", k) /\ handler[h].accepted = latest[k]
    BY <1>4, WorksAlone DEF Finish
  <2>2. ~Unsent(h, k)
    <3> SUFFICES ASSUME Past(h, "issue", k) PROVE Past(h, "send", k)
      BY DEF Unsent
    <3>1. handler[h] \in Handler /\ handler[h].op \in Endpoints
      BY <1>1 DEF TypeOK, Handler, Finish, Done, Busy
    <3>2. WellFormed(Calls[handler[h].op]) /\ Order(handler[h].op, Calls[handler[h].op])
      BY <3>1, CallsAt, OrderAt
    <3>3. /\ handler[h].pc \in Nat /\ Len(Calls[handler[h].op]) \in Nat
          /\ handler[h].pc > Len(Calls[handler[h].op])
      BY <3>1, <3>2 DEF Finish, Done, Left, Handler, WellFormed
    <3>4. PICK i \in 1..Len(Calls[handler[h].op]) : Calls[handler[h].op][i] = <<"issue", k>>
      BY DEF Past
    <3>6. PICK j \in 1..Len(Calls[handler[h].op]) : Calls[handler[h].op][j] = <<"send", k>>
      BY <3>2, <3>4 DEF Order
    <3>7. j < handler[h].pc
      BY <3>3, <3>6
    <3> QED
      BY <3>6, <3>7 DEF Past, Finish, Done
  <2>3. /\ UNCHANGED <<redis, latest>>
        /\ spent' = spent \cup ({handler[h].accepted} \ {NoCode})
    BY DEF Finish
  <2> QED
    BY <2>1, <2>2, <2>3 DEF Works
<1> QED
  BY <1>3, <1>4 DEF SettledAt

\* What the order of its calls says of a request at one of them.
LEMMA AtOrder ==
    ASSUME OneByOne, NEW h \in Handlers, NEW k \in CodeKeys
    PROVE  /\ At(h, "issue") => ~Past(h, "issue", k)
           /\ At(h, "issue") /\ k = On(h) => ~Past(h, "send", k) /\ ~Past(h, "check", k)
           /\ At(h, "send") /\ k = On(h) => Unsent(h, k)
           /\ At(h, "check") => ~Past(h, "check", k)
           /\ At(h, "remove") /\ k = On(h) => Past(h, "check", k) /\ ~Past(h, "issue", k)
<1> DEFINE c == Calls[handler[h].op]  i == handler[h].pc
<1>1. TypeOK /\ i \in Nat
  BY DEF OneByOne, CodesInv, TypeOK, Handler
<1>2. ASSUME NEW call, At(h, call)
      PROVE  /\ Busy(h) /\ Order(handler[h].op, c)
             /\ i \in 1..Len(c) /\ c[i] = <<call, On(h)>>
  BY <1>1, <1>2, OnCall DEF At
<1>3. \A j \in 1..Len(c) : j < i => j \in 1..(i - 1)
  BY <1>1
<1>4. \A j \in 1..(i - 1) : i \in 1..Len(c) /\ Len(c) \in Nat => j \in 1..Len(c) /\ j < i
  BY <1>1
<1>5. ASSUME NEW call, At(h, call) PROVE Len(c) \in Nat
  BY <1>1, <1>5, AtCall DEF WellFormed
<1>6. ASSUME At(h, "issue") PROVE ~Past(h, "issue", k)
  <2>1. \A j \in 1..Len(c) : c[j][1] = "issue" => j = i
    BY <1>2, <1>6 DEF Order
  <2> QED
    BY <1>1, <2>1 DEF Past
<1>7. ASSUME At(h, "issue"), k = On(h) PROVE ~Past(h, "send", k) /\ ~Past(h, "check", k)
  <2>1. /\ i \in 1..Len(c) /\ c[i] = <<"issue", k>>
        /\ \A j \in 1..(i - 1) : c[j] # <<"send", k>>
    BY <1>2, <1>7 DEF Order
  <2>2. \A j \in 1..Len(c) : c[j] # <<"check", k>>
    <3>1. \A j \in 1..Len(c) : c[j] = <<"check", k>> =>
             \A l \in 1..Len(c) : c[l] # <<"issue", k>>
      BY <1>2, <1>7 DEF Order
    <3> QED
      BY <2>1, <3>1
  <2> QED
    BY <1>3, <2>1, <2>2 DEF Past
<1>8. ASSUME At(h, "send"), k = On(h) PROVE Unsent(h, k)
  <2>1. /\ Busy(h)
        /\ \E j \in 1..(i - 1) : c[j] = <<"issue", k>>
        /\ \A j \in 1..(i - 1) : c[j] # <<"send", k>>
    <3>1. /\ Busy(h) /\ Order(handler[h].op, c) /\ i \in 1..Len(c)
          /\ c[i] = <<"send", k>> /\ c[i][1] = "send" /\ c[i][2] = k
      BY <1>2, <1>8
    <3> HIDE DEF c, i
    <3> QED
      BY <3>1 DEF Order
  <2>2. i \in 1..Len(c) /\ Len(c) \in Nat
    BY <1>2, <1>5, <1>8
  <2> QED
    BY <1>3, <1>4, <2>1, <2>2 DEF Unsent, Past
<1>9. ASSUME At(h, "check") PROVE ~Past(h, "check", k)
  <2>1. \A j \in 1..Len(c) : c[j][1] = "check" => j = i
    BY <1>2, <1>9 DEF Order
  <2> QED
    BY <1>1, <2>1 DEF Past
<1>10. ASSUME At(h, "remove"), k = On(h)
       PROVE  Past(h, "check", k) /\ ~Past(h, "issue", k)
  <2>1. /\ Busy(h)
        /\ \E j \in 1..(i - 1) : c[j] = <<"check", k>>
        /\ \A j \in 1..Len(c) : c[j] # <<"issue", k>>
    <3>1. /\ Busy(h) /\ Order(handler[h].op, c) /\ i \in 1..Len(c)
          /\ c[i] = <<"remove", k>> /\ c[i][1] = "remove" /\ c[i][2] = k
      BY <1>2, <1>10
    <3> HIDE DEF c, i
    <3> QED
      BY <3>1 DEF Order
  <2>2. i \in 1..Len(c) /\ Len(c) \in Nat
    BY <1>2, <1>5, <1>10
  <2> QED
    BY <1>4, <2>1, <2>2 DEF Past
<1> HIDE DEF c, i
<1> QED
  BY <1>6, <1>7, <1>8, <1>9, <1>10

LEMMA IssueSettled ==
    ASSUME OneByOne, Settled, ~overlapped, NEW h \in Handlers, NEW k \in CodeKeys,
           \A g \in Handlers \ {h} : ~Busy(g), Issue(h)
    PROVE  SettledAt(h, k)'
<1>1. TypeOK /\ At(h, "issue")
  BY DEF OneByOne, CodesInv, Issue
<1>2. /\ handler'[h].pc = handler[h].pc + 1 /\ handler'[h].op = handler[h].op
      /\ handler'[h].accepted = handler[h].accepted
      /\ handler'[h].generated = issued + 1
      /\ \A l \in Keys \ {On(h)} : redis'[l] = redis[l]
  BY <1>1, IssueMoves DEF Same
<1>3. UNCHANGED <<latest, spent, faults>>
  BY DEF Issue
<1>4. Calls[handler[h].op][handler[h].pc] = <<"issue", On(h)>>
  BY <1>1, OnCall
<1>5. ASSUME NEW call, Past(h, call, k)'
      PROVE  Past(h, call, k) \/ (call = "issue" /\ k = On(h))
  BY <1>1, <1>2, <1>4, <1>5, PastCall
<1>6. CASE k = On(h)
  <2>1. redis'[k] = [value |-> issued + 1, left |-> TTL(On(h)),
                     path |-> Append(handler[h].path, handler[h].op),
                     to |-> handler[h].email]
    BY <1>1, <1>6, IssueMoves
  <2>2. redis'[k].value = handler'[h].generated
    BY <1>2, <2>1
  <2>3. ~Past(h, "send", k)' /\ ~Past(h, "check", k)'
    BY <1>1, <1>5, <1>6, AtOrder
  <2>4. Past(h, "issue", k)'
    <3>1. handler[h].pc \in 1..Len(Calls[handler[h].op]) /\ Busy(h)
      BY <1>1, OnCall DEF At
    <3>2. handler[h].pc < handler'[h].pc
      BY <1>2, <3>1
    <3> QED
      BY <1>2, <1>4, <1>6, <3>1, <3>2 DEF Past, Busy
  <2> QED
    BY <2>2, <2>3, <2>4 DEF SettledAt, UnsentHeld, CheckedHeld, Works, Unsent
<1>7. CASE k # On(h)
  <2>1. redis'[k] = redis[k]
    BY <1>2, <1>7 DEF Keys
  <2>2. ~Past(h, "issue", k) /\ ~Past(h, "issue", k)'
    BY <1>1, <1>5, <1>7, AtOrder
  <2>3. CheckedHeld(h, k)'
    BY <1>2, <1>5, <2>1 DEF Settled, CheckedHeld
  <2>4. ASSUME faults' = 0 PROVE Works(k)'
    <3>1. \/ latest[k] \in spent \cup {NoCode}
          \/ redis[k].value = latest[k]
          \/ Past(h, "remove", k) /\ handler[h].accepted = latest[k]
      BY <1>3, <2>2, <2>4, WorksAlone DEF Unsent
    <3>2. Past(h, "remove", k) => Past(h, "remove", k)'
      BY <1>1, <1>2, PastKeeps
    <3> QED
      BY <1>2, <1>3, <2>1, <3>1, <3>2 DEF Works
  <2> QED
    BY <2>2, <2>3, <2>4 DEF SettledAt, UnsentHeld, Unsent
<1> QED
  BY <1>6, <1>7

LEMMA SendSettled ==
    ASSUME OneByOne, Settled, ~overlapped, NEW h \in Handlers, NEW k \in CodeKeys,
           \A g \in Handlers \ {h} : ~Busy(g), Send(h)
    PROVE  SettledAt(h, k)'
<1>1. TypeOK /\ At(h, "send") /\ On(h) \in CodeKeys
  BY AtCall DEF OneByOne, CodesInv, Send
<1>2. /\ handler'[h].pc = handler[h].pc + 1 /\ handler'[h].op = handler[h].op
      /\ handler'[h].accepted = handler[h].accepted
      /\ handler'[h].generated = handler[h].generated
  BY <1>1, AdvanceMoves DEF Same, Send
<1>3. /\ UNCHANGED <<redis, spent, faults>>
      /\ latest' = [latest EXCEPT ![On(h)] =
                      IF redis[On(h)] = Absent THEN NoCode ELSE handler[h].generated]
  BY DEF Send
<1>4. Calls[handler[h].op][handler[h].pc] = <<"send", On(h)>>
  BY <1>1, OnCall
<1>5. CASE k # On(h)
  <2>1. latest'[k] = latest[k]
    BY <1>1, <1>3, <1>5 DEF TypeOK
  <2> QED
    BY <1>2, <1>3, <1>4, <1>5, <2>1, SettledKeeps
<1>6. CASE k = On(h)
  <2>1. redis[k] = Absent \/ redis[k].value = handler[h].generated
    BY <1>1, <1>6, AtOrder DEF Settled, UnsentHeld
  <2>2. latest'[k] = NoCode \/ redis'[k].value = latest'[k]
    BY <1>1, <1>3, <1>6, <2>1 DEF TypeOK
  <2>3. Past(h, "send", k)'
    <3>1. handler[h].pc \in 1..Len(Calls[handler[h].op]) /\ Busy(h)
      BY <1>1, OnCall DEF At
    <3>2. handler[h].pc < handler'[h].pc
      BY <1>2, <3>1
    <3> QED
      BY <1>2, <1>4, <1>6, <3>1, <3>2 DEF Past, Busy
  <2>4. CheckedHeld(h, k)'
    <3>1. Past(h, "check", k)' => Past(h, "check", k)
      BY <1>1, <1>2, <1>4, PastCall
    <3> QED
      BY <1>2, <1>3, <3>1 DEF Settled, CheckedHeld
  <2> QED
    BY <2>2, <2>3, <2>4 DEF SettledAt, UnsentHeld, Unsent, Works
<1> QED
  BY <1>5, <1>6

LEMMA AcceptSettled ==
    ASSUME OneByOne, Settled, ~overlapped, NEW h \in Handlers, NEW k \in CodeKeys,
           \A g \in Handlers \ {h} : ~Busy(g), Accept(h)
    PROVE  SettledAt(h, k)'
<1>1. TypeOK /\ At(h, "check")
  BY DEF OneByOne, CodesInv, Accept
<1>2. /\ handler'[h].pc = handler[h].pc + 1 /\ handler'[h].op = handler[h].op
      /\ handler'[h].accepted = handler[h].offered
      /\ handler'[h].generated = handler[h].generated
  BY <1>1, AcceptMoves
<1>3. UNCHANGED <<redis, latest, spent, faults>> /\ redis[On(h)].value = handler[h].offered
  BY DEF Accept, Valid, history
<1>4. Calls[handler[h].op][handler[h].pc] = <<"check", On(h)>>
  BY <1>1, OnCall
<1>5. ASSUME NEW call, Past(h, call, k)'
      PROVE  Past(h, call, k) \/ (call = "check" /\ k = On(h))
  BY <1>1, <1>2, <1>4, <1>5, PastCall
<1>6. ~Past(h, "issue", k) /\ ~Past(h, "remove", k) /\ ~Past(h, "check", k)
  BY <1>1, NothingDone, AtOrder
<1>7. UnsentHeld(h, k)'
  BY <1>5, <1>6 DEF UnsentHeld, Unsent
<1>8. CheckedHeld(h, k)'
  BY <1>2, <1>3, <1>5, <1>6 DEF CheckedHeld
<1>9. ASSUME faults' = 0 PROVE Works(k)'
  <2>1. latest[k] \in spent \cup {NoCode} \/ redis[k].value = latest[k]
    BY <1>3, <1>6, <1>9, WorksAlone DEF Unsent
  <2> QED
    BY <1>3, <2>1 DEF Works
<1> QED
  BY <1>7, <1>8, <1>9 DEF SettledAt

LEMMA RemoveSettled ==
    ASSUME OneByOne, Settled, ~overlapped, NEW h \in Handlers, NEW k \in CodeKeys,
           \A g \in Handlers \ {h} : ~Busy(g), Remove(h)
    PROVE  SettledAt(h, k)'
<1>1. TypeOK /\ At(h, "remove") /\ On(h) \in Keys
  BY AtCall DEF OneByOne, CodesInv, Remove
<1>2. /\ handler'[h].pc = handler[h].pc + 1 /\ handler'[h].op = handler[h].op
      /\ handler'[h].accepted = handler[h].accepted
      /\ handler'[h].generated = handler[h].generated
  BY <1>1, AdvanceMoves DEF Same, Remove
<1>3. /\ UNCHANGED <<latest, spent, faults>>
      /\ redis' = [redis EXCEPT ![On(h)] = Absent]
  BY DEF Remove, history
<1>4. Calls[handler[h].op][handler[h].pc] = <<"remove", On(h)>>
  BY <1>1, OnCall
<1>5. CASE k # On(h)
  <2>1. redis'[k] = redis[k]
    BY <1>1, <1>3, <1>5 DEF TypeOK, Keys
  <2> QED
    BY <1>2, <1>3, <1>4, <2>1, SettledKeeps
<1>6. CASE k = On(h)
  <2>1. redis'[k] = Absent /\ Absent.value = NoCode
    BY <1>1, <1>3, <1>6 DEF TypeOK, Absent
  <2>2. Past(h, "check", k) /\ ~Past(h, "issue", k)
    BY <1>1, <1>6, AtOrder
  <2>3. redis[k].value \in {NoCode, handler[h].accepted}
    BY <2>2 DEF Settled, CheckedHeld
  <2>4. Past(h, "remove", k)'
    <3>1. handler[h].pc \in 1..Len(Calls[handler[h].op]) /\ Busy(h)
      BY <1>1, OnCall DEF At
    <3>2. handler[h].pc < handler'[h].pc
      BY <1>2, <3>1
    <3> QED
      BY <1>2, <1>4, <1>6, <3>1, <3>2 DEF Past, Busy
  <2>5. ASSUME faults' = 0 PROVE Works(k)'
    <3>1. \/ latest[k] \in spent \cup {NoCode}
          \/ handler[h].accepted = latest[k]
      BY <1>3, <2>2, <2>3, <2>5, WorksAlone DEF Unsent
    <3> QED
      BY <1>2, <1>3, <2>4, <3>1 DEF Works
  <2> QED
    BY <2>1, <2>5 DEF SettledAt, UnsentHeld, CheckedHeld
<1> QED
  BY <1>5, <1>6

\* The other calls go on or turn the request away.
LEMMA PlainSettled ==
    ASSUME OneByOne, Settled, ~overlapped, NEW h \in Handlers, NEW k \in CodeKeys,
           \A g \in Handlers \ {h} : ~Busy(g),
           \/ FindUnset(h) \/ FindUser(h) \/ FindMatching(h) \/ StoreEmail(h)
           \/ ReadAttempts(h) \/ Reject(h) \/ LoadEmail(h) \/ Write(h) \/ CountAttempt(h)
    PROVE  SettledAt(h, k)'
<1>1. TypeOK
  BY DEF OneByOne, CodesInv
<1>2. UNCHANGED <<latest, spent, faults>>
  BY DEF FindUnset, FindUser, FindMatching, StoreEmail, ReadAttempts, Reject, LoadEmail,
         Write, CountAttempt, history
<1>3. redis'[k] = redis[k]
  <2>1. CASE StoreEmail(h)
    <3>1. On(h) = "newEmail"
      BY <1>1, <2>1, AtCall DEF StoreEmail
    <3> QED
      BY <1>1, <2>1, <3>1 DEF StoreEmail, Put, TypeOK, CodeKeys, Keys
  <2>2. CASE CountAttempt(h)
    BY <1>1, <2>2 DEF CountAttempt, Put, TypeOK, CodeKeys, Keys
  <2> QED
    BY <2>1, <2>2
    DEF FindUnset, FindUser, FindMatching, ReadAttempts, Reject, LoadEmail, Write
<1>4. CASE handler'[h] = Idle
  <2>1. ~StoreEmail(h) /\ ~Write(h)
    <3>1. handler[h].pc + 1 # 1
      BY <1>1 DEF TypeOK, Handler
    <3> QED
      BY <1>1, <1>4, <3>1, AdvanceMoves DEF StoreEmail, Write, Idle
  <2>2. \/ \E call \in {"unset", "present", "absent", "matches", "attempts", "check",
                        "load"} : At(h, call)
        \/ CountAttempt(h)
    BY <2>1 DEF FindUnset, FindUser, FindMatching, ReadAttempts, Reject, LoadEmail
  <2> QED
    BY <1>2, <1>3, <1>4, <2>2, NothingDone, RefuseSettled
<1>5. CASE handler'[h] # Idle
  <2>1. /\ handler'[h].op = handler[h].op
        /\ handler'[h].accepted = handler[h].accepted
        /\ handler'[h].generated = handler[h].generated
        /\ \/ handler'[h].pc = handler[h].pc
           \/ handler'[h].pc = handler[h].pc + 1 /\ ~Reject(h)
    <3>1. CASE Refuse(h)
      BY <1>1, <1>5, <3>1, RefuseMoves
    <3>2. CASE Reject(h)
      BY <1>1, <1>5, <3>2, RejectMoves DEF Same
    <3>3. CASE ReadAttempts(h)
      <4>1. ~Reject(h)
        BY <3>3 DEF ReadAttempts, Reject, At
      <4> QED
        BY <1>1, <1>5, <3>3, <4>1, ReadMoves DEF Same
    <3>4. CASE LoadEmail(h)
      <4>1. ~Reject(h)
        BY <3>4 DEF LoadEmail, Reject, At
      <4> QED
        BY <1>1, <1>5, <3>4, <4>1, LoadMoves DEF Same
    <3>5. CASE Advance(h) /\ ~Reject(h)
      BY <1>1, <3>5, AdvanceMoves DEF Same
    <3> QED
      BY <3>1, <3>2, <3>3, <3>4, <3>5
      DEF FindUnset, FindUser, FindMatching, StoreEmail, Write, CountAttempt
  <2>2. ASSUME ~Reject(h)
        PROVE  Calls[handler[h].op][handler[h].pc] \notin
                 {<<"issue", k>>, <<"send", k>>, <<"check", k>>}
    <3>1. ~CountAttempt(h)
      BY <1>1, <1>5, RefuseMoves DEF CountAttempt
    <3>2. Calls[handler[h].op][handler[h].pc][1] \notin {"issue", "send", "check"}
      BY <2>2, <3>1 DEF FindUnset, FindUser, FindMatching, StoreEmail, ReadAttempts,
                         LoadEmail, Write, At
    <3> QED
      BY <3>2
  <2> QED
    BY <1>2, <1>3, <2>1, <2>2, SettledKeeps
<1> QED
  BY <1>4, <1>5

LEMMA FaultSettled ==
    ASSUME OneByOne, NEW h \in Handlers, NEW k \in CodeKeys, Fault(h)
    PROVE  SettledAt(h, k)'
<1>1. TypeOK
  BY DEF OneByOne, CodesInv
<1>2. handler'[h] = Idle
  BY <1>1, RefuseMoves DEF Fault
<1>3. faults' # 0
  BY <1>1 DEF Fault, TypeOK
<1> QED
  BY <1>2, <1>3 DEF SettledAt, UnsentHeld, CheckedHeld, Unsent, Past, Busy, Idle

LEMMA TickSettled ==
    ASSUME OneByOne, Settled, Tick
    PROVE  Settled'
<1>1. TypeOK
  BY DEF OneByOne, CodesInv
<1>2. UNCHANGED <<handler, faults, spent, overlapped>>
  BY DEF Tick
<1>3. \A h \in Handlers, k \in CodeKeys, call \in {"issue", "send", "check", "remove"} :
        Past(h, call, k)' <=> Past(h, call, k)
  BY <1>2 DEF Past, Busy
<1>4. ASSUME NEW k \in CodeKeys
      PROVE  redis'[k] = Absent \/ (redis'[k].value = redis[k].value /\ redis[k].left > 1)
  <2>1. k \in Keys /\ redis[k] \in Kept
    BY <1>1 DEF TypeOK, Keys
  <2>2. CASE redis[k].left <= 1
    BY <2>1, <2>2 DEF Tick
  <2>3. CASE ~(redis[k].left <= 1)
    BY <2>1, <2>3, CodesAssumption DEF Tick, Kept
  <2> QED
    BY <2>2, <2>3
<1>5. ASSUME ~overlapped, NEW h \in Handlers, NEW k \in CodeKeys
      PROVE  UnsentHeld(h, k)' /\ CheckedHeld(h, k)'
  <2>1. UnsentHeld(h, k) /\ CheckedHeld(h, k)
    BY <1>5 DEF Settled
  <2>2. Absent.value = NoCode
    BY DEF Absent
  <2>3. redis[k] = Absent => redis'[k] = Absent
    BY <1>1 DEF Tick, Absent, TypeOK, Keys
  <2> QED
    BY <1>2, <1>3, <1>4, <2>1, <2>2, <2>3 DEF UnsentHeld, CheckedHeld, Unsent
<1>6. ASSUME ~overlapped, faults = 0, NEW k \in CodeKeys
      PROVE  Works(k)'
  <2>1. Works(k)
    BY <1>6 DEF Settled
  <2>2. latest'[k] = IF Expires(k) /\ redis[k].value = latest[k] THEN NoCode ELSE latest[k]
    BY DEF Tick
  <2>3. CASE latest'[k] = NoCode
    BY <2>3 DEF Works
  <2>4. CASE latest'[k] # NoCode
    <3>1. latest'[k] = latest[k] /\ ~(Expires(k) /\ redis[k].value = latest[k])
      BY <2>2, <2>4
    <3>2. CASE redis[k].value = latest[k]
      <4>1. k \in Keys /\ redis[k] \in Kept /\ redis[k].value # NoCode
        BY <1>1, <2>4, <3>1, <3>2 DEF TypeOK, Keys
      <4>2. redis[k].left > 0 /\ redis[k].left # 1
        BY <3>1, <3>2, <4>1 DEF OneByOne, Lasting, Expires
      <4>3. redis[k].left \in Nat
        BY <4>1, CodesAssumption DEF Kept
      <4>4. redis'[k].value = redis[k].value
        BY <4>1, <4>2, <4>3 DEF Tick, Kept
      <4> QED
        BY <3>1, <3>2, <4>4 DEF Works
    <3>3. CASE redis[k].value # latest[k]
      <4>1. \A h \in Handlers : Unsent(h, k)' <=> Unsent(h, k)
        BY <1>3 DEF Unsent
      <4> QED
        BY <1>2, <1>3, <2>1, <3>1, <3>3, <4>1 DEF Works
    <3> QED
      BY <3>2, <3>3
  <2> QED
    BY <2>3, <2>4
<1> QED
  BY <1>2, <1>5, <1>6 DEF Settled

LEMMA BeginSettled ==
    ASSUME OneByOne, Settled, NEW h \in Handlers, NEW op \in Endpoints,
           NEW c \in Codes \cup {NoCode}, NEW e \in Emails \cup {0}, Begin(h, op, c, e),
           ~overlapped' => \A g \in Handlers : ~Busy(g)
    PROVE  Settled'
<1> SUFFICES ASSUME ~overlapped' PROVE Settled'
  BY DEF Settled
<1>1. TypeOK /\ \A g \in Handlers : ~Busy(g)
  BY DEF OneByOne, CodesInv
<1>2. handler'[h].pc = 1 /\ Others(h)
  BY <1>1, BeginMoves
<1>3. \A g \in Handlers, k \in CodeKeys, call \in {"issue", "send", "check", "remove"} :
        ~Past(g, call, k)'
  BY <1>1, <1>2 DEF Past, Busy, Others
<1>4. UNCHANGED <<redis, latest, spent, faults, overlapped>>
  BY <1>1 DEF Begin
<1>5. \A k \in CodeKeys : faults = 0 => Works(k)'
  BY <1>1, <1>4 DEF Settled, Works, Unsent, Past
<1> QED
  BY <1>3, <1>4, <1>5 DEF Settled, UnsentHeld, CheckedHeld, Unsent

LEMMA NextSettled == OneByOne /\ Settled /\ OneByOne' /\ [Next]_vars => Settled'
<1> SUFFICES ASSUME OneByOne, Settled, OneByOne', [Next]_vars PROVE Settled'
  OBVIOUS
<1>1. CodesInv'
  BY DEF OneByOne
<1>2. ASSUME NEW h \in Handlers, NEW op \in Endpoints,
             NEW c \in Codes \cup {NoCode}, NEW e \in Emails \cup {0},
             Begin(h, op, c, e)
      PROVE  Settled'
  BY <1>1, <1>2, BeginOneByOne, BeginSettled
<1>3. ASSUME NEW h \in Handlers, Step(h) \/ Fault(h) PROVE Settled'
  <2>1. ASSUME ~overlapped, NEW k \in CodeKeys PROVE SettledAt(h, k)'
    <3>1. \A g \in Handlers \ {h} : ~Busy(g)
      BY <1>3, <2>1, AloneStep
    <3> QED
      BY <1>3, <2>1, <3>1, PlainSettled, IssueSettled, SendSettled, AcceptSettled,
         RemoveSettled, FinishSettled, FaultSettled DEF Step
  <2> QED
    BY <1>3, <2>1, SettledStep
<1>4. CASE UNCHANGED <<redis, latest, spent, faults, overlapped, handler>>
  <2>1. ASSUME NEW h \in Handlers, NEW k \in CodeKeys, NEW call
        PROVE  Past(h, call, k)' <=> Past(h, call, k)
    BY <1>4 DEF Past, Busy
  <2>2. ASSUME NEW h \in Handlers, NEW k \in CodeKeys
        PROVE  Unsent(h, k)' <=> Unsent(h, k)
    BY <2>1 DEF Unsent
  <2>3. ASSUME ~overlapped, NEW h \in Handlers, NEW k \in CodeKeys
        PROVE  UnsentHeld(h, k)' /\ CheckedHeld(h, k)'
    BY <1>4, <2>1, <2>2, <2>3 DEF Settled, UnsentHeld, CheckedHeld
  <2>4. ASSUME ~overlapped, faults = 0, NEW k \in CodeKeys PROVE Works(k)'
    BY <1>4, <2>1, <2>2, <2>4 DEF Settled, Works
  <2> QED
    BY <1>4, <2>3, <2>4 DEF Settled
<1>5. CASE Register
  BY <1>4, <1>5 DEF Register, history
<1>6. CASE Tick
  BY <1>6, TickSettled
<1>7. CASE UNCHANGED vars
  BY <1>4, <1>7 DEF vars, history
<1> QED
  BY <1>2, <1>3, <1>5, <1>6, <1>7 DEF Next

LEMMA InitSettled == Init => Settled
<1> SUFFICES ASSUME Init PROVE Settled
  OBVIOUS
<1>1. \A k \in CodeKeys : latest[k] = NoCode
  BY DEF Init
<1>2. \A h \in Handlers : ~Busy(h)
  BY DEF Init, Idle, Busy
<1> QED
  BY <1>1, <1>2 DEF Settled, UnsentHeld, CheckedHeld, Works, Unsent, Past

\* As long as requests come one after the other and nothing fails, the code
\* handed out last works until it is used or its time is over, for any times
\* to live, limit and number of codes.
THEOREM LastCodeWorks == Spec => []LastSentWorks
<1>1. Init => OneByOne /\ Settled
  BY InitOneByOne, InitSettled
<1>2. OneByOne /\ Settled /\ [Next]_vars => (OneByOne /\ Settled)'
  BY NextOneByOne, NextSettled
<1>3. OneByOne /\ Settled => LastSentWorks
  BY DEF Settled, Works, LastSentWorks, Unsent, Past
<1> QED
  BY <1>1, <1>2, <1>3, PTL DEF Spec

-----------------------------------------------------------------------------
(* The verified address got the code.  A code a user knows is stored with   *)
(* the address it was sent to, because it is sent after both were stored.   *)

EmailFlow == {"changeEmailInitiate", "verifyEmailChange"}
PairKept ==
    redis["signupEmailOtp"].value \in known \ {NoCode} =>
      redis["newEmail"].value \in {0, redis["signupEmailOtp"].to}
\* Before the address is stored the code is not known, and is for that
\* address; a verified code is for the address stored with it.
Pairing(h) ==
    /\ handler[h].op = "changeEmailInitiate" /\ handler[h].pc = 3 =>
         /\ redis["signupEmailOtp"].value \notin known \ {NoCode}
         /\ redis["signupEmailOtp"].value # NoCode =>
              redis["signupEmailOtp"].to = handler[h].email
    /\ handler[h].op = "changeEmailInitiate" /\ handler[h].pc = 4 =>
         /\ redis["newEmail"].value \in {0, handler[h].email}
         /\ redis["signupEmailOtp"].value # NoCode =>
              redis["signupEmailOtp"].to = handler[h].email
    /\ handler[h].op = "verifyEmailChange" /\ handler[h].pc = 3 =>
         redis["newEmail"].value \in {0, handler[h].to}
Loading(h) ==
    handler[h].loaded # 0 =>
      /\ handler[h].op = "verifyEmailChange" /\ handler[h].pc > 3
      /\ handler[h].to = handler[h].loaded
Pairs == ~overlapped => PairKept /\ \A h \in Handlers : Pairing(h) /\ Loading(h)

LEMMA EmailCalls ==
    ASSUME TypeOK, NEW h \in Handlers, NEW call, At(h, call)
    PROVE  /\ handler[h].op = "changeEmailInitiate" =>
                \/ handler[h].pc = 1 /\ call = "matches"
                \/ handler[h].pc = 2 /\ call = "issue" /\ On(h) = "signupEmailOtp"
                \/ handler[h].pc = 3 /\ call = "store"
                \/ handler[h].pc = 4 /\ call = "send"
           /\ handler[h].op = "verifyEmailChange" =>
                \/ handler[h].pc = 1 /\ call = "attempts"
                \/ handler[h].pc = 2 /\ call = "check" /\ On(h) = "signupEmailOtp"
                \/ handler[h].pc = 3 /\ call = "load"
                \/ handler[h].pc \in {4, 5} /\ call = "remove"
           /\ handler[h].op \notin EmailFlow =>
                On(h) \notin {"signupEmailOtp", "newEmail"} /\ call \notin {"store", "load"}
<1>1. /\ handler[h].pc \in 1..Len(Calls[handler[h].op])
      /\ Calls[handler[h].op][handler[h].pc] = <<call, On(h)>>
      /\ Order(handler[h].op, Calls[handler[h].op])
  BY OnCall
<1>2. \A i \in 1..Len(ChangeEmailInitiate) : \A on :
        ChangeEmailInitiate[i] = <<call, on>> =>
          \/ i = 1 /\ call = "matches"
          \/ i = 2 /\ call = "issue" /\ on = "signupEmailOtp"
          \/ i = 3 /\ call = "store"
          \/ i = 4 /\ call = "send"
  BY DEF ChangeEmailInitiate
<1>3. \A i \in 1..Len(VerifyEmailChange) : \A on :
        VerifyEmailChange[i] = <<call, on>> =>
          \/ i = 1 /\ call = "attempts"
          \/ i = 2 /\ call = "check" /\ on = "signupEmailOtp"
          \/ i = 3 /\ call = "load"
          \/ i \in {4, 5} /\ call = "remove"
  BY DEF VerifyEmailChange
<1>4. /\ Calls["changeEmailInitiate"] = ChangeEmailInitiate
      /\ Calls["verifyEmailChange"] = VerifyEmailChange
  BY DEF Calls
<1>5. ASSUME handler[h].op \notin EmailFlow
      PROVE  On(h) \notin {"signupEmailOtp", "newEmail"} /\ call \notin {"store", "load"}
  <2>1. On(h) \notin {"signupEmailOtp", "newEmail"}
    <3>1. \A i \in 1..Len(Calls[handler[h].op]) :
            Calls[handler[h].op][i][2] \in {"signupEmailOtp", "newEmail"} =>
              handler[h].op \in EmailFlow
      BY <1>1 DEF Order, EmailFlow
    <3> QED
      BY <1>1, <1>5, <3>1
  <2> QED
    BY <2>1, AtCall
<1> QED
  BY <1>1, <1>2, <1>3, <1>4, <1>5

\* The two keys are written by the two endpoints of the flow alone.
LEMMA EmailKeys ==
    ASSUME OneByOne, NEW h \in Handlers, Step(h) \/ Fault(h),
           handler[h].op \notin EmailFlow \/ ~(Issue(h) \/ StoreEmail(h) \/ Remove(h))
    PROVE  /\ redis'["signupEmailOtp"] = redis["signupEmailOtp"]
           /\ redis'["newEmail"] = redis["newEmail"]
<1>1. TypeOK /\ "signupEmailOtp" \in Keys /\ "newEmail" \in Keys
  BY DEF OneByOne, CodesInv, Keys, CodeKeys
<1>2. CASE UNCHANGED redis
  BY <1>2
<1>3. CASE Issue(h)
  <2>1. On(h) \notin {"signupEmailOtp", "newEmail"}
    BY <1>1, <1>3, EmailCalls DEF Issue
  <2>2. \A k \in Keys \ {On(h)} : redis'[k] = redis[k]
    BY <1>1, <1>3, IssueMoves
  <2> QED
    BY <1>1, <2>1, <2>2
<1>4. CASE StoreEmail(h)
  BY <1>1, <1>4, EmailCalls DEF StoreEmail
<1>5. CASE CountAttempt(h)
  BY <1>1, <1>5 DEF CountAttempt, Put, TypeOK
<1>6. CASE Remove(h)
  <2>1. On(h) \notin {"signupEmailOtp", "newEmail"}
    BY <1>1, <1>6, EmailCalls DEF Remove
  <2> QED
    BY <1>1, <1>6, <2>1 DEF Remove, TypeOK
<1> QED
  BY <1>2, <1>3, <1>4, <1>5, <1>6
  DEF Step, FindUnset, FindUser, FindMatching, Send, ReadAttempts, Accept, Reject,
      LoadEmail, Write, Finish, Fault

\* What a step of h shows, the other requests being idle.
PairsAt(h) == PairKept /\ Pairing(h) /\ Loading(h)
LEMMA PairsStep ==
    ASSUME OneByOne, Pairs, NEW h \in Handlers, Step(h) \/ Fault(h),
           ~overlapped => PairsAt(h)'
    PROVE  Pairs'
<1>1. TypeOK
  BY DEF OneByOne, CodesInv
<1>2. Others(h) /\ UNCHANGED overlapped
  BY <1>1, StepMoves
<1>3. ASSUME ~overlapped, NEW g \in Handlers \ {h} PROVE Pairing(g)' /\ Loading(g)'
  <2>1. handler'[g] = handler[g] /\ handler[g].op = "none"
    BY <1>2, <1>3, AloneStep DEF Others, Busy
  <2>2. handler[g].loaded = 0
    BY <1>3, <2>1 DEF Pairs, Loading
  <2> QED
    BY <2>1, <2>2 DEF Pairing, Loading
<1> QED
  BY <1>2, <1>3 DEF Pairs, PairsAt

\* Only a Send makes codes known; a code it makes known was issued by h.
LEMMA KnownMoves ==
    ASSUME OneByOne, NEW h \in Handlers, Step(h) \/ Fault(h)
    PROVE  known' = known \/ (Send(h) /\ known' = known \cup {handler[h].generated})
<1>1. CASE Send(h)
  BY <1>1 DEF Send
<1>2. CASE ~Send(h)
  BY <1>2 DEF Step, FindUnset, FindUser, FindMatching, Issue, StoreEmail, ReadAttempts,
         Accept, Reject, CountAttempt, LoadEmail, Write, Remove, Finish, Fault, history
<1> QED
  BY <1>1, <1>2

LEMMA EndPairs ==
    ASSUME OneByOne, Pairs, ~overlapped, NEW h \in Handlers, Step(h) \/ Fault(h),
           handler'[h] = Idle
    PROVE  PairsAt(h)'
<1>1. TypeOK
  BY DEF OneByOne, CodesInv
<1>2. ~Issue(h) /\ ~StoreEmail(h) /\ ~Remove(h) /\ ~Send(h)
  <2>1. handler[h].pc + 1 # 1 /\ Idle.pc = 1
    BY <1>1 DEF TypeOK, Handler, Idle
  <2> QED
    BY <1>1, <2>1, AdvanceMoves, IssueMoves DEF StoreEmail, Remove, Send
<1>3. /\ redis'["signupEmailOtp"] = redis["signupEmailOtp"]
      /\ redis'["newEmail"] = redis["newEmail"] /\ known' = known
  BY <1>2, EmailKeys, KnownMoves
<1> QED
  BY <1>3 DEF Pairs, PairsAt, PairKept, Pairing, Loading, Idle

\* Steps of other endpoints: what they make known is under another key.
LEMMA OtherPairs ==
    ASSUME OneByOne, Pairs, ~overlapped, NEW h \in Handlers, Step(h) \/ Fault(h),
           handler'[h] # Idle, handler[h].op \notin EmailFlow
    PROVE  PairsAt(h)'
<1>1. TypeOK
  BY DEF OneByOne, CodesInv
<1>2. /\ redis'["signupEmailOtp"] = redis["signupEmailOtp"]
      /\ redis'["newEmail"] = redis["newEmail"]
  BY EmailKeys
<1>3. handler'[h].op = handler[h].op
  BY <1>1, StepMoves
<1>4. handler'[h].loaded = handler[h].loaded
  <2>1. ~LoadEmail(h)
    BY <1>1, EmailCalls DEF LoadEmail
  <2>2. ~Refuse(h)
    BY <1>1, RefuseMoves
  <2> QED
    <3>1. \/ Advance(h) \/ Issue(h) \/ Accept(h) \/ Reject(h) \/ ReadAttempts(h)
      BY <2>1, <2>2
      DEF Step, FindUnset, FindUser, FindMatching, StoreEmail, Send, CountAttempt, Write,
          Remove, Finish, Fault
    <3>2. CASE Advance(h)
      BY <1>1, <3>2, AdvanceMoves
    <3>3. CASE Issue(h)
      BY <1>1, <3>3, IssueMoves
    <3>4. CASE Accept(h)
      BY <1>1, <3>4, AcceptMoves
    <3>5. CASE Reject(h)
      BY <1>1, <3>5, RejectMoves
    <3>6. CASE ReadAttempts(h)
      BY <1>1, <3>6, ReadMoves
    <3> QED
      BY <3>1, <3>2, <3>3, <3>4, <3>5, <3>6
<1>5. PairKept'
  <2>1. ASSUME redis["signupEmailOtp"].value # NoCode, Send(h)
        PROVE  redis["signupEmailOtp"].value # handler[h].generated
    <3> SUFFICES ASSUME redis["signupEmailOtp"].value = handler[h].generated PROVE FALSE
      OBVIOUS
    <3>1. "signupEmailOtp" \in CodeKeys
      BY DEF CodeKeys
    <3>2. Past(h, "issue", "signupEmailOtp")
      BY <2>1, <3>1 DEF OneByOne, Own
    <3>3. PICK i \in 1..Len(Calls[handler[h].op]) :
            Calls[handler[h].op][i] = <<"issue", "signupEmailOtp">>
      BY <3>2 DEF Past
    <3>4. Order(handler[h].op, Calls[handler[h].op])
      BY <1>1, <2>1, OnCall DEF Send
    <3>5. Calls[handler[h].op][i][2] = "signupEmailOtp"
      BY <3>3
    <3> QED
      BY <3>4, <3>5 DEF Order, EmailFlow
  <2> QED
    BY <1>2, <2>1, KnownMoves DEF Pairs, PairKept
<1>6. handler[h].loaded = 0
  BY DEF Pairs, Loading, EmailFlow
<1> QED
  BY <1>3, <1>4, <1>5, <1>6 DEF PairsAt, Pairing, Loading, EmailFlow

\* The steps of changeEmailInitiate.
LEMMA InitiatePairs ==
    ASSUME OneByOne, Pairs, ~overlapped, NEW h \in Handlers, Step(h),
           handler'[h] # Idle, handler[h].op = "changeEmailInitiate"
    PROVE  PairsAt(h)'
<1>1. TypeOK /\ issued \in Nat
  BY DEF OneByOne, CodesInv, TypeOK
<1>2. ~Refuse(h)
  BY <1>1, RefuseMoves
<1>3. handler[h].loaded = 0 /\ handler[h].email \in Emails \cup {0}
  BY <1>1 DEF Pairs, Loading, TypeOK, Handler
<1>4. FindMatching(h) \/ Issue(h) \/ StoreEmail(h) \/ Send(h)
  <2>1. \A call : At(h, call) => call \in {"matches", "issue", "store", "send"}
    BY <1>1, EmailCalls
  <2> QED
    BY <1>2, <2>1
    DEF Step, FindUnset, FindUser, ReadAttempts, Accept, Reject, CountAttempt, LoadEmail,
        Write, Remove, Finish
<1>5. CASE FindMatching(h)
  <2>1. handler[h].pc = 1 /\ Advance(h)
    BY <1>1, <1>2, <1>5, EmailCalls DEF FindMatching
  <2>2. /\ handler'[h].pc = 2 /\ handler'[h].loaded = 0
        /\ handler'[h].op = "changeEmailInitiate"
    BY <1>1, <1>3, <2>1, AdvanceMoves DEF Same
  <2>3. UNCHANGED <<redis, known>>
    BY <1>5 DEF FindMatching
  <2> QED
    BY <2>2, <2>3 DEF Pairs, PairsAt, PairKept, Pairing, Loading
<1>6. CASE Issue(h)
  <2>1. handler[h].pc = 2 /\ On(h) = "signupEmailOtp"
    BY <1>1, <1>6, EmailCalls DEF Issue
  <2>2. /\ handler'[h].pc = 3 /\ handler'[h].loaded = 0
        /\ handler'[h].op = "changeEmailInitiate" /\ handler'[h].email = handler[h].email
    <3>1. /\ handler'[h].pc = handler[h].pc + 1 /\ handler'[h].loaded = handler[h].loaded
          /\ Same(handler'[h], handler[h])
      BY <1>1, <1>6, IssueMoves
    <3> QED
      BY <1>3, <2>1, <3>1 DEF Same
  <2>3. redis'[On(h)] = [value |-> issued + 1, left |-> TTL(On(h)),
                         path |-> Append(handler[h].path, handler[h].op),
                         to |-> handler[h].email]
    BY <1>1, <1>6, IssueMoves
  <2>4. /\ redis'["signupEmailOtp"].value = issued + 1
        /\ redis'["signupEmailOtp"].to = handler[h].email
    BY <2>1, <2>3
  <2>5. known' = known /\ issued + 1 \notin known
    BY <1>1, <1>6 DEF Issue, OneByOne, Told
  <2> QED
    BY <2>2, <2>4, <2>5 DEF PairsAt, PairKept, Pairing, Loading
<1>7. CASE StoreEmail(h)
  <2>1. handler[h].pc = 3 /\ On(h) = "newEmail"
    BY <1>1, <1>7, EmailCalls, AtCall DEF StoreEmail
  <2>2. /\ handler'[h].pc = 4 /\ handler'[h].loaded = 0
        /\ handler'[h].op = "changeEmailInitiate" /\ handler'[h].email = handler[h].email
    BY <1>1, <1>3, <1>7, <2>1, AdvanceMoves DEF StoreEmail, Same
  <2>3. redis'["newEmail"] = [value |-> handler[h].email, left |-> TTL("newEmail"),
                              path |-> <<>>, to |-> 0]
        /\ redis'["signupEmailOtp"] = redis["signupEmailOtp"]
    BY <1>1, <1>7, <2>1 DEF StoreEmail, Put, TypeOK, Keys, CodeKeys
  <2>4. redis'["newEmail"].value = handler[h].email
    BY <2>3
  <2>5. known' = known
    BY <1>7 DEF StoreEmail
  <2> QED
    BY <2>1, <2>2, <2>3, <2>4, <2>5 DEF Pairs, PairsAt, PairKept, Pairing, Loading
<1>8. CASE Send(h)
  <2>1. handler[h].pc = 4
    BY <1>1, <1>8, EmailCalls DEF Send
  <2>2. /\ handler'[h].pc = 5 /\ handler'[h].loaded = 0
        /\ handler'[h].op = "changeEmailInitiate"
    BY <1>1, <1>3, <1>8, <2>1, AdvanceMoves DEF Send, Same
  <2>3. UNCHANGED redis
    BY <1>8 DEF Send
  <2> QED
    BY <2>1, <2>2, <2>3 DEF Pairs, PairsAt, PairKept, Pairing, Loading
<1> QED
  BY <1>4, <1>5, <1>6, <1>7, <1>8

\* The steps of verifyEmailChange.
LEMMA VerifyPairs ==
    ASSUME OneByOne, Pairs, ~overlapped, NEW h \in Handlers, Step(h),
           handler'[h] # Idle, handler[h].op = "verifyEmailChange"
    PROVE  PairsAt(h)'
<1>1. TypeOK /\ handler[h].pc \in Nat
  BY DEF OneByOne, CodesInv, TypeOK, Handler
<1>2. ~Refuse(h)
  BY <1>1, RefuseMoves
<1>3. ReadAttempts(h) \/ Accept(h) \/ LoadEmail(h) \/ Remove(h)
  <2>1. \A call : At(h, call) => call \in {"attempts", "check", "load", "remove"}
    BY <1>1, EmailCalls
  <2>2. ~Reject(h)
    BY <1>2 DEF Reject
  <2> QED
    BY <1>2, <2>1, <2>2
    DEF Step, FindUnset, FindUser, FindMatching, Issue, Send, StoreEmail, CountAttempt,
        Write, Finish
<1>4. known' = known
  BY <1>3 DEF ReadAttempts, Accept, LoadEmail, Remove
<1>5. CASE ReadAttempts(h)
  <2>1. handler[h].pc = 1
    BY <1>1, <1>5, EmailCalls DEF ReadAttempts
  <2>2. /\ handler'[h].pc = 2 /\ handler'[h].loaded = handler[h].loaded
        /\ handler'[h].op = "verifyEmailChange"
    BY <1>1, <1>5, <2>1, ReadMoves DEF Same
  <2>3. UNCHANGED redis
    BY <1>5 DEF ReadAttempts
  <2>4. handler[h].loaded = 0
    BY <2>1 DEF Pairs, Loading
  <2> QED
    BY <1>4, <2>2, <2>3, <2>4 DEF Pairs, PairsAt, PairKept, Pairing, Loading
<1>6. CASE Accept(h)
  <2>1. handler[h].pc = 2 /\ On(h) = "signupEmailOtp"
    BY <1>1, <1>6, EmailCalls DEF Accept
  <2>2. /\ handler'[h].pc = 3 /\ handler'[h].loaded = handler[h].loaded
        /\ handler'[h].op = "verifyEmailChange"
        /\ handler'[h].to = redis["signupEmailOtp"].to
    BY <1>1, <1>6, <2>1, AcceptMoves
  <2>3. UNCHANGED redis
    BY <1>6 DEF Accept
  <2>4. handler[h].loaded = 0
    BY <2>1 DEF Pairs, Loading
  <2>5. redis["signupEmailOtp"].value \in known \ {NoCode}
    BY <1>6, <2>1 DEF Accept, Valid, OneByOne, Told
  <2> QED
    BY <1>4, <2>2, <2>3, <2>4, <2>5 DEF Pairs, PairsAt, PairKept, Pairing, Loading
<1>7. CASE LoadEmail(h)
  <2>1. handler[h].pc = 3 /\ On(h) = "newEmail"
    BY <1>1, <1>7, EmailCalls, AtCall DEF LoadEmail
  <2>2. /\ handler'[h].pc = 4 /\ handler'[h].loaded = redis["newEmail"].value
        /\ handler'[h].op = "verifyEmailChange"
        /\ handler'[h].to = handler[h].to
    BY <1>1, <1>7, <2>1, LoadMoves DEF Same
  <2>3. UNCHANGED redis
    BY <1>7 DEF LoadEmail
  <2>4. redis["newEmail"].value \in {0, handler[h].to}
    BY <2>1 DEF Pairs, Pairing
  <2> QED
    BY <1>4, <2>2, <2>3, <2>4 DEF Pairs, PairsAt, PairKept, Pairing, Loading
<1>8. CASE Remove(h)
  <2>1. handler[h].pc \in {4, 5}
    BY <1>1, <1>8, EmailCalls DEF Remove
  <2>2. /\ handler'[h].pc = handler[h].pc + 1 /\ handler'[h].loaded = handler[h].loaded
        /\ handler'[h].op = "verifyEmailChange" /\ handler'[h].to = handler[h].to
    BY <1>1, <1>8, AdvanceMoves DEF Remove, Same
  <2>3. \A k \in Keys : redis'[k] = redis[k] \/ redis'[k].value = 0
    BY <1>1, <1>8 DEF Remove, TypeOK, Absent, NoCode
  <2>4. PairKept'
    <3>1. "signupEmailOtp" \in Keys /\ "newEmail" \in Keys
      BY DEF Keys, CodeKeys
    <3> QED
      BY <1>4, <2>3, <3>1 DEF Pairs, PairKept, NoCode
  <2>5. Pairing(h)'
    BY <2>1, <2>2 DEF Pairing
  <2>6. Loading(h)'
    BY <2>1, <2>2 DEF Pairs, Loading
  <2> QED
    BY <2>4, <2>5, <2>6 DEF PairsAt
<1> QED
  BY <1>3, <1>5, <1>6, <1>7, <1>8

LEMMA TickPairs ==
    ASSUME OneByOne, Pairs, Tick
    PROVE  Pairs'
<1>1. TypeOK
  BY DEF OneByOne, CodesInv
<1>2. UNCHANGED <<handler, known, overlapped>>
  BY DEF Tick
<1>3. \A k \in Keys :
        \/ redis'[k].value = 0
        \/ redis'[k].value = redis[k].value /\ redis'[k].to = redis[k].to
  BY <1>1 DEF Tick, Absent, NoCode, TypeOK, Kept
<1>4. "signupEmailOtp" \in Keys /\ "newEmail" \in Keys
  BY DEF Keys, CodeKeys
<1>5. PairKept => PairKept'
  BY <1>2, <1>3, <1>4 DEF PairKept, NoCode
<1>6. ASSUME NEW h \in Handlers, Pairing(h) PROVE Pairing(h)'
  BY <1>2, <1>3, <1>4, <1>6 DEF Pairing, NoCode
<1>7. ASSUME NEW h \in Handlers, Loading(h) PROVE Loading(h)'
  BY <1>2, <1>7 DEF Loading
<1> QED
  BY <1>2, <1>5, <1>6, <1>7 DEF Pairs

LEMMA BeginPairs ==
    ASSUME OneByOne, Pairs, NEW h \in Handlers, NEW op \in Endpoints,
           NEW c \in Codes \cup {NoCode}, NEW e \in Emails \cup {0}, Begin(h, op, c, e),
           ~overlapped' => \A g \in Handlers : ~Busy(g)
    PROVE  Pairs'
<1> SUFFICES ASSUME ~overlapped' PROVE Pairs'
  BY DEF Pairs
<1>1. TypeOK /\ \A g \in Handlers : ~Busy(g)
  BY DEF OneByOne, CodesInv
<1>2. handler'[h].pc = 1 /\ handler'[h].loaded = 0 /\ Others(h)
  BY <1>1, BeginMoves
<1>3. UNCHANGED <<redis, known, overlapped>>
  BY <1>1 DEF Begin
<1>4. ASSUME NEW g \in Handlers \ {h} PROVE Pairing(g)' /\ Loading(g)'
  <2>1. handler'[g] = handler[g]
    BY <1>2 DEF Others
  <2> QED
    BY <1>3, <2>1 DEF Pairs, Pairing, Loading
<1>5. Pairing(h)' /\ Loading(h)'
  BY <1>2 DEF Pairing, Loading
<1> QED
  BY <1>3, <1>4, <1>5 DEF Pairs, PairKept

LEMMA NextPairs == OneByOne /\ Pairs /\ OneByOne' /\ [Next]_vars => Pairs'
<1> SUFFICES ASSUME OneByOne, Pairs, OneByOne', [Next]_vars PROVE Pairs'
  OBVIOUS
<1>1. CodesInv'
  BY DEF OneByOne
<1>2. ASSUME NEW h \in Handlers, NEW op \in Endpoints,
             NEW c \in Codes \cup {NoCode}, NEW e \in Emails \cup {0},
             Begin(h, op, c, e)
      PROVE  Pairs'
  BY <1>1, <1>2, BeginOneByOne, BeginPairs
<1>3. ASSUME NEW h \in Handlers, Step(h) \/ Fault(h) PROVE Pairs'
  <2>1. TypeOK
    BY DEF OneByOne, CodesInv
  <2>2. Fault(h) => handler'[h] = Idle
    BY <2>1, RefuseMoves DEF Fault
  <2>3. ~overlapped => PairsAt(h)'
    BY <1>3, <2>2, EndPairs, OtherPairs, InitiatePairs, VerifyPairs DEF EmailFlow
  <2> QED
    BY <1>3, <2>3, PairsStep
<1>4. CASE UNCHANGED <<redis, known, overlapped, handler>>
  <2>1. ASSUME NEW h \in Handlers PROVE (Pairing(h) => Pairing(h)') /\ (Loading(h) => Loading(h)')
    BY <1>4 DEF Pairing, Loading
  <2> QED
    BY <1>4, <2>1 DEF Pairs, PairKept
<1>5. CASE Register
  BY <1>4, <1>5 DEF Register, history
<1>6. CASE Tick
  BY <1>6, TickPairs
<1>7. CASE UNCHANGED vars
  BY <1>4, <1>7 DEF vars, history
<1> QED
  BY <1>2, <1>3, <1>5, <1>6, <1>7 DEF Next

LEMMA InitPairs == Init => Pairs
<1> SUFFICES ASSUME Init PROVE Pairs
  OBVIOUS
<1>1. known = {}
  BY DEF Init
<1>2. \A h \in Handlers : handler[h].op = "none" /\ handler[h].loaded = 0
  BY DEF Init, Idle
<1> QED
  BY <1>1, <1>2 DEF Pairs, PairKept, Pairing, Loading

\* As long as requests come one after the other, the address verifyEmailChange
\* reports as verified is the one its code was sent to, whatever fails or
\* expires between the two keys.
THEOREM VerifiedEmailIsTheCodes == Spec => []VerifiedEmailGotTheCode
<1>1. Init => OneByOne /\ Pairs
  BY InitOneByOne, InitPairs
<1>2. OneByOne /\ Pairs /\ [Next]_vars => (OneByOne /\ Pairs)'
  BY NextOneByOne, NextPairs
<1>3. OneByOne /\ Pairs => VerifiedEmailGotTheCode
  BY DEF Pairs, Loading, VerifiedEmailGotTheCode
<1> QED
  BY <1>1, <1>2, <1>3, PTL DEF Spec

-----------------------------------------------------------------------------
(* Wrong codes stop a signup.  The stored counter covers the wrong guesses  *)
(* made against the stored code and outlives it, except while the verified  *)
(* code itself is about to be removed.                                      *)

Counter ==
    /\ redis["signupOtpAttempts"].value >= wrong
    /\ redis["signupOtpAttempts"].left >= redis["otp"].left
Verified(h) == handler[h].op = "signupVerifyOtp" /\ handler[h].pc = 4
Judging(h) == handler[h].op = "signupVerifyOtp" /\ handler[h].pc = 2
Guessed == ~overlapped /\ faults = 0 /\ redis["otp"].value # NoCode /\ wrong > 0
Counted ==
    Guessed =>
      /\ Counter \/ \E h \in Handlers : Verified(h)
      /\ \A h \in Handlers : Judging(h) => wrong <= handler[h].attempts

LEMMA SignupCalls ==
    ASSUME TypeOK, NEW h \in Handlers, NEW call, At(h, call)
    PROVE  /\ handler[h].op = "signupVerifyOtp" =>
                \/ handler[h].pc = 1 /\ call = "attempts" /\ On(h) = "signupOtpAttempts"
                \/ handler[h].pc = 2 /\ call = "check" /\ On(h) = "otp"
                \/ handler[h].pc = 3 /\ call = "remove" /\ On(h) = "signupOtpAttempts"
                \/ handler[h].pc = 4 /\ call = "remove" /\ On(h) = "otp"
                \/ handler[h].pc = 5 /\ call = "write"
           /\ handler[h].op # "signupVerifyOtp" => On(h) # "signupOtpAttempts"
<1>1. /\ handler[h].pc \in 1..Len(Calls[handler[h].op])
      /\ Calls[handler[h].op][handler[h].pc] = <<call, On(h)>>
      /\ Order(handler[h].op, Calls[handler[h].op])
  BY OnCall
<1>2. \A i \in 1..Len(SignupVerifyOtp) : \A on :
        SignupVerifyOtp[i] = <<call, on>> =>
          \/ i = 1 /\ call = "attempts" /\ on = "signupOtpAttempts"
          \/ i = 2 /\ call = "check" /\ on = "otp"
          \/ i = 3 /\ call = "remove" /\ on = "signupOtpAttempts"
          \/ i = 4 /\ call = "remove" /\ on = "otp"
          \/ i = 5 /\ call = "write"
  BY DEF SignupVerifyOtp
<1>3. Calls["signupVerifyOtp"] = SignupVerifyOtp
  BY DEF Calls
<1>4. handler[h].op # "signupVerifyOtp" => On(h) # "signupOtpAttempts"
  <2>1. \A i \in 1..Len(Calls[handler[h].op]) :
          Calls[handler[h].op][i][2] = "signupOtpAttempts" => handler[h].op = "signupVerifyOtp"
    BY <1>1 DEF Order
  <2> QED
    BY <1>1, <2>1
<1> QED
  BY <1>1, <1>2, <1>3, <1>4

LEMMA CountedStep ==
    ASSUME OneByOne, Counted, NEW h \in Handlers, Step(h) \/ Fault(h),
           Guessed' =>
             /\ (Counter \/ Verified(h))'
             /\ Judging(h)' => (wrong <= handler[h].attempts)'
    PROVE  Counted'
<1>1. TypeOK
  BY DEF OneByOne, CodesInv
<1>2. Others(h) /\ UNCHANGED overlapped
  BY <1>1, StepMoves
<1>3. ASSUME ~overlapped, NEW g \in Handlers \ {h} PROVE ~Judging(g)'
  <2>1. handler'[g] = handler[g] /\ handler[g].op = "none"
    BY <1>2, <1>3, AloneStep DEF Others, Busy
  <2> QED
    BY <2>1 DEF Judging
<1> QED
  BY <1>2, <1>3 DEF Counted, Guessed

\* What is known while h takes a step that does not begin from Verified.
LEMMA CounterNow ==
    ASSUME OneByOne, Counted, Guessed, NEW h \in Handlers, Step(h), ~Verified(h)
    PROVE  /\ Counter
           /\ Judging(h) => wrong <= handler[h].attempts
<1>1. \A g \in Handlers \ {h} : ~Busy(g)
  BY AloneStep DEF Guessed
<1>2. \A g \in Handlers : ~Verified(g)
  BY <1>1 DEF Verified, Busy
<1> QED
  BY <1>2 DEF Counted

\* Steps that leave both keys and the count alone.
LEMMA QuietCounted ==
    ASSUME OneByOne, Counted, NEW h \in Handlers, Step(h), ~Verified(h),
           redis'["otp"] = redis["otp"],
           redis'["signupOtpAttempts"] = redis["signupOtpAttempts"],
           UNCHANGED <<wrong, faults>>,
           Judging(h)' =>
             \/ Judging(h) /\ handler'[h].attempts = handler[h].attempts
             \/ handler'[h].attempts = redis["signupOtpAttempts"].value
    PROVE  Counted'
<1>1. TypeOK
  BY DEF OneByOne, CodesInv
<1>2. UNCHANGED overlapped
  BY <1>1, StepMoves
<1>3. Guessed' => Guessed
  BY <1>2 DEF Guessed
<1>4. ASSUME Guessed' PROVE Counter' /\ (Judging(h)' => (wrong <= handler[h].attempts)')
  <2>1. Counter /\ (Judging(h) => wrong <= handler[h].attempts)
    BY <1>3, <1>4, CounterNow
  <2>2. redis["signupOtpAttempts"].value \in Nat /\ wrong \in Nat
    BY <1>1, CodesAssumption DEF TypeOK, Kept, Keys
  <2> QED
    BY <2>1, <2>2 DEF Counter
<1> QED
  BY <1>4, CountedStep

\* Which steps leave the two keys and the count alone.
LEMMA SignupKeys ==
    ASSUME OneByOne, NEW h \in Handlers, Step(h),
           ~CountAttempt(h), ~Remove(h), Issue(h) => On(h) # "otp"
    PROVE  /\ redis'["otp"] = redis["otp"]
           /\ redis'["signupOtpAttempts"] = redis["signupOtpAttempts"]
           /\ UNCHANGED <<wrong, faults>>
<1>1. TypeOK /\ "otp" \in Keys /\ "signupOtpAttempts" \in Keys
  BY DEF OneByOne, CodesInv, Keys, CodeKeys
<1>2. CASE Issue(h)
  <2>1. On(h) \in CodeKeys
    BY <1>1, <1>2, AtCall DEF Issue
  <2>2. On(h) \notin {"otp", "signupOtpAttempts"}
    BY <1>2, <2>1 DEF CodeKeys
  <2>3. \A k \in Keys \ {On(h)} : redis'[k] = redis[k]
    BY <1>1, <1>2, IssueMoves
  <2> QED
    BY <1>1, <1>2, <2>2, <2>3 DEF Issue
<1>3. CASE StoreEmail(h)
  <2>1. On(h) = "newEmail"
    BY <1>1, <1>3, AtCall DEF StoreEmail
  <2> QED
    BY <1>1, <1>3, <2>1 DEF StoreEmail, Put, TypeOK, history
<1>4. CASE ~Issue(h) /\ ~StoreEmail(h)
  <2>1. UNCHANGED <<redis, wrong, faults>>
    BY <1>4 DEF Step, FindUnset, FindUser, FindMatching, Send, ReadAttempts, Accept, Reject,
                LoadEmail, Write, Finish, history
  <2> QED
    BY <2>1
<1> QED
  BY <1>2, <1>3, <1>4

LEMMA RemoveCounted ==
    ASSUME OneByOne, Counted, NEW h \in Handlers, Remove(h)
    PROVE  Counted'
<1>1. TypeOK /\ At(h, "remove") /\ On(h) \in Keys /\ Step(h)
  BY AtCall DEF OneByOne, CodesInv, Remove, Step
<1>2. /\ handler'[h].pc = handler[h].pc + 1 /\ handler'[h].op = handler[h].op
  BY <1>1, AdvanceMoves DEF Remove, Same
<1>3. /\ redis' = [redis EXCEPT ![On(h)] = Absent]
      /\ UNCHANGED <<wrong, faults>>
  BY DEF Remove, history
<1>4. "otp" \in Keys /\ "signupOtpAttempts" \in Keys
  BY DEF Keys, CodeKeys
<1>5. CASE On(h) = "otp"
  <2>1. redis'["otp"].value = NoCode
    BY <1>1, <1>3, <1>4, <1>5 DEF TypeOK, Absent
  <2> QED
    BY <2>1 DEF Counted, Guessed
<1>6. CASE On(h) = "signupOtpAttempts"
  <2>1. handler[h].op = "signupVerifyOtp" /\ handler[h].pc = 3
    BY <1>1, <1>6, SignupCalls
  <2>2. Verified(h)' /\ ~Judging(h)'
    BY <1>2, <2>1 DEF Verified, Judging
  <2> QED
    BY <1>1, <2>2, CountedStep
<1>7. CASE On(h) \notin {"otp", "signupOtpAttempts"}
  <2>1. handler[h].op # "signupVerifyOtp"
    BY <1>1, <1>7, SignupCalls
  <2>2. ~Verified(h) /\ ~Judging(h)'
    BY <1>2, <2>1 DEF Verified, Judging
  <2>3. /\ redis'["otp"] = redis["otp"]
        /\ redis'["signupOtpAttempts"] = redis["signupOtpAttempts"]
    BY <1>1, <1>3, <1>4, <1>7 DEF TypeOK
  <2> QED
    BY <1>1, <1>3, <2>2, <2>3, QuietCounted
<1> QED
  BY <1>5, <1>6, <1>7

LEMMA GuessCounted ==
    ASSUME OneByOne, Counted, NEW h \in Handlers, CountAttempt(h)
    PROVE  Counted'
<1>1. TypeOK /\ Step(h)
  BY DEF OneByOne, CodesInv, Step
<1>2. Judging(h) /\ ~Verified(h)
  BY DEF CountAttempt, OneByOne, Guessing, Judging, Verified
<1>3. handler'[h] = Idle
  BY <1>1, RefuseMoves DEF CountAttempt
<1>4. ~Judging(h)'
  BY <1>3 DEF Judging, Idle
<1>5. redis'["signupOtpAttempts"] = [value |-> handler[h].attempts + 1,
                                     left |-> TTL("signupOtpAttempts"),
                                     path |-> <<>>, to |-> 0]
      /\ redis'["otp"] = redis["otp"]
  BY <1>1 DEF CountAttempt, Put, TypeOK, Keys, CodeKeys
<1>6. /\ redis'["signupOtpAttempts"].value = handler[h].attempts + 1
      /\ redis'["signupOtpAttempts"].left = AttemptTTL
  BY <1>5 DEF TTL
<1>7. /\ handler[h].attempts \in Nat /\ redis["otp"].left \in 0..AttemptTTL
      /\ wrong \in Nat /\ wrong' \in {wrong, wrong + 1}
  <2>1. handler[h] \in Handler /\ redis["otp"] \in Kept /\ wrong \in Nat
    BY <1>1, CodesAssumption DEF TypeOK, Keys, CodeKeys
  <2>2. wrong' \in {wrong, wrong + 1}
    BY DEF CountAttempt
  <2>3. handler[h].attempts \in Nat /\ redis["otp"].left \in 0..AttemptTTL
    BY <2>1, CodesAssumption DEF Handler, Kept
  <2> QED
    BY <2>1, <2>2, <2>3
<1>8. UNCHANGED <<faults, overlapped>>
  BY DEF CountAttempt
<1>9. ASSUME Guessed' PROVE Counter'
  <2>1. wrong > 0 => Guessed
    BY <1>5, <1>8, <1>9 DEF Guessed
  <2>2. wrong <= handler[h].attempts
    BY <1>1, <1>2, <1>7, <2>1, CounterNow
  <2> QED
    BY <1>5, <1>6, <1>7, <2>2, CodesAssumption DEF Counter
<1> QED
  BY <1>1, <1>4, <1>9, CountedStep

\* The remaining steps.
LEMMA OtherCounted ==
    ASSUME OneByOne, Counted, NEW h \in Handlers, Step(h),
           ~CountAttempt(h), ~Remove(h), Issue(h) => On(h) # "otp"
    PROVE  Counted'
<1>1. TypeOK
  BY DEF OneByOne, CodesInv
<1>2. /\ redis'["otp"] = redis["otp"]
      /\ redis'["signupOtpAttempts"] = redis["signupOtpAttempts"]
      /\ UNCHANGED <<wrong, faults>>
  BY SignupKeys
<1>3. ~Verified(h)
  <2> SUFFICES ASSUME Verified(h) PROVE FALSE
    OBVIOUS
  <2>1. \A call : At(h, call) => call = "remove"
    BY <1>1, SignupCalls DEF Verified
  <2>2. ~Finish(h)
    <3>1. Len(Calls["signupVerifyOtp"]) = 5
      BY DEF Calls, SignupVerifyOtp
    <3> QED
      BY <3>1 DEF Finish, Done, Left, Verified
  <2> QED
    BY <2>1, <2>2
    DEF Step, FindUnset, FindUser, FindMatching, Issue, Send, StoreEmail, ReadAttempts,
        Accept, Reject, LoadEmail, Write
<1>4. ASSUME Judging(h)'
      PROVE  \/ Judging(h) /\ handler'[h].attempts = handler[h].attempts
             \/ handler'[h].attempts = redis["signupOtpAttempts"].value
  <2>1. /\ handler'[h] # Idle /\ ~Refuse(h)
        /\ handler'[h].op = "signupVerifyOtp" /\ handler'[h].pc = 2
    BY <1>1, <1>4, RefuseMoves DEF Judging, Idle
  <2>2. /\ handler[h].op = "signupVerifyOtp" /\ handler[h].pc \in Nat
        /\ \/ handler'[h].pc = handler[h].pc + 1
           \/ handler'[h].pc = handler[h].pc
    BY <1>1, <2>1, StepMoves DEF TypeOK, Handler
  <2>3. CASE handler[h].pc = 1
    <3>1. \A call : At(h, call) => call = "attempts" /\ On(h) = "signupOtpAttempts"
      BY <1>1, <2>2, <2>3, SignupCalls
    <3>2. ~Finish(h)
      BY <2>1 DEF Finish
    <3>3. ReadAttempts(h) /\ On(h) = "signupOtpAttempts"
      BY <3>1, <3>2
      DEF Step, FindUnset, FindUser, FindMatching, Issue, Send, StoreEmail, ReadAttempts,
          Accept, Reject, LoadEmail, Write
    <3> QED
      BY <1>1, <2>1, <3>3, ReadMoves
  <2>4. CASE handler[h].pc = 2
    <3>1. \A call : At(h, call) => call = "check"
      BY <1>1, <2>2, <2>4, SignupCalls
    <3>2. ~Finish(h)
      BY <2>1 DEF Finish
    <3>3. Accept(h) \/ Reject(h)
      BY <3>1, <3>2
      DEF Step, FindUnset, FindUser, FindMatching, Issue, Send, StoreEmail, ReadAttempts,
          Accept, Reject, LoadEmail, Write
    <3>4. ~Accept(h)
      <4>1. 2 # 2 + 1
        OBVIOUS
      <4> QED
        BY <1>1, <2>1, <2>4, <4>1, AcceptMoves
    <3> QED
      BY <1>1, <2>1, <2>2, <2>4, <3>3, <3>4, RejectMoves DEF Judging
  <2> QED
    BY <2>1, <2>2, <2>3, <2>4
<1> QED
  BY <1>2, <1>3, <1>4, QuietCounted

LEMMA StepCounted ==
    ASSUME OneByOne, Counted, NEW h \in Handlers, Step(h) \/ Fault(h)
    PROVE  Counted'
<1>1. CASE Fault(h)
  <2>1. faults' # 0
    BY <1>1 DEF Fault, OneByOne, CodesInv, TypeOK
  <2> QED
    BY <2>1 DEF Counted, Guessed
<1>2. CASE Issue(h) /\ On(h) = "otp"
  <2>1. wrong' = 0
    BY <1>2 DEF Issue
  <2> QED
    BY <2>1 DEF Counted, Guessed
<1>3. CASE CountAttempt(h)
  BY <1>3, GuessCounted
<1>4. CASE Remove(h)
  BY <1>4, RemoveCounted
<1> QED
  BY <1>1, <1>2, <1>3, <1>4, OtherCounted

LEMMA TickCounted ==
    ASSUME OneByOne, Counted, Tick
    PROVE  Counted'
<1>1. TypeOK /\ "otp" \in Keys /\ "signupOtpAttempts" \in Keys
  BY DEF OneByOne, CodesInv, Keys, CodeKeys
<1>2. UNCHANGED <<handler, faults, wrong, overlapped>>
  BY DEF Tick
<1>3. ASSUME NEW k \in Keys
      PROVE  \/ redis[k].left <= 1 /\ redis'[k].value = NoCode
             \/ /\ redis[k].left > 1 /\ redis'[k].value = redis[k].value
                /\ redis'[k].left = redis[k].left - 1
  <2>1. redis[k] \in Kept
    BY <1>1 DEF TypeOK
  <2>2. CASE redis[k].left <= 1
    BY <2>2 DEF Tick, Absent
  <2>3. CASE ~(redis[k].left <= 1)
    <3>1. redis'[k] = [redis[k] EXCEPT !.left = @ - 1]
      BY <2>3 DEF Tick
    <3>2. redis[k].left > 1
      BY <2>1, <2>3, CodesAssumption DEF Kept
    <3> QED
      BY <2>1, <3>1, <3>2 DEF Kept
  <2> QED
    BY <2>2, <2>3
<1>4. ASSUME Guessed'
      PROVE  Guessed /\ (Counter => Counter')
  <2>1. redis["otp"].left > 1 /\ redis'["otp"].value = redis["otp"].value
        /\ redis'["otp"].left = redis["otp"].left - 1
    BY <1>1, <1>3, <1>4 DEF Guessed
  <2>2. Guessed
    BY <1>2, <1>4, <2>1 DEF Guessed
  <2>3. redis["otp"].left \in Nat /\ redis["signupOtpAttempts"].left \in Nat
    BY <1>1, CodesAssumption DEF TypeOK, Kept
  <2>4. ASSUME Counter PROVE Counter'
    <3>1. redis["signupOtpAttempts"].left > 1
      BY <2>1, <2>3, <2>4 DEF Counter
    <3>2. /\ redis'["signupOtpAttempts"].value = redis["signupOtpAttempts"].value
          /\ redis'["signupOtpAttempts"].left = redis["signupOtpAttempts"].left - 1
      BY <1>1, <1>3, <2>3, <3>1
    <3> QED
      BY <1>2, <2>1, <2>3, <2>4, <3>2 DEF Counter
  <2> QED
    BY <2>2, <2>4
<1>5. \A h \in Handlers : /\ Verified(h) => Verified(h)'
                          /\ Judging(h)' => Judging(h)
  BY <1>2 DEF Verified, Judging
<1> QED
  BY <1>2, <1>4, <1>5 DEF Counted

LEMMA BeginCounted ==
    ASSUME OneByOne, Counted, NEW h \in Handlers, NEW op \in Endpoints,
           NEW c \in Codes \cup {NoCode}, NEW e \in Emails \cup {0}, Begin(h, op, c, e),
           ~overlapped' => \A g \in Handlers : ~Busy(g)
    PROVE  Counted'
<1> SUFFICES ASSUME Guessed' PROVE Counted'
  BY DEF Counted
<1>1. TypeOK /\ \A g \in Handlers : ~Busy(g)
  BY DEF OneByOne, CodesInv, Guessed
<1>2. UNCHANGED <<redis, wrong, faults, overlapped>>
  BY <1>1 DEF Begin
<1>3. handler'[h].pc = 1 /\ Others(h)
  BY <1>1, BeginMoves
<1>4. \A g \in Handlers : ~Verified(g) /\ ~Judging(g)'
  BY <1>1, <1>3 DEF Verified, Judging, Busy, Others
<1>5. Guessed
  BY <1>2 DEF Guessed
<1>6. Counter'
  BY <1>2, <1>4, <1>5 DEF Counted, Counter
<1> QED
  BY <1>4, <1>6 DEF Counted

LEMMA NextCounted == OneByOne /\ Counted /\ OneByOne' /\ [Next]_vars => Counted'
<1> SUFFICES ASSUME OneByOne, Counted, OneByOne', [Next]_vars PROVE Counted'
  OBVIOUS
<1>1. CodesInv'
  BY DEF OneByOne
<1>2. ASSUME NEW h \in Handlers, NEW op \in Endpoints,
             NEW c \in Codes \cup {NoCode}, NEW e \in Emails \cup {0},
             Begin(h, op, c, e)
      PROVE  Counted'
  BY <1>1, <1>2, BeginOneByOne, BeginCounted
<1>3. ASSUME NEW h \in Handlers, Step(h) \/ Fault(h) PROVE Counted'
  BY <1>3, StepCounted
<1>4. CASE UNCHANGED <<redis, wrong, faults, overlapped, handler>>
  BY <1>4 DEF Counted, Guessed, Counter, Verified, Judging
<1>5. CASE Register
  BY <1>4, <1>5 DEF Register, history
<1>6. CASE Tick
  BY <1>6, TickCounted
<1>7. CASE UNCHANGED vars
  BY <1>4, <1>7 DEF vars, history
<1> QED
  BY <1>2, <1>3, <1>5, <1>6, <1>7 DEF Next

LEMMA InitCounted == Init => Counted
BY DEF Init, Counted, Guessed

\* Only a check accepts a code.
LEMMA AcceptedBy ==
    ASSUME OneByOne, NEW h \in Handlers, [Next]_vars,
           handler'[h].accepted \notin {NoCode, handler[h].accepted}
    PROVE  Accept(h)
<1>1. TypeOK
  BY DEF OneByOne, CodesInv
<1>2. ASSUME NEW g \in Handlers, NEW op \in Endpoints,
             NEW c \in Codes \cup {NoCode}, NEW e \in Emails \cup {0},
             Begin(g, op, c, e)
      PROVE  FALSE
  <2>1. handler'[g].accepted = NoCode /\ Others(g)
    BY <1>1, <1>2, BeginMoves
  <2> QED
    BY <2>1 DEF Others
<1>3. ASSUME NEW g \in Handlers, Step(g) \/ Fault(g) PROVE Accept(h)
  <2>1. g = h /\ handler'[h] # Idle
    BY <1>1, <1>3, StepMoves DEF Others, Idle
  <2>2. ~Refuse(h) /\ ~Advance(h)
    BY <1>1, <2>1, RefuseMoves, AdvanceMoves DEF Same
  <2>3. ~Issue(h) /\ ~Reject(h) /\ ~ReadAttempts(h) /\ ~LoadEmail(h)
    <3>1. ~Issue(h)
      BY <1>1, IssueMoves DEF Same
    <3> QED
      BY <1>1, <2>1, <3>1, RejectMoves, ReadMoves, LoadMoves DEF Same
  <2> QED
    BY <1>3, <2>1, <2>2, <2>3
    DEF Step, FindUnset, FindUser, FindMatching, Send, StoreEmail, CountAttempt, Write,
        Remove, Finish, Fault
<1>4. UNCHANGED handler => FALSE
  OBVIOUS
<1> QED
  BY <1>2, <1>3, <1>4 DEF Next, Register, Tick, vars

\* As long as requests come one after the other and nothing fails, a signup
\* code against which the limit of wrong guesses was made is never accepted,
\* for any limit and any times to live in which the counter's is the longest.
THEOREM WrongCodesLock == Spec => LockHolds
<1>1. Init => OneByOne /\ Counted
  BY InitOneByOne, InitCounted
<1>2. OneByOne /\ Counted /\ [Next]_vars => (OneByOne /\ Counted)'
  BY NextOneByOne, NextCounted
<1>3. OneByOne /\ Counted /\ [Next]_vars =>
        [\A h \in Handlers :
           /\ ~overlapped /\ faults = 0
           /\ handler[h].op = "signupVerifyOtp"
           /\ handler'[h].accepted \notin {NoCode, handler[h].accepted}
           => wrong < AttemptLimit]_vars
  <2> SUFFICES ASSUME OneByOne, Counted, [Next]_vars, NEW h \in Handlers,
                      ~overlapped, faults = 0, handler[h].op = "signupVerifyOtp",
                      handler'[h].accepted \notin {NoCode, handler[h].accepted}
               PROVE  wrong < AttemptLimit
    OBVIOUS
  <2>1. TypeOK /\ Accept(h)
    BY AcceptedBy DEF OneByOne, CodesInv
  <2>2. handler[h].pc = 2 /\ On(h) = "otp"
    BY <2>1, SignupCalls DEF Accept
  <2>3. redis["otp"].value # NoCode
    BY <2>1, <2>2 DEF Accept, Valid
  <2>4. wrong > 0 => wrong <= handler[h].attempts
    BY <2>2, <2>3 DEF Counted, Guessed, Judging
  <2>5. handler[h].attempts \in 0..(AttemptLimit - 1) /\ wrong \in Nat
    BY <2>1, CodesAssumption DEF TypeOK, Handler
  <2> QED
    BY <2>4, <2>5, CodesAssumption
<1> QED
  BY <1>1, <1>2, <1>3, PTL DEF Spec, LockHolds
=============================================================================
