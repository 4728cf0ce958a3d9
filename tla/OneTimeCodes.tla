---------------------------- MODULE OneTimeCodes ----------------------------
(***************************************************************************)
(* The codes one user proves a change with: PIN set, change and reset      *)
(* (PinManagementService), signup, password and e-mail codes (AuthService) *)
(* and address edits (CountryService). Codes and tokens live in Redis      *)
(* under a key per purpose and expire; the requests that issue, check and  *)
(* consume them are handlers.                                              *)
(*                                                                         *)
(* An endpoint is the sequence of calls it awaits, in the order of its     *)
(* source: <<call, key>>. A handler has done the calls before its pc, and  *)
(* any other handler may run between two of them.                          *)
(***************************************************************************)
EXTENDS Integers, Sequences

CONSTANTS
    Handlers,      \* requests that can be in flight at once
    Flows,         \* the groups of endpoints the clients may be using
    CodeTTL,       \* how long a code or token is kept: 240 s in the code
    EmailTTL,      \* how long the code of a new e-mail is kept: 180 s
    AttemptTTL,    \* how long wrong codes are remembered: 300 s
    AttemptLimit,  \* wrong codes that stop a signup: 3
    Emails,        \* the e-mail addresses a user signing up may enter
    MaxCodes,      \* bound: codes and tokens issued
    MaxFaults      \* bound: failed calls and process restarts

NoCode == 0        \* an absent key; also a guess that matches nothing

ASSUME CodesAssumption ==
    /\ EmailTTL \in 1..CodeTTL /\ CodeTTL \in 1..AttemptTTL /\ AttemptTTL \in Nat
    /\ AttemptLimit \in Nat \ {0}
    /\ Emails \subseteq Nat \ {0} /\ Emails # {}
    /\ MaxCodes \in Nat /\ MaxFaults \in Nat

VARIABLES
    flow,          \* the flow the clients use in this behaviour
    redis,         \* redis[k]: the value under key k, and the time it has left
    account,       \* the users row: registered, and whether a PIN is set
    known,         \* codes handed to the user, by message or by response
    issued,        \* how many codes were generated: code c is the c-th
    handler,
    faults,
    \* What happened, for the properties; wrong and latest only as long as
    \* requests come one after the other:
    wrong,         \* guesses signupVerifyOtp counted against the stored code
    latest,        \* latest[k]: the last code handed out for key k, until it expires
    spent,         \* codes accepted by a request that ran to its answer
    overlapped     \* two requests have been in flight together

history == <<wrong, latest, spent, overlapped>>
vars == <<flow, redis, account, known, issued, handler, faults, history>>

-----------------------------------------------------------------------------
(* Redis.                                                                  *)

CodeKeys == {"pinChangeOtp", "pinResetOtp", "pinResetToken", "otp",
             "passwordChangeOtp", "emailChangeOtp", "signupEmailOtp",
             "addressEditOtp", "addressEditToken"}
Keys == CodeKeys \cup {"newEmail", "signupOtpAttempts", "emailChangeAttempts"}

\* Mutant: wrong codes are forgotten before the code they were tried on.
TTLMutantAttempts(k) ==
    IF k \in {"signupEmailOtp", "newEmail", "signupOtpAttempts"} THEN EmailTTL ELSE CodeTTL
TTL(k) == CASE k \in {"signupEmailOtp", "newEmail"} -> EmailTTL
            [] k = "signupOtpAttempts" -> AttemptTTL
            [] OTHER -> CodeTTL

\* path and to go with a code for the properties: the endpoints that issued
\* it and what it stands for, and the e-mail address it was meant for.
Absent == [value |-> NoCode, left |-> 0, path |-> <<>>, to |-> 0]
Put(k, v, path, to) ==
    [redis EXCEPT ![k] = [value |-> v, left |-> TTL(k), path |-> path, to |-> to]]

-----------------------------------------------------------------------------
(* The endpoints.                                                          *)

SetPin == << <<"unset", "pin">>, <<"write", "pin">> >>
\* Mutant: the key of the reset.
InitiatePinChangeMutantKey == << <<"issue", "pinResetOtp">>, <<"send", "pinResetOtp">> >>
InitiatePinChange == << <<"issue", "pinChangeOtp">>, <<"send", "pinChangeOtp">> >>
CompletePinChange ==
    << <<"check", "pinChangeOtp">>, <<"write", "pin">>, <<"remove", "pinChangeOtp">> >>
InitiatePinReset ==
    << <<"matches", "pin">>, <<"issue", "pinResetOtp">>, <<"send", "pinResetOtp">> >>
VerifyResetOtp ==
    << <<"check", "pinResetOtp">>, <<"issue", "pinResetToken">>,
       <<"remove", "pinResetOtp">>, <<"send", "pinResetToken">> >>
\* Mutant: the token is left to expire.
CompletePinResetMutantKept == << <<"check", "pinResetToken">>, <<"write", "pin">> >>
CompletePinReset ==
    << <<"check", "pinResetToken">>, <<"write", "pin">>, <<"remove", "pinResetToken">> >>

SignupStart == << <<"absent", "user">>, <<"issue", "otp">>, <<"send", "otp">> >>
ResendOtp == << <<"issue", "otp">>, <<"send", "otp">> >>
SignupVerifyOtp ==
    << <<"attempts", "signupOtpAttempts">>, <<"check", "otp">>,
       <<"remove", "signupOtpAttempts">>, <<"remove", "otp">>,
       <<"write", "phoneVerified">> >>
PasswordResetInitiate ==
    << <<"present", "user">>, <<"issue", "otp">>, <<"send", "otp">> >>
PasswordResetVerify == << <<"check", "otp">>, <<"remove", "otp">> >>

PasswordChangeInitiate ==
    << <<"matches", "password">>, <<"issue", "passwordChangeOtp">>,
       <<"send", "passwordChangeOtp">> >>
PasswordChangeVerify ==
    << <<"check", "passwordChangeOtp">>, <<"remove", "passwordChangeOtp">> >>

EmailChangeInitiate ==
    << <<"matches", "email">>, <<"issue", "emailChangeOtp">>,
       <<"send", "emailChangeOtp">> >>
EmailChangeVerify ==
    << <<"check", "emailChangeOtp">>, <<"remove", "emailChangeOtp">> >>

\* Both keep their code under emailChangeOtp:<phone number>, which is not
\* the emailChangeOtp:<user id> of the two above.
ChangeEmailInitiate ==
    << <<"matches", "email">>, <<"issue", "signupEmailOtp">>,
       <<"store", "newEmail">>, <<"send", "signupEmailOtp">> >>
VerifyEmailChange ==
    << <<"attempts", "emailChangeAttempts">>, <<"check", "signupEmailOtp">>,
       <<"load", "newEmail">>, <<"remove", "signupEmailOtp">>,
       <<"remove", "newEmail">> >>

InitiateAddressEdit == << <<"issue", "addressEditOtp">>, <<"send", "addressEditOtp">> >>
VerifyAddressOtp ==
    << <<"check", "addressEditOtp">>, <<"issue", "addressEditToken">>,
       <<"remove", "addressEditOtp">>, <<"send", "addressEditToken">> >>
CompleteAddressEdit ==
    << <<"check", "addressEditToken">>, <<"write", "address">>,
       <<"remove", "addressEditToken">> >>

Calls == [
    setPin |-> SetPin,
    initiatePinChange |-> InitiatePinChange,
    completePinChange |-> CompletePinChange,
    initiatePinReset |-> InitiatePinReset,
    verifyResetOtp |-> VerifyResetOtp,
    completePinReset |-> CompletePinReset,
    signupStart |-> SignupStart,
    resendOtp |-> ResendOtp,
    signupVerifyOtp |-> SignupVerifyOtp,
    passwordResetInitiateOtp |-> PasswordResetInitiate,
    passwordResetVerifyOtp |-> PasswordResetVerify,
    passwordChangeInitiate |-> PasswordChangeInitiate,
    passwordChangeVerifyOtp |-> PasswordChangeVerify,
    emailChangeInitiate |-> EmailChangeInitiate,
    emailChangeVerify |-> EmailChangeVerify,
    changeEmailInitiate |-> ChangeEmailInitiate,
    verifyEmailChange |-> VerifyEmailChange,
    initiateAddressEdit |-> InitiateAddressEdit,
    verifyAddressOtp |-> VerifyAddressOtp,
    completeAddressEdit |-> CompleteAddressEdit]

Endpoints == DOMAIN Calls

\* The endpoints that share a key or a column.
EndpointsOf == [
    pin |-> {"setPin", "initiatePinChange", "completePinChange",
             "initiatePinReset", "verifyResetOtp", "completePinReset"},
    phone |-> {"signupStart", "resendOtp", "signupVerifyOtp",
               "passwordResetInitiateOtp", "passwordResetVerifyOtp"},
    password |-> {"passwordChangeInitiate", "passwordChangeVerifyOtp"},
    email |-> {"emailChangeInitiate", "emailChangeVerify"},
    signupEmail |-> {"changeEmailInitiate", "verifyEmailChange"},
    address |-> {"initiateAddressEdit", "verifyAddressOtp", "completeAddressEdit"}]

-----------------------------------------------------------------------------
Codes == 1..MaxCodes
Paths == Seq(Endpoints)
Kept == [value : Nat, left : 0..AttemptTTL, path : Paths, to : Emails \cup {0}]
Handler == [op : Endpoints \cup {"none"}, pc : Nat \ {0},
            offered : Codes \cup {NoCode},   \* the code the request carries
            email : Emails \cup {0},
            attempts : 0..(AttemptLimit - 1),  \* attemptCount
            accepted : Codes \cup {NoCode},  \* the code it found valid
            against : Codes \cup {NoCode},   \* the code its guess differed from
            path : Paths, to : Emails \cup {0},  \* those of the accepted code
            generated : Codes \cup {NoCode},
            loaded : Emails \cup {0}]        \* newEmail as read from Redis

Idle == [op |-> "none", pc |-> 1, offered |-> NoCode, email |-> 0,
         attempts |-> 0, accepted |-> NoCode, against |-> NoCode, path |-> <<>>, to |-> 0,
         generated |-> NoCode, loaded |-> 0]

Busy(h) == handler[h].op # "none"
Left(h) == handler[h].pc <= Len(Calls[handler[h].op])
Done(h) == Busy(h) /\ ~Left(h)
At(h, call) ==
    /\ Busy(h) /\ Left(h) /\ handler[h].against = NoCode
    /\ Calls[handler[h].op][handler[h].pc][1] = call
On(h) == Calls[handler[h].op][handler[h].pc][2]

\* To the next call, with what this one has returned.
Continue(h, got) == handler' = [handler EXCEPT ![h] = [got EXCEPT !.pc = @ + 1]]
Advance(h) == Continue(h, handler[h])
Refuse(h) == handler' = [handler EXCEPT ![h] = Idle]

Checks(op) == \E i \in DOMAIN Calls[op] : Calls[op][i][1] = "check"

Init ==
    /\ flow \in Flows
    /\ redis = [k \in Keys |-> Absent]
    /\ account = [registered |-> flow \notin {"phone", "signupEmail"}, pin |-> FALSE]
    /\ known = {}
    /\ issued = 0
    /\ handler = [h \in Handlers |-> Idle]
    /\ faults = 0
    /\ wrong = 0
    /\ latest = [k \in CodeKeys |-> NoCode]
    /\ spent = {}
    /\ overlapped = FALSE

-----------------------------------------------------------------------------
\* A request arrives, with a code the user was given or with a wrong one. A
\* code no key holds any more is as good as a wrong one.
Current == {redis[k].value : k \in CodeKeys} \cap known
Begin(h, op, c, e) ==
    /\ ~Busy(h)
    /\ op \in EndpointsOf[flow]
    /\ c \in IF Checks(op) THEN Current \cup {NoCode} ELSE {NoCode}
    /\ e \in IF op = "changeEmailInitiate" THEN Emails ELSE {0}
    /\ handler' = [handler EXCEPT ![h] =
                     [Idle EXCEPT !.op = op, !.offered = c, !.email = e]]
    /\ IF \E g \in Handlers : Busy(g)
       THEN overlapped' = TRUE /\ wrong' = 0 /\ latest' = [k \in CodeKeys |-> NoCode]
       ELSE UNCHANGED <<overlapped, wrong, latest>>
    /\ UNCHANGED <<flow, redis, account, known, issued, faults, spent>>

\* setPin: "PIN already set".
FindUnset(h) ==
    /\ At(h, "unset")
    /\ IF account.pin THEN Refuse(h) ELSE Advance(h)
    /\ UNCHANGED <<flow, redis, account, known, issued, faults, history>>

\* The user has, or has not, an account with this phone number.
FindUser(h) ==
    /\ At(h, "present") \/ At(h, "absent")
    /\ IF account.registered = At(h, "present") THEN Advance(h) ELSE Refuse(h)
    /\ UNCHANGED <<flow, redis, account, known, issued, faults, history>>

\* The current PIN, password or e-mail the request carries is right, or the
\* new e-mail is free; or not. Without a PIN there is nothing to match.
FindMatching(h) ==
    /\ At(h, "matches")
    /\ \/ (On(h) = "pin" => account.pin) /\ Advance(h)
       \/ Refuse(h)
    /\ UNCHANGED <<flow, redis, account, known, issued, faults, history>>

\* generateOtp or generate...Token, and SET with EX: replaces any older code.
Issue(h) ==
    /\ At(h, "issue")
    /\ issued < MaxCodes
    /\ issued' = issued + 1
    /\ redis' = Put(On(h), issued', Append(handler[h].path, handler[h].op), handler[h].email)
    /\ Continue(h, [handler[h] EXCEPT !.generated = issued'])
    /\ wrong' = IF On(h) = "otp" THEN 0 ELSE wrong
    /\ UNCHANGED <<flow, account, known, faults, latest, spent, overlapped>>

\* sendSms and sendEmail, or the response that carries a token. It may come
\* after the code has expired.
Send(h) ==
    /\ At(h, "send")
    /\ known' = known \cup {handler[h].generated}
    /\ latest' = [latest EXCEPT ![On(h)] =
                    IF overlapped \/ redis[On(h)] = Absent THEN NoCode ELSE handler[h].generated]
    /\ Advance(h)
    /\ UNCHANGED <<flow, redis, account, issued, faults, wrong, spent, overlapped>>

\* Mutant: SET with NX.
StoreEmailMutantNX(h) ==
    /\ At(h, "store")
    /\ redis' = IF redis[On(h)] = Absent THEN Put(On(h), handler[h].email, <<>>, 0) ELSE redis
    /\ Advance(h)
    /\ UNCHANGED <<flow, account, known, issued, faults, history>>

\* SET of newEmail, the second of two calls.
StoreEmail(h) ==
    /\ At(h, "store")
    /\ redis' = Put(On(h), handler[h].email, <<>>, 0)
    /\ Advance(h)
    /\ UNCHANGED <<flow, account, known, issued, faults, history>>

\* Mutant: one guess more than the limit.
ReadAttemptsMutantOneMore(h) ==
    /\ At(h, "attempts")
    /\ LET n == redis[On(h)].value IN
         IF n > AttemptLimit
         THEN Refuse(h)
         ELSE Continue(h, [handler[h] EXCEPT !.attempts = n])
    /\ UNCHANGED <<flow, redis, account, known, issued, faults, history>>

\* "Too many incorrect attempts".
ReadAttempts(h) ==
    /\ At(h, "attempts")
    /\ LET n == redis[On(h)].value IN
         IF n >= AttemptLimit
         THEN Refuse(h)
         ELSE Continue(h, [handler[h] EXCEPT !.attempts = n])
    /\ UNCHANGED <<flow, redis, account, known, issued, faults, history>>

\* GET of the code, found and equal to the one the request carries.
Valid(h) == handler[h].offered = redis[On(h)].value /\ handler[h].offered # NoCode
Accept(h) ==
    /\ At(h, "check")
    /\ Valid(h)
    /\ Continue(h, [handler[h] EXCEPT !.accepted = handler[h].offered,
                                      !.path = redis[On(h)].path,
                                      !.to = redis[On(h)].to])
    /\ UNCHANGED <<flow, redis, account, known, issued, faults, history>>

\* Mutant: a wrong guess uses the code up.
RejectMutantUsesUp(h) ==
    /\ At(h, "check")
    /\ ~Valid(h)
    /\ redis' = [redis EXCEPT ![On(h)] = Absent]
    /\ Refuse(h)
    /\ UNCHANGED <<flow, account, known, issued, faults, history>>

\* The code is missing or differs.
Reject(h) ==
    /\ At(h, "check")
    /\ ~Valid(h)
    /\ IF handler[h].op = "signupVerifyOtp" /\ redis[On(h)].value # NoCode
       THEN handler' = [handler EXCEPT ![h].against = redis[On(h)].value]
       ELSE Refuse(h)
    /\ UNCHANGED <<flow, redis, account, known, issued, faults, history>>

\* signupVerifyOtp: newAttemptCount is one more than what was read before.
CountAttempt(h) ==
    /\ Busy(h) /\ handler[h].against # NoCode
    /\ redis' = Put("signupOtpAttempts", handler[h].attempts + 1, <<>>, 0)
    /\ wrong' = IF overlapped \/ wrong = AttemptLimit
                   \/ handler[h].against # redis["otp"].value
                THEN wrong ELSE wrong + 1
    /\ Refuse(h)
    /\ UNCHANGED <<flow, account, known, issued, faults, latest, spent, overlapped>>

\* verifyEmailChange: the e-mail the verified code stands for.
LoadEmail(h) ==
    /\ At(h, "load")
    /\ LET e == redis[On(h)].value IN
         IF e = NoCode
         THEN Refuse(h)
         ELSE Continue(h, [handler[h] EXCEPT !.loaded = e])
    /\ UNCHANGED <<flow, redis, account, known, issued, faults, history>>

Write(h) ==
    /\ At(h, "write")
    /\ account' = [account EXCEPT !.pin = @ \/ On(h) = "pin"]
    /\ Advance(h)
    /\ UNCHANGED <<flow, redis, known, issued, faults, history>>

\* DEL removes what the key holds now.
Remove(h) ==
    /\ At(h, "remove")
    /\ redis' = [redis EXCEPT ![On(h)] = Absent]
    /\ Advance(h)
    /\ UNCHANGED <<flow, account, known, issued, faults, history>>

\* The answer of a request whose calls all returned.
Finish(h) ==
    /\ Done(h)
    /\ Refuse(h)
    /\ spent' = spent \cup ({handler[h].accepted} \ {NoCode})
    /\ UNCHANGED <<flow, redis, account, known, issued, faults, wrong, latest, overlapped>>

\* The awaited call throws, or the process restarts: nothing is undone. (The
\* caller sees an error, from verifyEmailChange an answer without a body.)
Fault(h) ==
    /\ Busy(h)
    /\ faults < MaxFaults
    /\ faults' = faults + 1
    /\ Refuse(h)
    /\ UNCHANGED <<flow, redis, account, known, issued, history>>

\* signupBasicInfo saves the new user's row.
Register ==
    /\ ~account.registered
    /\ account' = [account EXCEPT !.registered = TRUE]
    /\ UNCHANGED <<flow, redis, known, handler, issued, faults, history>>

\* Time passes; Redis drops the keys whose time is over.
Expires(k) == redis[k].left = 1
Tick ==
    /\ redis' = [k \in Keys |->
                   IF redis[k].left <= 1 THEN Absent ELSE [redis[k] EXCEPT !.left = @ - 1]]
    /\ latest' = [k \in CodeKeys |->
                    IF Expires(k) /\ redis[k].value = latest[k] THEN NoCode ELSE latest[k]]
    /\ UNCHANGED <<flow, account, known, handler, issued, faults, wrong, spent, overlapped>>

-----------------------------------------------------------------------------
Step(h) ==
    \/ FindUnset(h) \/ FindUser(h) \/ FindMatching(h)
    \/ Issue(h)
    \/ Send(h) \/ StoreEmail(h) \/ ReadAttempts(h)
    \/ Accept(h) \/ Reject(h) \/ CountAttempt(h)
    \/ LoadEmail(h) \/ Write(h) \/ Remove(h) \/ Finish(h)

Next ==
    \/ \E h \in Handlers :
         \/ \E op \in Endpoints, c \in Codes \cup {NoCode}, e \in Emails \cup {0} :
              Begin(h, op, c, e)
         \/ Step(h)
         \/ Fault(h)
    \/ Register
    \/ Tick

Spec == Init /\ [][Next]_vars
=============================================================================
