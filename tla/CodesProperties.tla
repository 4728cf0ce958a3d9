-------------------------- MODULE CodesProperties --------------------------
(* What a one-time code promises, about OneTimeCodes. *)
EXTENDS OneTimeCodes

\* Redis, the account and the requests hold what they may; in particular
\* the counter of wrong codes never passes the limit, also when requests
\* that read it at the same time write it one after the other.
TypeOK ==
    /\ redis \in [Keys -> Kept]
    /\ account \in [registered : BOOLEAN, pin : BOOLEAN]
    /\ known \in SUBSET (Codes \cup {NoCode})
    /\ issued \in 0..MaxCodes
    /\ handler \in [Handlers -> Handler]
    /\ faults \in 0..MaxFaults
    /\ wrong \in 0..AttemptLimit
    /\ latest \in [CodeKeys -> Codes \cup {NoCode}]
    /\ spent \in SUBSET Codes
    /\ overlapped \in BOOLEAN
    /\ \A k \in CodeKeys : redis[k].value \in Codes \cup {NoCode}
    /\ redis["newEmail"].value \in Emails \cup {0}
    /\ redis["signupOtpAttempts"].value <= AttemptLimit

\* A code that authorised a request which ran to its answer is never accepted
\* again, whatever was in flight: the answer comes after the DEL of the code,
\* and nothing stores it a second time.
SpentCodeIsDead == \A k \in CodeKeys : redis[k].value \notin spent

\* What a code or token must stand for where it is accepted.
Signup == {<<"signupStart">>, <<"resendOtp">>, <<"passwordResetInitiateOtp">>}
AuthorityFor == [
    completePinChange |-> {<<"initiatePinChange">>},
    verifyResetOtp |-> {<<"initiatePinReset">>},
    completePinReset |-> {<<"initiatePinReset", "verifyResetOtp">>},
    signupVerifyOtp |-> Signup,
    passwordResetVerifyOtp |-> Signup,
    passwordChangeVerifyOtp |-> {<<"passwordChangeInitiate">>},
    emailChangeVerify |-> {<<"emailChangeInitiate">>},
    verifyEmailChange |-> {<<"changeEmailInitiate">>},
    verifyAddressOtp |-> {<<"initiateAddressEdit">>},
    completeAddressEdit |-> {<<"initiateAddressEdit", "verifyAddressOtp">>}]

\* A code is accepted only by the endpoints it was issued for, and a token
\* only if the code it stands for was: a PIN is reset only after
\* initiatePinReset matched the current PIN and verifyResetOtp found its code.
\* Signup and password reset share the key otp:<phone number>, and so their
\* codes: what separates the others is nothing but the names of their keys.
CodesKeepTheirPurpose ==
    \A h \in Handlers :
      handler[h].accepted # NoCode => handler[h].path \in AuthorityFor[handler[h].op]

\* signupVerifyOtp accepts no code against which AttemptLimit wrong guesses
\* were counted, however long the caller waits: the counter, renewed with
\* each guess, lives longer than the code, and a new code is a new value.
LockHolds ==
    [][\A h \in Handlers :
         /\ ~overlapped /\ faults = 0
         /\ handler[h].op = "signupVerifyOtp"
         /\ handler'[h].accepted \notin {NoCode, handler[h].accepted}
         => wrong < AttemptLimit]_vars

\* The code the user was given last is the one that works until it is used
\* or its time is over: resending, wrong guesses and the other endpoints of
\* the flow leave it valid.
LastSentWorks ==
    \A k \in CodeKeys :
      /\ ~overlapped /\ faults = 0
      /\ \A h \in Handlers : ~Busy(h)
      /\ latest[k] \notin spent \cup {NoCode}
      => redis[k].value = latest[k]

\* The e-mail address verifyEmailChange reports as verified is the one the
\* code it accepted was sent to, although code and address are stored and
\* read under two keys.
VerifiedEmailGotTheCode ==
    \A h \in Handlers :
      ~overlapped /\ handler[h].loaded # 0 => handler[h].to = handler[h].loaded

\* "PIN already set. Use change PIN to update your PIN.": setPin never
\* replaces a PIN. Two requests that both found none do.
SetPinOnlyOnce ==
    [][\A h \in Handlers :
         handler[h].op = "setPin" /\ At(h, "write")
         /\ handler'[h] \notin {Idle, handler[h]} => ~account.pin]_vars
=============================================================================
