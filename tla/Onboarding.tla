----------------------------- MODULE Onboarding -----------------------------
(***************************************************************************)
(* How far one phone number has come with signing up: the state            *)
(* OnboardingTrackingService keeps for it in Redis, the users row, the     *)
(* verdicts of Sumsub (WebhookService.processKycWebhook) and of APT Pay    *)
(* (AptPayWebhookService, PAYEE_VERIFICATION_COMPLETED and _FAILED).       *)
(*                                                                         *)
(* As in OneTimeCodes an endpoint is the sequence of calls it awaits,      *)
(* <<call, argument>>, and other requests run between two of them. What    *)
(* signupVerifyOtp and setPin do to codes and PIN is in OneTimeCodes; here *)
(* they are the marks they leave.                                          *)
(***************************************************************************)
EXTENDS Integers, Sequences

CONSTANTS
    OnboardingHandlers,   \* requests and webhooks that can be in flight at once
    MaxOnboarding,        \* bound: requests and webhooks
    MaxOnboardingFaults   \* bound: failed calls and process restarts

ASSUME OnboardingAssumption == MaxOnboarding \in Nat /\ MaxOnboardingFaults \in Nat

\* The steps some request marks. BIOMETRICS is never used; LIVENESS_CHECK,
\* IDENTITY_VERIFICATION, VERIFICATION_INITIATED and _PENDING are marked by
\* methods without a caller.
OnboardingSteps ==
    {"phone_verification", "phone_verified", "basic_info", "password_setup",
     "pin_setup", "verification_failed", "verification_success", "completed"}

VARIABLES
    session,      \* the OnboardingState stored for the phone number, or NoSession
    user,         \* the users row: there or not, and its kycStatus
    identity,     \* the identity_verifications row of the user
    event,        \* the status in the webhook event row of the verification
    onboardingHandler,
    onboardings,  \* requests and webhooks so far
    onboardingFaults,
    \* What happened, for the properties:
    marked,       \* the steps marked since the session was created
    verdict,      \* the last verdict whose webhook ran to its answer
    tangled       \* two requests were in flight together, or one was cut short

onboardingVars == <<session, user, identity, event, onboardingHandler, onboardings,
                    onboardingFaults, marked, verdict, tangled>>

NoSession == [step |-> "none", done |-> {}, userId |-> FALSE, verification |-> "none"]

\* copy: the state a mark has read; found: whether a users row was found.
IdleOnboarding == [todo |-> <<>>, name |-> "none", copy |-> NoSession, found |-> FALSE]

OnboardingInit ==
    /\ session = NoSession
    /\ user = [registered |-> FALSE, kyc |-> "NOT STARTED"]
    /\ identity = "absent"
    /\ event = "absent"
    /\ onboardingHandler = [h \in OnboardingHandlers |-> IdleOnboarding]
    /\ onboardings = 0 /\ onboardingFaults = 0
    /\ marked = {} /\ verdict = "NOT STARTED" /\ tangled = FALSE

-----------------------------------------------------------------------------
(* The endpoints.                                                          *)

\* updateOnboardingStep reads the state and writes it back. Without one there
\* is nothing to write, and the request goes on.
Mark(step) == << <<"get", step>>, <<"set", step>> >>

StartSignup == << <<"absent", "user">>, <<"create", "session">> >>
VerifyPhone == Mark("phone_verified")
\* The user is looked up, inserted, and what was looked up signs the token.
BasicInfo ==
    << <<"find", "user">>, <<"insert", "user">>, <<"sign", "found">> >>
      \o Mark("basic_info") \o << <<"own", "session">> >>
Password == << <<"present", "user">> >> \o Mark("password_setup")
\* markPinCompleted looks for a state with the id of the user.
Pin == << <<"scan", "session">> >> \o Mark("pin_setup") \o Mark("completed")

\* The answers of Sumsub: RED, and GREEN, whose errors are swallowed.
\* Mutant: a refusal is only noted in the resume state.
KycRedMutantNoUser == << <<"present", "user">> >> \o Mark("verification_failed")
KycRed ==
    << <<"present", "user">> >> \o Mark("verification_failed") \o << <<"kyc", "FAILED">> >>
KycGreen ==
    << <<"present", "user">> >> \o Mark("verification_success") \o << <<"kyc", "SUCCESS">> >>

\* The statuses of APT Pay: the event row takes the status, unless it has it
\* already; COMPLETED stops at a row that is VERIFIED, FAILED does not look.
IdentityCompleted ==
    << <<"event", "COMPLETED">>, <<"unverified", "identity">>, <<"identity", "VERIFIED">>,
       <<"present", "user">> >>
      \o Mark("verification_success") \o << <<"kyc", "SUCCESS">> >>
IdentityFailed ==
    << <<"event", "FAILED">>, <<"known", "identity">>, <<"identity", "FAILED">>,
       <<"present", "user">> >>
      \o Mark("verification_failed") \o << <<"kyc", "FAILED">> >>

Endpoint(name) ==
    CASE name = "StartSignup" -> StartSignup
      [] name = "VerifyPhone" -> VerifyPhone
      [] name = "BasicInfo" -> BasicInfo
      [] name = "Password" -> Password
      [] name = "Pin" -> Pin
      [] name = "KycRed" -> KycRed
      [] name = "KycGreen" -> KycGreen
      [] name = "IdentityCompleted" -> IdentityCompleted
      [] name = "IdentityFailed" -> IdentityFailed
EndpointNames == {"StartSignup", "VerifyPhone", "BasicInfo", "Password", "Pin",
                  "KycRed", "KycGreen", "IdentityCompleted", "IdentityFailed"}

VerdictOf(name) ==
    CASE name \in {"KycGreen", "IdentityCompleted"} -> "SUCCESS"
      [] name \in {"KycRed", "IdentityFailed"} -> "FAILED"
      [] OTHER -> verdict

-----------------------------------------------------------------------------
(* The state in Redis.                                                     *)

\* createOnboardingSession: what was there is overwritten.
\* Mutant: the steps of an earlier attempt are kept.
FreshSessionMutantKept ==
    [NoSession EXCEPT !.step = "phone_verification", !.done = session.done]
FreshSession == [NoSession EXCEPT !.step = "phone_verification"]

\* updateOnboardingStep: the step left is completed, the new one is current.
\* Mutant: a verdict is stored as the step that brought it.
MarkedMutantStep(s, step) ==
    [s EXCEPT !.step = step, !.done = @ \cup {s.step},
       !.verification = IF step \in {"verification_success", "verification_failed"}
                          THEN step ELSE @]
Marked(s, step) ==
    [s EXCEPT !.step = step, !.done = @ \cup {s.step},
       !.verification = CASE step = "verification_success" -> "success"
                          [] step = "verification_failed" -> "failed"
                          [] OTHER -> @]

-----------------------------------------------------------------------------
(* Requests.                                                               *)

Now(h) == onboardingHandler[h].todo[1]
Busy(h) == onboardingHandler[h].todo # <<>>
Calls(h, call) == Busy(h) /\ Now(h)[1] = call

ReceiveOnboarding(h, name) ==
    /\ ~Busy(h)
    /\ onboardings < MaxOnboarding
    /\ onboardings' = onboardings + 1
    /\ onboardingHandler' = [onboardingHandler EXCEPT ![h] =
         [IdleOnboarding EXCEPT !.todo = Endpoint(name), !.name = name]]
    /\ tangled' = (tangled \/ \E g \in OnboardingHandlers : Busy(g))
    /\ UNCHANGED <<session, user, identity, event, onboardingFaults, marked, verdict>>

\* The call is done; after the last one the request is answered.
Proceed(h, d) ==
    IF Len(d.todo) > 1
      THEN /\ onboardingHandler' = [onboardingHandler EXCEPT ![h] =
                [d EXCEPT !.todo = Tail(@)]]
           /\ UNCHANGED verdict
      ELSE /\ onboardingHandler' = [onboardingHandler EXCEPT ![h] = IdleOnboarding]
           /\ verdict' = VerdictOf(d.name)

\* An error or an early return ends the request.
Leave(h) ==
    /\ onboardingHandler' = [onboardingHandler EXCEPT ![h] = IdleOnboarding]
    /\ UNCHANGED verdict

\* The conditions under which a request goes on: a users row, none, the one
\* looked up before the insert, a session with a userId, an identity row.
Allows(h) ==
    CASE Now(h)[1] = "absent" -> ~user.registered
      [] Now(h)[1] = "present" -> user.registered
      [] Now(h)[1] = "sign" -> onboardingHandler[h].found
      [] Now(h)[1] = "scan" -> session # NoSession /\ session.userId
      [] Now(h)[1] = "unverified" -> identity \notin {"absent", "VERIFIED"}
      [] Now(h)[1] = "known" -> identity # "absent"

Check(h) ==
    /\ \E call \in {"absent", "present", "sign", "scan", "unverified", "known"} : Calls(h, call)
    /\ IF Allows(h) THEN Proceed(h, onboardingHandler[h]) ELSE Leave(h)
    /\ UNCHANGED <<session, user, identity, event, onboardings, onboardingFaults,
                   marked, tangled>>

FindUser(h) ==
    /\ Calls(h, "find")
    /\ Proceed(h, [onboardingHandler[h] EXCEPT !.found = user.registered])
    /\ UNCHANGED <<session, user, identity, event, onboardings, onboardingFaults,
                   marked, tangled>>

\* phoneNumber is unique. The password column is not nullable by its entity,
\* and the tables are made by migrations: the insert succeeds or is refused.
InsertUser(h) ==
    /\ Calls(h, "insert")
    /\ \/ /\ ~user.registered
          /\ user' = [user EXCEPT !.registered = TRUE]
          /\ Proceed(h, onboardingHandler[h])
       \/ UNCHANGED user /\ Leave(h)
    /\ UNCHANGED <<session, identity, event, onboardings, onboardingFaults, marked, tangled>>

CreateSession(h) ==
    /\ Calls(h, "create")
    /\ session' = FreshSession
    /\ marked' = {"phone_verification"}
    /\ Proceed(h, onboardingHandler[h])
    /\ UNCHANGED <<user, identity, event, onboardings, onboardingFaults, tangled>>

\* getOnboardingState.
GetSession(h) ==
    /\ Calls(h, "get")
    /\ Proceed(h, [onboardingHandler[h] EXCEPT !.copy = session])
    /\ UNCHANGED <<session, user, identity, event, onboardings, onboardingFaults,
                   marked, tangled>>

\* markBasicInfoCompleted writes the state once more, with the user's id.
Rewritten(h) ==
    IF Now(h)[1] = "own" THEN [onboardingHandler[h].copy EXCEPT !.userId = TRUE]
                         ELSE Marked(onboardingHandler[h].copy, Now(h)[2])

\* Without a state nothing is written, and markPinCompleted makes no second mark.
SetSession(h) ==
    /\ Calls(h, "set") \/ Calls(h, "own")
    /\ IF onboardingHandler[h].copy = NoSession
         THEN /\ IF Now(h)[2] = "pin_setup" THEN Leave(h) ELSE Proceed(h, onboardingHandler[h])
              /\ UNCHANGED <<session, marked>>
         ELSE /\ session' = Rewritten(h)
              /\ marked' = marked \cup {Rewritten(h).step}
              /\ Proceed(h, [onboardingHandler[h] EXCEPT !.copy = Rewritten(h)])
    /\ UNCHANGED <<user, identity, event, onboardings, onboardingFaults, tangled>>

\* users.update: only the kycStatus column is written.
UpdateKyc(h) ==
    /\ Calls(h, "kyc")
    /\ user' = [user EXCEPT !.kyc = Now(h)[2]]
    /\ Proceed(h, onboardingHandler[h])
    /\ UNCHANGED <<session, identity, event, onboardings, onboardingFaults, marked, tangled>>

\* A status the event row has already is an exact duplicate.
SaveEvent(h) ==
    /\ Calls(h, "event")
    /\ IF event = Now(h)[2] THEN Leave(h) ELSE Proceed(h, onboardingHandler[h])
    /\ event' = Now(h)[2]
    /\ UNCHANGED <<session, user, identity, onboardings, onboardingFaults, marked, tangled>>

SaveIdentity(h) ==
    /\ Calls(h, "identity")
    /\ identity' = Now(h)[2]
    /\ Proceed(h, onboardingHandler[h])
    /\ UNCHANGED <<session, user, event, onboardings, onboardingFaults, marked, tangled>>

-----------------------------------------------------------------------------
(* The surroundings.                                                       *)

\* The verification is begun outside this repository: its row is PENDING.
InitiateVerification ==
    /\ user.registered /\ identity = "absent"
    /\ identity' = "PENDING"
    /\ UNCHANGED <<session, user, event, onboardingHandler, onboardings, onboardingFaults,
                   marked, verdict, tangled>>

\* 100 days without a mark.
ExpireSession ==
    /\ session # NoSession
    /\ session' = NoSession
    /\ marked' = {}
    /\ tangled' = (tangled \/ \E h \in OnboardingHandlers : Busy(h))
    /\ UNCHANGED <<user, identity, event, onboardingHandler, onboardings, onboardingFaults,
                   verdict>>

\* The error of a failed read of the state is caught: there is none, then, and
\* the request goes on without its mark.
MissSession(h) ==
    /\ Calls(h, "get")
    /\ Proceed(h, [onboardingHandler[h] EXCEPT !.copy = NoSession])

\* Whatever fails while Sumsub's GREEN is written is logged, and the webhook
\* answered.
SwallowGreen(h) ==
    /\ onboardingHandler[h].name = "KycGreen"
    /\ ~Calls(h, "present")
    /\ onboardingHandler' = [onboardingHandler EXCEPT ![h] = IdleOnboarding]
    /\ verdict' = VerdictOf("KycGreen")

\* The call awaited fails, or the process restarts while it waits.
FailOnboarding(h) ==
    /\ Busy(h)
    /\ onboardingFaults < MaxOnboardingFaults
    /\ onboardingFaults' = onboardingFaults + 1
    /\ Leave(h) \/ MissSession(h) \/ SwallowGreen(h)
    /\ tangled' = TRUE
    /\ UNCHANGED <<session, user, identity, event, onboardings, marked>>

OnboardingStep(h) ==
    \/ Check(h) \/ FindUser(h) \/ InsertUser(h) \/ CreateSession(h)
    \/ GetSession(h) \/ SetSession(h) \/ UpdateKyc(h)
    \/ SaveEvent(h) \/ SaveIdentity(h)

OnboardingNext ==
    \/ \E h \in OnboardingHandlers :
         \/ \E name \in EndpointNames : ReceiveOnboarding(h, name)
         \/ OnboardingStep(h)
         \/ FailOnboarding(h)
    \/ InitiateVerification
    \/ ExpireSession

OnboardingSpec == OnboardingInit /\ [][OnboardingNext]_onboardingVars

-----------------------------------------------------------------------------
(* Properties.                                                             *)

Sessions == [step : OnboardingSteps \cup {"none"}, done : SUBSET OnboardingSteps,
             userId : BOOLEAN, verification : {"none", "success", "failed"}]

OnboardingTypeOK ==
    /\ session \in Sessions
    /\ user \in [registered : BOOLEAN, kyc : {"NOT STARTED", "SUCCESS", "FAILED"}]
    /\ identity \in {"absent", "PENDING", "VERIFIED", "FAILED"}
    /\ event \in {"absent", "COMPLETED", "FAILED"}
    /\ \A h \in OnboardingHandlers :
         /\ onboardingHandler[h].name \in EndpointNames \cup {"none"}
         /\ onboardingHandler[h].copy \in Sessions
         /\ onboardingHandler[h].found \in BOOLEAN
         /\ Len(onboardingHandler[h].todo) \in 0..7
    /\ onboardings \in 0..MaxOnboarding /\ onboardingFaults \in 0..MaxOnboardingFaults
    /\ marked \subseteq OnboardingSteps
    /\ verdict \in {"NOT STARTED", "SUCCESS", "FAILED"}
    /\ tangled \in BOOLEAN

QuietOnboarding == ~tangled /\ \A h \in OnboardingHandlers : ~Busy(h)

\* Whichever of Sumsub and APT Pay decided last, and in whatever order their
\* webhooks come and come again, the users row says what the last processed
\* verdict said, and the state the app resumes from, if it holds a verdict,
\* says the same: requests that neither overlap nor fail keep the three
\* places a verdict is written to (processKycWebhook, the two identity
\* handlers) in agreement.
KycAgrees ==
    QuietOnboarding =>
        /\ user.kyc = verdict
        /\ session.verification # "none" =>
             session.verification = (IF user.kyc = "SUCCESS" THEN "success" ELSE "failed")

\* An app that resumes is told exactly the steps marked since its session was
\* created: although a mark completes the step it leaves and not the one it
\* makes, and a repeated signup replaces the session, none is lost and none is
\* left over while requests do not overlap.
ResumeIsEarned ==
    QuietOnboarding /\ session # NoSession =>
        session.done \cup {session.step} = marked
=============================================================================
