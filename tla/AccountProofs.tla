--------------------------- MODULE AccountProofs ---------------------------
(* What a user's account can be told to be: how far its onboarding has come *)
(* and what the verdicts on its identity are, and what whole-row saves of   *)
(* its profile cannot break; for every set of requests, users and addresses *)
(* and every bound.                                                         *)
EXTENDS Onboarding, Profile, SequenceTheorems, TLAPS

-----------------------------------------------------------------------------
(* Onboarding. The endpoints are looked at once: what a request has still   *)
(* to do, at any of its awaits, is WellMade.                                *)

Words ==
    {"absent", "present", "find", "insert", "sign", "scan", "create", "get", "set", "own",
     "kyc", "event", "unverified", "known", "identity", "user", "session", "found",
     "COMPLETED", "FAILED", "VERIFIED", "SUCCESS"} \cup OnboardingSteps
Awaits == Words \X Words
Deciding == {"KycRed", "KycGreen", "IdentityCompleted", "IdentityFailed"}
Decision(name) == IF name \in {"KycGreen", "IdentityCompleted"} THEN "SUCCESS" ELSE "FAILED"
DecisionStep(name) ==
    IF name \in {"KycGreen", "IdentityCompleted"}
      THEN "verification_success" ELSE "verification_failed"
\* The word the state in Redis has for a verdict.
Word(kyc) == IF kyc = "SUCCESS" THEN "success" ELSE "failed"

\* A call with r more to come; one that writes the state needs a copy of it,
\* read or written by the call before.
CallMade(name, c, r) ==
    /\ c[1] = "set" =>
         /\ c[2] \in OnboardingSteps
         /\ c[2] \in {"verification_success", "verification_failed"} =>
              name \in Deciding /\ r = 1
    /\ c[1] = "kyc" => name \in Deciding /\ r = 0 /\ c[2] = Decision(name)
    /\ c[1] = "event" => c[2] \in {"COMPLETED", "FAILED"}
    /\ c[1] = "identity" => c[2] \in {"VERIFIED", "FAILED"}
    /\ name \in Deciding =>
         /\ r = 0 => c[1] = "kyc"
         /\ r = 1 => c = <<"set", DecisionStep(name)>>
CallFollows(b, c) == c[1] \in {"set", "own"} => b[1] \in {"get", "set"}

WellMade(name, t) ==
    /\ t \in Seq(Awaits)
    /\ Len(t) <= 7
    /\ \A i \in 1..Len(t) : CallMade(name, t[i], Len(t) - i)
    /\ \A i \in 2..Len(t) : CallFollows(t[i - 1], t[i])

LEMMA WellMadeTail ==
    ASSUME NEW name, NEW t, WellMade(name, t), Len(t) > 1
    PROVE  /\ WellMade(name, Tail(t)) /\ Len(Tail(t)) = Len(t) - 1
           /\ Tail(t)[1] = t[2]
<1> DEFINE u == Tail(t)
           n == Len(t)
<1>1. t \in Seq(Awaits) /\ n \in Nat /\ n > 1 /\ n <= 7
  BY LenProperties DEF WellMade
<1>2. t # <<>>
  BY <1>1
<1>3. u \in Seq(Awaits) /\ Len(u) = n - 1 /\ \A i \in 1..(n - 1) : u[i] = t[i + 1]
  BY <1>1, <1>2, HeadTailProperties
<1> HIDE DEF u
<1>4. ASSUME NEW i \in 1..Len(u) PROVE CallMade(name, u[i], Len(u) - i)
  <2>1. i + 1 \in 1..n /\ u[i] = t[i + 1] /\ n - (i + 1) = Len(u) - i
    BY <1>1, <1>3
  <2>2. CallMade(name, t[i + 1], n - (i + 1))
    BY <2>1 DEF WellMade
  <2> QED
    BY <2>1, <2>2
<1>5. ASSUME NEW i \in 2..Len(u) PROVE CallFollows(u[i - 1], u[i])
  <2>1. i + 1 \in 2..n /\ u[i] = t[i + 1] /\ u[i - 1] = t[i] /\ i = (i + 1) - 1
    BY <1>1, <1>3
  <2>2. CallFollows(t[(i + 1) - 1], t[i + 1])
    BY <2>1 DEF WellMade
  <2> QED
    BY <2>1, <2>2
<1>6. Len(u) <= 7
  BY <1>1, <1>3
<1>7. WellMade(name, u)
  BY <1>3, <1>4, <1>5, <1>6 DEF WellMade
<1>8. u[1] = t[2]
  BY <1>1, <1>3
<1> QED
  BY <1>3, <1>7, <1>8 DEF u

LEMMA AwaitOf ==
    ASSUME NEW a \in Words, NEW b \in Words
    PROVE  <<a, b>> \in Awaits
BY DEF Awaits

LEMMA Tuples ==
    ASSUME NEW T, NEW a \in T, NEW b \in T, NEW c \in T, NEW d \in T
    PROVE  /\ <<a>> \in Seq(T) /\ <<a, b>> \in Seq(T)
           /\ <<a, b, c>> \in Seq(T) /\ <<a, b, c, d>> \in Seq(T)
<1>1. <<a>> \in Seq(T)
  OBVIOUS
<1>2. <<a, b>> \in Seq(T)
  OBVIOUS
<1>3. <<a, b, c>> \in Seq(T)
  OBVIOUS
<1>4. <<a, b, c, d>> \in Seq(T)
  OBVIOUS
<1> QED
  BY <1>1, <1>2, <1>3, <1>4

LEMMA MarkAwaits ==
    ASSUME NEW step \in OnboardingSteps
    PROVE  Mark(step) \in Seq(Awaits)
<1>1. PICK g \in Awaits : g = <<"get", step>>
  BY AwaitOf DEF Words
<1>2. PICK s \in Awaits : s = <<"set", step>>
  BY AwaitOf DEF Words
<1>3. <<g, s>> \in Seq(Awaits)
  BY Tuples
<1> QED
  BY <1>1, <1>2, <1>3 DEF Mark

LEMMA JoinAwaits ==
    ASSUME NEW s \in Seq(Awaits), NEW t \in Seq(Awaits)
    PROVE  s \o t \in Seq(Awaits)
BY ConcatProperties

LEMMA SignupMade ==
    /\ WellMade("StartSignup", StartSignup) /\ WellMade("VerifyPhone", VerifyPhone)
    /\ WellMade("BasicInfo", BasicInfo) /\ WellMade("Password", Password)
    /\ WellMade("Pin", Pin)
<1>1. WellMade("StartSignup", StartSignup)
  <2>1. /\ StartSignup \in Seq(Awaits) /\ Len(StartSignup) = 2
        /\ StartSignup[1] = <<"absent", "user">> /\ StartSignup[2] = <<"create", "session">>
    <3>1. StartSignup \in Seq(Awaits)
      <4>1. PICK a \in Awaits : a = <<"absent", "user">>
        BY AwaitOf DEF Words
      <4>2. PICK b \in Awaits : b = <<"create", "session">>
        BY AwaitOf DEF Words
      <4>3. <<a, b>> \in Seq(Awaits)
        BY Tuples
      <4>4. StartSignup = <<a, b>>
        BY <4>1, <4>2 DEF StartSignup
      <4> QED
        BY <4>3, <4>4
    <3>2. Len(StartSignup) = 2
      BY DEF StartSignup
    <3>3. StartSignup[1] = <<"absent", "user">>
      BY DEF StartSignup
    <3>4. StartSignup[2] = <<"create", "session">>
      BY DEF StartSignup
    <3> QED
      BY <3>1, <3>2, <3>3, <3>4
  <2> QED
    BY <2>1 DEF WellMade, CallMade, CallFollows, Deciding
<1>2. WellMade("VerifyPhone", VerifyPhone)
  <2>1. /\ VerifyPhone \in Seq(Awaits) /\ Len(VerifyPhone) = 2
        /\ VerifyPhone[1] = <<"get", "phone_verified">>
        /\ VerifyPhone[2] = <<"set", "phone_verified">>
    <3>1. VerifyPhone \in Seq(Awaits)
      <4>1. Mark("phone_verified") \in Seq(Awaits)
        BY MarkAwaits DEF OnboardingSteps
      <4>2. VerifyPhone = Mark("phone_verified")
        BY DEF VerifyPhone
      <4> QED
        BY <4>1, <4>2
    <3>2. Len(VerifyPhone) = 2
      BY DEF VerifyPhone, Mark
    <3>3. VerifyPhone[1] = <<"get", "phone_verified">>
      BY DEF VerifyPhone, Mark
    <3>4. VerifyPhone[2] = <<"set", "phone_verified">>
      BY DEF VerifyPhone, Mark
    <3> QED
      BY <3>1, <3>2, <3>3, <3>4
  <2> QED
    BY <2>1 DEF WellMade, CallMade, CallFollows, Deciding, OnboardingSteps
<1>3. WellMade("BasicInfo", BasicInfo)
  <2>1. /\ BasicInfo \in Seq(Awaits) /\ Len(BasicInfo) = 6
        /\ BasicInfo[1] = <<"find", "user">> /\ BasicInfo[2] = <<"insert", "user">>
        /\ BasicInfo[3] = <<"sign", "found">> /\ BasicInfo[4] = <<"get", "basic_info">>
        /\ BasicInfo[5] = <<"set", "basic_info">> /\ BasicInfo[6] = <<"own", "session">>
    <3>1. BasicInfo \in Seq(Awaits)
      <4>1. PICK a \in Awaits : a = <<"find", "user">>
        BY AwaitOf DEF Words
      <4>2. PICK b \in Awaits : b = <<"insert", "user">>
        BY AwaitOf DEF Words
      <4>3. PICK c \in Awaits : c = <<"sign", "found">>
        BY AwaitOf DEF Words
      <4>4. PICK d \in Awaits : d = <<"own", "session">>
        BY AwaitOf DEF Words
      <4>5. <<a, b, c>> \in Seq(Awaits) /\ <<d>> \in Seq(Awaits)
        BY Tuples
      <4>6. Mark("basic_info") \in Seq(Awaits)
        BY MarkAwaits DEF OnboardingSteps
      <4>7. <<a, b, c>> \o Mark("basic_info") \in Seq(Awaits)
        BY <4>5, <4>6, JoinAwaits
      <4>8. (<<a, b, c>> \o Mark("basic_info")) \o <<d>> \in Seq(Awaits)
        BY <4>5, <4>6, <4>7, JoinAwaits
      <4>9. BasicInfo = <<a, b, c>> \o Mark("basic_info") \o <<d>>
        BY <4>1, <4>2, <4>3, <4>4 DEF BasicInfo
      <4> QED
        BY <4>8, <4>9
    <3>2. Len(BasicInfo) = 6
      BY DEF BasicInfo, Mark
    <3>3. BasicInfo[1] = <<"find", "user">>
      BY DEF BasicInfo, Mark
    <3>4. BasicInfo[2] = <<"insert", "user">>
      BY DEF BasicInfo, Mark
    <3>5. BasicInfo[3] = <<"sign", "found">>
      BY DEF BasicInfo, Mark
    <3>6. BasicInfo[4] = <<"get", "basic_info">>
      BY DEF BasicInfo, Mark
    <3>7. BasicInfo[5] = <<"set", "basic_info">>
      BY DEF BasicInfo, Mark
    <3>8. BasicInfo[6] = <<"own", "session">>
      BY DEF BasicInfo, Mark
    <3> QED
      BY <3>1, <3>2, <3>3, <3>4, <3>5, <3>6, <3>7, <3>8
  <2> QED
    BY <2>1 DEF WellMade, CallMade, CallFollows, Deciding, OnboardingSteps
<1>4. WellMade("Password", Password)
  <2>1. /\ Password \in Seq(Awaits) /\ Len(Password) = 3
        /\ Password[1] = <<"present", "user">> /\ Password[2] = <<"get", "password_setup">>
        /\ Password[3] = <<"set", "password_setup">>
    <3>1. Password \in Seq(Awaits)
      <4>1. PICK a \in Awaits : a = <<"present", "user">>
        BY AwaitOf DEF Words
      <4>2. <<a>> \in Seq(Awaits)
        BY Tuples
      <4>3. Mark("password_setup") \in Seq(Awaits)
        BY MarkAwaits DEF OnboardingSteps
      <4>4. <<a>> \o Mark("password_setup") \in Seq(Awaits)
        BY <4>2, <4>3, JoinAwaits
      <4>5. Password = <<a>> \o Mark("password_setup")
        BY <4>1 DEF Password
      <4> QED
        BY <4>4, <4>5
    <3>2. Len(Password) = 3
      BY DEF Password, Mark
    <3>3. Password[1] = <<"present", "user">>
      BY DEF Password, Mark
    <3>4. Password[2] = <<"get", "password_setup">>
      BY DEF Password, Mark
    <3>5. Password[3] = <<"set", "password_setup">>
      BY DEF Password, Mark
    <3> QED
      BY <3>1, <3>2, <3>3, <3>4, <3>5
  <2> QED
    BY <2>1 DEF WellMade, CallMade, CallFollows, Deciding, OnboardingSteps
<1>5. WellMade("Pin", Pin)
  <2>1. /\ Pin \in Seq(Awaits) /\ Len(Pin) = 5
        /\ Pin[1] = <<"scan", "session">>
        /\ Pin[2] = <<"get", "pin_setup">> /\ Pin[3] = <<"set", "pin_setup">>
        /\ Pin[4] = <<"get", "completed">> /\ Pin[5] = <<"set", "completed">>
    <3>1. Pin \in Seq(Awaits)
      <4>1. PICK a \in Awaits : a = <<"scan", "session">>
        BY AwaitOf DEF Words
      <4>2. <<a>> \in Seq(Awaits)
        BY Tuples
      <4>3. Mark("pin_setup") \in Seq(Awaits) /\ Mark("completed") \in Seq(Awaits)
        BY MarkAwaits DEF OnboardingSteps
      <4>4. <<a>> \o Mark("pin_setup") \in Seq(Awaits)
        BY <4>2, <4>3, JoinAwaits
      <4>5. (<<a>> \o Mark("pin_setup")) \o Mark("completed") \in Seq(Awaits)
        BY <4>2, <4>3, <4>4, JoinAwaits
      <4>6. Pin = <<a>> \o Mark("pin_setup") \o Mark("completed")
        BY <4>1 DEF Pin
      <4> QED
        BY <4>5, <4>6
    <3>2. Len(Pin) = 5
      BY DEF Pin, Mark
    <3>3. Pin[1] = <<"scan", "session">>
      BY DEF Pin, Mark
    <3>4. Pin[2] = <<"get", "pin_setup">>
      BY DEF Pin, Mark
    <3>5. Pin[3] = <<"set", "pin_setup">>
      BY DEF Pin, Mark
    <3>6. Pin[4] = <<"get", "completed">>
      BY DEF Pin, Mark
    <3>7. Pin[5] = <<"set", "completed">>
      BY DEF Pin, Mark
    <3> QED
      BY <3>1, <3>2, <3>3, <3>4, <3>5, <3>6, <3>7
  <2> QED
    BY <2>1 DEF WellMade, CallMade, CallFollows, Deciding, OnboardingSteps
<1> QED
  BY <1>1, <1>2, <1>3, <1>4, <1>5

LEMMA VerdictsMade ==
    /\ WellMade("KycRed", KycRed) /\ WellMade("KycGreen", KycGreen)
    /\ WellMade("IdentityCompleted", IdentityCompleted)
    /\ WellMade("IdentityFailed", IdentityFailed)
    /\ Len(KycRed) = 4 /\ Len(KycGreen) = 4
    /\ Len(IdentityCompleted) = 7 /\ Len(IdentityFailed) = 7
<1>1. WellMade("KycRed", KycRed) /\ Len(KycRed) = 4
  <2>1. /\ KycRed \in Seq(Awaits) /\ Len(KycRed) = 4
        /\ KycRed[1] = <<"present", "user">> /\ KycRed[2] = <<"get", "verification_failed">>
        /\ KycRed[3] = <<"set", "verification_failed">> /\ KycRed[4] = <<"kyc", "FAILED">>
    <3>1. KycRed \in Seq(Awaits)
      <4>1. PICK a \in Awaits : a = <<"present", "user">>
        BY AwaitOf DEF Words
      <4>2. PICK b \in Awaits : b = <<"kyc", "FAILED">>
        BY AwaitOf DEF Words
      <4>3. <<a>> \in Seq(Awaits) /\ <<b>> \in Seq(Awaits)
        BY Tuples
      <4>4. Mark("verification_failed") \in Seq(Awaits)
        BY MarkAwaits DEF OnboardingSteps
      <4>5. <<a>> \o Mark("verification_failed") \in Seq(Awaits)
        BY <4>3, <4>4, JoinAwaits
      <4>6. (<<a>> \o Mark("verification_failed")) \o <<b>> \in Seq(Awaits)
        BY <4>3, <4>4, <4>5, JoinAwaits
      <4>7. KycRed = <<a>> \o Mark("verification_failed") \o <<b>>
        BY <4>1, <4>2 DEF KycRed
      <4> QED
        BY <4>6, <4>7
    <3>2. Len(KycRed) = 4
      BY DEF KycRed, Mark
    <3>3. KycRed[1] = <<"present", "user">>
      BY DEF KycRed, Mark
    <3>4. KycRed[2] = <<"get", "verification_failed">>
      BY DEF KycRed, Mark
    <3>5. KycRed[3] = <<"set", "verification_failed">>
      BY DEF KycRed, Mark
    <3>6. KycRed[4] = <<"kyc", "FAILED">>
      BY DEF KycRed, Mark
    <3> QED
      BY <3>1, <3>2, <3>3, <3>4, <3>5, <3>6
  <2> QED
    BY <2>1 DEF WellMade, CallMade, CallFollows, Deciding, OnboardingSteps, Decision, DecisionStep
<1>2. WellMade("KycGreen", KycGreen) /\ Len(KycGreen) = 4
  <2>1. /\ KycGreen \in Seq(Awaits) /\ Len(KycGreen) = 4
        /\ KycGreen[1] = <<"present", "user">> /\ KycGreen[2] = <<"get", "verification_success">>
        /\ KycGreen[3] = <<"set", "verification_success">> /\ KycGreen[4] = <<"kyc", "SUCCESS">>
    <3>1. KycGreen \in Seq(Awaits)
      <4>1. PICK a \in Awaits : a = <<"present", "user">>
        BY AwaitOf DEF Words
      <4>2. PICK b \in Awaits : b = <<"kyc", "SUCCESS">>
        BY AwaitOf DEF Words
      <4>3. <<a>> \in Seq(Awaits) /\ <<b>> \in Seq(Awaits)
        BY Tuples
      <4>4. Mark("verification_success") \in Seq(Awaits)
        BY MarkAwaits DEF OnboardingSteps
      <4>5. <<a>> \o Mark("verification_success") \in Seq(Awaits)
        BY <4>3, <4>4, JoinAwaits
      <4>6. (<<a>> \o Mark("verification_success")) \o <<b>> \in Seq(Awaits)
        BY <4>3, <4>4, <4>5, JoinAwaits
      <4>7. KycGreen = <<a>> \o Mark("verification_success") \o <<b>>
        BY <4>1, <4>2 DEF KycGreen
      <4> QED
        BY <4>6, <4>7
    <3>2. Len(KycGreen) = 4
      BY DEF KycGreen, Mark
    <3>3. KycGreen[1] = <<"present", "user">>
      BY DEF KycGreen, Mark
    <3>4. KycGreen[2] = <<"get", "verification_success">>
      BY DEF KycGreen, Mark
    <3>5. KycGreen[3] = <<"set", "verification_success">>
      BY DEF KycGreen, Mark
    <3>6. KycGreen[4] = <<"kyc", "SUCCESS">>
      BY DEF KycGreen, Mark
    <3> QED
      BY <3>1, <3>2, <3>3, <3>4, <3>5, <3>6
  <2> QED
    BY <2>1 DEF WellMade, CallMade, CallFollows, Deciding, OnboardingSteps, Decision, DecisionStep
<1>3. WellMade("IdentityCompleted", IdentityCompleted) /\ Len(IdentityCompleted) = 7
  <2> DEFINE t == IdentityCompleted
  <2>1. /\ t \in Seq(Awaits) /\ Len(t) = 7
        /\ t[1] = <<"event", "COMPLETED">> /\ t[2] = <<"unverified", "identity">>
        /\ t[3] = <<"identity", "VERIFIED">> /\ t[4] = <<"present", "user">>
        /\ t[5] = <<"get", "verification_success">> /\ t[6] = <<"set", "verification_success">>
        /\ t[7] = <<"kyc", "SUCCESS">>
    <3>1. t \in Seq(Awaits)
      <4>1. PICK a \in Awaits : a = <<"event", "COMPLETED">>
        BY AwaitOf DEF Words
      <4>2. PICK b \in Awaits : b = <<"unverified", "identity">>
        BY AwaitOf DEF Words
      <4>3. PICK c \in Awaits : c = <<"identity", "VERIFIED">>
        BY AwaitOf DEF Words
      <4>4. PICK d \in Awaits : d = <<"present", "user">>
        BY AwaitOf DEF Words
      <4>5. PICK e \in Awaits : e = <<"kyc", "SUCCESS">>
        BY AwaitOf DEF Words
      <4>6. <<a, b, c, d>> \in Seq(Awaits) /\ <<e>> \in Seq(Awaits)
        BY Tuples
      <4>7. Mark("verification_success") \in Seq(Awaits)
        BY MarkAwaits DEF OnboardingSteps
      <4>8. <<a, b, c, d>> \o Mark("verification_success") \in Seq(Awaits)
        BY <4>6, <4>7, JoinAwaits
      <4>9. (<<a, b, c, d>> \o Mark("verification_success")) \o <<e>> \in Seq(Awaits)
        BY <4>6, <4>7, <4>8, JoinAwaits
      <4>10. IdentityCompleted = <<a, b, c, d>> \o Mark("verification_success") \o <<e>>
        BY <4>1, <4>2, <4>3, <4>4, <4>5 DEF IdentityCompleted
      <4> QED
        BY <4>9, <4>10
    <3>2. Len(t) = 7
      BY DEF IdentityCompleted, Mark
    <3>3. t[1] = <<"event", "COMPLETED">>
      BY DEF IdentityCompleted, Mark
    <3>4. t[2] = <<"unverified", "identity">>
      BY DEF IdentityCompleted, Mark
    <3>5. t[3] = <<"identity", "VERIFIED">>
      BY DEF IdentityCompleted, Mark
    <3>6. t[4] = <<"present", "user">>
      BY DEF IdentityCompleted, Mark
    <3>7. t[5] = <<"get", "verification_success">>
      BY DEF IdentityCompleted, Mark
    <3>8. t[6] = <<"set", "verification_success">>
      BY DEF IdentityCompleted, Mark
    <3>9. t[7] = <<"kyc", "SUCCESS">>
      BY DEF IdentityCompleted, Mark
    <3> QED
      BY <3>1, <3>2, <3>3, <3>4, <3>5, <3>6, <3>7, <3>8, <3>9
  <2> QED
    BY <2>1 DEF WellMade, CallMade, CallFollows, Deciding, OnboardingSteps, Decision, DecisionStep
<1>4. WellMade("IdentityFailed", IdentityFailed) /\ Len(IdentityFailed) = 7
  <2> DEFINE t == IdentityFailed
  <2>1. /\ t \in Seq(Awaits) /\ Len(t) = 7
        /\ t[1] = <<"event", "FAILED">> /\ t[2] = <<"known", "identity">>
        /\ t[3] = <<"identity", "FAILED">> /\ t[4] = <<"present", "user">>
        /\ t[5] = <<"get", "verification_failed">> /\ t[6] = <<"set", "verification_failed">>
        /\ t[7] = <<"kyc", "FAILED">>
    <3>1. t \in Seq(Awaits)
      <4>1. PICK a \in Awaits : a = <<"event", "FAILED">>
        BY AwaitOf DEF Words
      <4>2. PICK b \in Awaits : b = <<"known", "identity">>
        BY AwaitOf DEF Words
      <4>3. PICK c \in Awaits : c = <<"identity", "FAILED">>
        BY AwaitOf DEF Words
      <4>4. PICK d \in Awaits : d = <<"present", "user">>
        BY AwaitOf DEF Words
      <4>5. PICK e \in Awaits : e = <<"kyc", "FAILED">>
        BY AwaitOf DEF Words
      <4>6. <<a, b, c, d>> \in Seq(Awaits) /\ <<e>> \in Seq(Awaits)
        BY Tuples
      <4>7. Mark("verification_failed") \in Seq(Awaits)
        BY MarkAwaits DEF OnboardingSteps
      <4>8. <<a, b, c, d>> \o Mark("verification_failed") \in Seq(Awaits)
        BY <4>6, <4>7, JoinAwaits
      <4>9. (<<a, b, c, d>> \o Mark("verification_failed")) \o <<e>> \in Seq(Awaits)
        BY <4>6, <4>7, <4>8, JoinAwaits
      <4>10. IdentityFailed = <<a, b, c, d>> \o Mark("verification_failed") \o <<e>>
        BY <4>1, <4>2, <4>3, <4>4, <4>5 DEF IdentityFailed
      <4> QED
        BY <4>9, <4>10
    <3>2. Len(t) = 7
      BY DEF IdentityFailed, Mark
    <3>3. t[1] = <<"event", "FAILED">>
      BY DEF IdentityFailed, Mark
    <3>4. t[2] = <<"known", "identity">>
      BY DEF IdentityFailed, Mark
    <3>5. t[3] = <<"identity", "FAILED">>
      BY DEF IdentityFailed, Mark
    <3>6. t[4] = <<"present", "user">>
      BY DEF IdentityFailed, Mark
    <3>7. t[5] = <<"get", "verification_failed">>
      BY DEF IdentityFailed, Mark
    <3>8. t[6] = <<"set", "verification_failed">>
      BY DEF IdentityFailed, Mark
    <3>9. t[7] = <<"kyc", "FAILED">>
      BY DEF IdentityFailed, Mark
    <3> QED
      BY <3>1, <3>2, <3>3, <3>4, <3>5, <3>6, <3>7, <3>8, <3>9
  <2> QED
    BY <2>1 DEF WellMade, CallMade, CallFollows, Deciding, OnboardingSteps, Decision, DecisionStep
<1> QED
  BY <1>1, <1>2, <1>3, <1>4

\* No endpoint begins with a write of a state it has not read, and a verdict
\* takes more than one call.
LEMMA EndpointMade ==
    ASSUME NEW name \in EndpointNames
    PROVE  /\ WellMade(name, Endpoint(name))
           /\ Endpoint(name)[1][1] \notin {"set", "own"}
           /\ name \in Deciding => Len(Endpoint(name)) > 1
<1>1. WellMade(name, Endpoint(name))
  BY SignupMade, VerdictsMade DEF EndpointNames, Endpoint
<1>2. Endpoint(name)[1][1] \notin {"set", "own"}
  BY DEF EndpointNames, Endpoint, StartSignup, VerifyPhone, BasicInfo, Password, Pin,
         KycRed, KycGreen, IdentityCompleted, IdentityFailed, Mark
<1>3. name \in Deciding => Len(Endpoint(name)) > 1
  <2>1. /\ Len(Endpoint("KycRed")) = 4 /\ Len(Endpoint("KycGreen")) = 4
        /\ Len(Endpoint("IdentityCompleted")) = 7 /\ Len(Endpoint("IdentityFailed")) = 7
    BY VerdictsMade DEF Endpoint
  <2>2. CASE name = "KycRed"
    <3>1. Len(Endpoint(name)) = 4
      BY <2>1, <2>2, Zenon
    <3> QED
      BY <3>1
  <2>3. CASE name = "KycGreen"
    <3>1. Len(Endpoint(name)) = 4
      BY <2>1, <2>3, Zenon
    <3> QED
      BY <3>1
  <2>4. CASE name = "IdentityCompleted"
    <3>1. Len(Endpoint(name)) = 7
      BY <2>1, <2>4, Zenon
    <3> QED
      BY <3>1
  <2>5. CASE name = "IdentityFailed"
    <3>1. Len(Endpoint(name)) = 7
      BY <2>1, <2>5, Zenon
    <3> QED
      BY <3>1
  <2> QED
    BY <2>2, <2>3, <2>4, <2>5 DEF Deciding
<1> QED
  BY <1>1, <1>2, <1>3

-----------------------------------------------------------------------------
(* What holds in every state, and while requests do not overlap.            *)

Requests == [todo : Seq(Awaits), name : EndpointNames \cup {"none"},
             copy : Sessions, found : BOOLEAN]

\* There is no state without a step.
SessionOK(s) == s \in Sessions /\ (s # NoSession => s.step \in OnboardingSteps)

WorkOK(d) == d \in Requests /\ SessionOK(d.copy) /\ WellMade(d.name, d.todo)

\* Only the verdict is still to be written to the users row.
AtVerdict(d) == Len(d.todo) = 1 /\ d.name \in Deciding

\* The users row says what the last processed verdict said, unless requests
\* overlapped or a call failed.
Agreed(k, v, t) == v \in {"NOT STARTED", "SUCCESS", "FAILED"} /\ (t \/ k = v)

OnboardingTyped ==
    /\ SessionOK(session)
    /\ user \in [registered : BOOLEAN, kyc : {"NOT STARTED", "SUCCESS", "FAILED"}]
    /\ identity \in {"absent", "PENDING", "VERIFIED", "FAILED"}
    /\ event \in {"absent", "COMPLETED", "FAILED"}
    /\ DOMAIN onboardingHandler = OnboardingHandlers
    /\ \A h \in OnboardingHandlers : WorkOK(onboardingHandler[h])
    /\ onboardings \in 0..MaxOnboarding /\ onboardingFaults \in 0..MaxOnboardingFaults
    /\ marked \subseteq OnboardingSteps
    /\ tangled \in BOOLEAN
    /\ Agreed(user.kyc, verdict, tangled)

Untangled ==
    /\ \A g, h \in OnboardingHandlers : Busy(g) /\ Busy(h) => g = h
    /\ \A h \in OnboardingHandlers :
         Calls(h, "set") \/ Calls(h, "own") => onboardingHandler[h].copy = session
    /\ session # NoSession => session.done \cup {session.step} = marked
    /\ \A h \in OnboardingHandlers :
         AtVerdict(onboardingHandler[h]) =>
            session.verification \in {"none", Word(Decision(onboardingHandler[h].name))}
    /\ (\A h \in OnboardingHandlers : ~AtVerdict(onboardingHandler[h])) =>
         session.verification \in {"none", Word(user.kyc)}

OnboardingInv == OnboardingTyped /\ (~tangled => Untangled)

LEMMA AnsweredIsNotAtVerdict ==
    ASSUME NEW d, d.todo = <<>>
    PROVE  ~AtVerdict(d)
<1>1. Len(d.todo) = 0
  BY EmptySeq
<1> QED
  BY <1>1 DEF AtVerdict

LEMMA IdleMade ==
    /\ WorkOK(IdleOnboarding) /\ SessionOK(NoSession) /\ ~AtVerdict(IdleOnboarding)
    /\ IdleOnboarding.todo = <<>>
<1>1. SessionOK(NoSession)
  BY DEF SessionOK, Sessions, NoSession
<1>2. <<>> \in Seq(Awaits) /\ Len(<<>>) = 0
  BY EmptySeq
<1>3. WellMade("none", <<>>)
  BY <1>2 DEF WellMade
<1>4. IdleOnboarding \in Requests
  BY <1>1, <1>2 DEF Requests, IdleOnboarding, SessionOK
<1> QED
  BY <1>1, <1>2, <1>3, <1>4 DEF WorkOK, IdleOnboarding, AtVerdict

\* What the call a request waits for says of the request.
LEMMA CallOf ==
    ASSUME NEW d, WorkOK(d), d.todo # <<>>
    PROVE  /\ Len(d.todo) \in Nat /\ Len(d.todo) >= 1
           /\ AtVerdict(d) => d.todo[1][1] = "kyc"
           /\ d.todo[1][1] = "kyc" => AtVerdict(d) /\ d.todo[1][2] = Decision(d.name)
           /\ Len(d.todo) = 2 /\ d.name \in Deciding =>
                d.todo[1] = <<"set", DecisionStep(d.name)>>
           /\ d.todo[1][1] = "set" =>
                /\ d.todo[1][2] \in OnboardingSteps
                /\ d.todo[1][2] \in {"verification_success", "verification_failed"} =>
                     d.name \in Deciding /\ Len(d.todo) = 2
           /\ d.todo[1][1] = "event" => d.todo[1][2] \in {"COMPLETED", "FAILED"}
           /\ d.todo[1][1] = "identity" => d.todo[1][2] \in {"VERIFIED", "FAILED"}
<1> DEFINE n == Len(d.todo)
           c == d.todo[1]
<1>1. d.todo \in Seq(Awaits) /\ WellMade(d.name, d.todo)
  BY DEF WorkOK, Requests
<1>2. n \in Nat /\ n >= 1
  BY <1>1, EmptySeq
<1>3. CallMade(d.name, c, n - 1)
  BY <1>1, <1>2 DEF WellMade
<1>4. /\ c[1] = "set" =>
            /\ c[2] \in OnboardingSteps
            /\ c[2] \in {"verification_success", "verification_failed"} =>
                 d.name \in Deciding /\ n - 1 = 1
      /\ c[1] = "kyc" => d.name \in Deciding /\ n - 1 = 0 /\ c[2] = Decision(d.name)
      /\ c[1] = "event" => c[2] \in {"COMPLETED", "FAILED"}
      /\ c[1] = "identity" => c[2] \in {"VERIFIED", "FAILED"}
      /\ d.name \in Deciding =>
            /\ n - 1 = 0 => c[1] = "kyc"
            /\ n - 1 = 1 => c = <<"set", DecisionStep(d.name)>>
  BY <1>3 DEF CallMade
<1> HIDE DEF c
<1>5. n - 1 = 1 <=> n = 2
  BY <1>2
<1>6. n - 1 = 0 <=> n = 1
  BY <1>2
<1> QED
  BY <1>2, <1>4, <1>5, <1>6 DEF AtVerdict, c

\* A request goes on to its next call, or is answered.
ProceedsTo(h, d, e) ==
    /\ WorkOK(e)
    /\ onboardingHandler' = [onboardingHandler EXCEPT ![h] = e]
    /\ \/ /\ Len(d.todo) > 1 /\ verdict' = verdict
          /\ Len(e.todo) = Len(d.todo) - 1 /\ e.todo # <<>>
          /\ e.todo[1][1] \in {"set", "own"} => d.todo[1][1] \in {"get", "set"}
          /\ e.name = d.name /\ e.copy = d.copy
       \/ Len(d.todo) = 1 /\ e = IdleOnboarding /\ verdict' = VerdictOf(d.name)

LEMMA ProceedMoves ==
    ASSUME OnboardingTyped, NEW h \in OnboardingHandlers, NEW d, WorkOK(d),
           d.todo # <<>>, Proceed(h, d)
    PROVE  \E e : ProceedsTo(h, d, e)
<1>1. Len(d.todo) \in Nat /\ Len(d.todo) >= 1
  BY CallOf
<1>2. CASE Len(d.todo) > 1
  <2> DEFINE t == Tail(d.todo)
             n == Len(d.todo)
  <2>1. /\ onboardingHandler' = [onboardingHandler EXCEPT ![h] = [d EXCEPT !.todo = t]]
        /\ verdict' = verdict
    BY <1>2 DEF Proceed
  <2>2. WellMade(d.name, t) /\ Len(t) = n - 1 /\ t[1] = d.todo[2]
    BY <1>2, WellMadeTail DEF WorkOK
  <2>3. t \in Seq(Awaits) /\ t # <<>>
    <3>1. t \in Seq(Awaits) /\ Len(t) # 0
      BY <1>1, <1>2, <2>2 DEF WellMade
    <3> HIDE DEF t
    <3> QED
      BY <3>1, EmptySeq
  <2>4. d \in Requests /\ SessionOK(d.copy)
    BY DEF WorkOK
  <2>5. PICK e \in Requests :
          /\ e = [d EXCEPT !.todo = t] /\ e.todo = t /\ e.name = d.name /\ e.copy = d.copy
    <3> HIDE DEF t
    <3>1. PICK e : e = [d EXCEPT !.todo = t]
      OBVIOUS
    <3>2. e \in Requests /\ e.todo = t /\ e.name = d.name /\ e.copy = d.copy
      BY <2>3, <2>4, <3>1 DEF Requests
    <3> QED
      BY <3>1, <3>2
  <2>6. WorkOK(e)
    BY <2>2, <2>4, <2>5 DEF WorkOK
  <2>7. CallFollows(d.todo[1], d.todo[2])
    <3>1. 2 \in 2..n /\ 2 - 1 = 1
      BY <1>1, <1>2
    <3>2. \A i \in 2..n : CallFollows(d.todo[i - 1], d.todo[i])
      BY DEF WorkOK, WellMade
    <3>3. CallFollows(d.todo[2 - 1], d.todo[2])
      BY <3>1, <3>2
    <3> QED
      BY <3>1, <3>3
  <2>8. e.todo[1][1] \in {"set", "own"} => d.todo[1][1] \in {"get", "set"}
    BY <2>2, <2>5, <2>7 DEF CallFollows
  <2> HIDE DEF t
  <2> QED
    BY <1>2, <2>1, <2>2, <2>3, <2>5, <2>6, <2>8 DEF ProceedsTo
<1>3. CASE Len(d.todo) = 1
  <2>1. /\ onboardingHandler' = [onboardingHandler EXCEPT ![h] = IdleOnboarding]
        /\ verdict' = VerdictOf(d.name)
    BY <1>3 DEF Proceed
  <2>2. WorkOK(IdleOnboarding)
    BY IdleMade
  <2>3. ProceedsTo(h, d, IdleOnboarding)
    BY <1>3, <2>1, <2>2 DEF ProceedsTo
  <2> QED
    BY <2>3
<1>4. Len(d.todo) > 1 \/ Len(d.todo) = 1
  <2> DEFINE n == Len(d.todo)
  <2>1. n \in Nat /\ n >= 1
    BY <1>1
  <2>2. n > 1 \/ n = 1
    <3> HIDE DEF n
    <3> QED
      BY <2>1
  <2> QED
    BY <2>2
<1> QED
  BY <1>2, <1>3, <1>4

LEMMA LeaveMoves ==
    ASSUME NEW h \in OnboardingHandlers, Leave(h)
    PROVE  \E e :
             /\ WorkOK(e) /\ e = IdleOnboarding /\ verdict' = verdict
             /\ onboardingHandler' = [onboardingHandler EXCEPT ![h] = e]
BY IdleMade DEF Leave

\* One handler changes.
LEMMA HandlerStep ==
    ASSUME OnboardingTyped, NEW h \in OnboardingHandlers, NEW e, WorkOK(e),
           onboardingHandler' = [onboardingHandler EXCEPT ![h] = e]
    PROVE  /\ DOMAIN onboardingHandler' = OnboardingHandlers
           /\ onboardingHandler'[h] = e
           /\ \A g \in OnboardingHandlers \ {h} : onboardingHandler'[g] = onboardingHandler[g]
           /\ \A g \in OnboardingHandlers : WorkOK(onboardingHandler'[g])
<1>1. /\ DOMAIN onboardingHandler = OnboardingHandlers
      /\ \A g \in OnboardingHandlers : WorkOK(onboardingHandler[g])
  BY DEF OnboardingTyped
<1>2. /\ DOMAIN onboardingHandler' = OnboardingHandlers
      /\ onboardingHandler'[h] = e
      /\ \A g \in OnboardingHandlers \ {h} : onboardingHandler'[g] = onboardingHandler[g]
  BY <1>1
<1> QED
  BY <1>1, <1>2

\* The other requests are idle: what is said of requests is said of this one.
LEMMA UntangledStep ==
    ASSUME OnboardingTyped, NEW h \in OnboardingHandlers, NEW e, WorkOK(e),
           onboardingHandler' = [onboardingHandler EXCEPT ![h] = e],
           \A g \in OnboardingHandlers \ {h} : ~Busy(g),
           e.todo # <<>> /\ e.todo[1][1] \in {"set", "own"} => e.copy = session',
           session' # NoSession => session'.done \cup {session'.step} = marked',
           AtVerdict(e) => session'.verification \in {"none", Word(Decision(e.name))},
           ~AtVerdict(e) => session'.verification \in {"none", Word(user'.kyc)}
    PROVE  Untangled'
<1>1. /\ onboardingHandler'[h] = e
      /\ \A g \in OnboardingHandlers \ {h} : onboardingHandler'[g] = onboardingHandler[g]
  BY HandlerStep
<1>2. \A g \in OnboardingHandlers \ {h} : onboardingHandler'[g].todo = <<>>
  BY <1>1 DEF Busy
<1>3. \A g \in OnboardingHandlers \ {h} : ~AtVerdict(onboardingHandler'[g])
  BY <1>2, AnsweredIsNotAtVerdict
<1>4. (\A i, j \in OnboardingHandlers : Busy(i) /\ Busy(j) => i = j)'
  BY <1>2 DEF Busy
<1>5. (\A g \in OnboardingHandlers :
         Calls(g, "set") \/ Calls(g, "own") => onboardingHandler[g].copy = session)'
  BY <1>1, <1>2 DEF Calls, Busy, Now
<1>6. (\A g \in OnboardingHandlers :
         AtVerdict(onboardingHandler[g]) =>
            session.verification \in {"none", Word(Decision(onboardingHandler[g].name))})'
  BY <1>1, <1>3
<1>7. ((\A g \in OnboardingHandlers : ~AtVerdict(onboardingHandler[g])) =>
         session.verification \in {"none", Word(user.kyc)})'
  BY <1>1
<1> QED
  BY <1>4, <1>5, <1>6, <1>7 DEF Untangled

\* Only the write of a verdict decides one.
LEMMA VerdictDecided ==
    ASSUME NEW d, WorkOK(d), d.todo # <<>>, Len(d.todo) = 1
    PROVE  VerdictOf(d.name) = IF d.todo[1][1] = "kyc" THEN Decision(d.name) ELSE verdict
<1>1. d.todo[1][1] = "kyc" <=> d.name \in Deciding
  BY CallOf DEF AtVerdict
<1>2. CASE d.name \in Deciding
  BY <1>1, <1>2 DEF VerdictOf, Decision, Deciding
<1>3. CASE d.name \notin Deciding
  BY <1>1, <1>3 DEF VerdictOf, Deciding
<1> QED
  BY <1>2, <1>3

GoesOn(h, d, e) ==
    /\ WorkOK(e)
    /\ onboardingHandler' = [onboardingHandler EXCEPT ![h] = e]
    /\ \/ /\ Len(e.todo) = Len(d.todo) - 1 /\ e.todo # <<>>
          /\ e.todo[1][1] \in {"set", "own"} => d.todo[1][1] \in {"get", "set"}
          /\ e.name = d.name /\ e.copy = d.copy
       \/ e = IdleOnboarding

LEMMA CallMoves ==
    ASSUME OnboardingTyped, NEW h \in OnboardingHandlers, NEW d, WorkOK(d),
           d.todo # <<>>, d.todo[1][1] # "kyc", Proceed(h, d) \/ Leave(h)
    PROVE  verdict' = verdict /\ \E e : GoesOn(h, d, e)
<1>1. CASE Proceed(h, d)
  <2>1. PICK e : ProceedsTo(h, d, e)
    BY <1>1, ProceedMoves
  <2>2. GoesOn(h, d, e)
    BY <2>1 DEF ProceedsTo, GoesOn
  <2>3. verdict' = verdict
    BY <2>1, VerdictDecided DEF ProceedsTo
  <2> QED
    BY <2>2, <2>3
<1>2. CASE Leave(h)
  <2>1. GoesOn(h, d, IdleOnboarding) /\ verdict' = verdict
    BY <1>2, IdleMade DEF Leave, GoesOn
  <2> QED
    BY <2>1
<1> QED
  BY <1>1, <1>2

\* A request that neither reads nor writes the state or a verdict.
LEMMA QuietCall ==
    ASSUME OnboardingTyped, Untangled, NEW h \in OnboardingHandlers, NEW e, NEW d,
           d.todo = onboardingHandler[h].todo, d.name = onboardingHandler[h].name,
           WorkOK(d), d.todo # <<>>, d.todo[1][1] \notin {"get", "set", "own", "kyc"},
           GoesOn(h, d, e),
           session' = session, marked' = marked, user'.kyc = user.kyc
    PROVE  Untangled'
<1>1. WorkOK(d) /\ d.todo # <<>> /\ d.todo[1][1] \notin {"get", "set", "own", "kyc"}
  OBVIOUS
<1>2. /\ WorkOK(e) /\ onboardingHandler' = [onboardingHandler EXCEPT ![h] = e]
      /\ e.todo # <<>> => /\ Len(e.todo) = Len(d.todo) - 1 /\ e.name = d.name
                          /\ e.todo[1][1] \notin {"set", "own"}
      /\ e.todo = <<>> => e = IdleOnboarding
  BY <1>1, IdleMade DEF GoesOn
<1>3. \A g \in OnboardingHandlers \ {h} : ~Busy(g)
  BY <1>1 DEF Untangled, Busy
<1>4. ~AtVerdict(d)
  BY <1>1, CallOf
<1>5. ~AtVerdict(e)
  <2>1. CASE e.todo = <<>>
    BY <1>2, <2>1, IdleMade
  <2>2. CASE e.todo # <<>>
    <3>1. SUFFICES ASSUME AtVerdict(e) PROVE FALSE
      OBVIOUS
    <3>2. Len(e.todo) = 1 /\ d.name \in Deciding
      BY <1>2, <2>2, <3>1 DEF AtVerdict
    <3>3. Len(d.todo) \in Nat /\ Len(e.todo) = Len(d.todo) - 1
      BY <1>1, <1>2, <2>2, CallOf
    <3>4. Len(d.todo) = 2
      <4> DEFINE n == Len(d.todo)
                 m == Len(e.todo)
      <4>1. n \in Nat /\ m = n - 1 /\ m = 1
        BY <3>2, <3>3
      <4> HIDE DEF n, m
      <4>2. n = 2
        BY <4>1
      <4> QED
        BY <4>2 DEF n
    <3>5. d.todo[1] = <<"set", DecisionStep(d.name)>>
      BY <1>1, <3>2, <3>4, CallOf
    <3> QED
      BY <1>1, <3>5
  <2> QED
    BY <2>1, <2>2
<1>6. \A g \in OnboardingHandlers : ~AtVerdict(onboardingHandler[g])
  <2>1. ASSUME NEW g \in OnboardingHandlers \ {h} PROVE ~AtVerdict(onboardingHandler[g])
    BY <1>3, <2>1, AnsweredIsNotAtVerdict DEF Busy
  <2>2. ~AtVerdict(onboardingHandler[h])
    BY <1>4 DEF AtVerdict
  <2> QED
    BY <2>1, <2>2
<1>7. session.verification \in {"none", Word(user.kyc)}
  BY <1>6 DEF Untangled
<1>8. session'.verification \in {"none", Word(user'.kyc)}
  BY <1>7
<1>9. session' # NoSession => session'.done \cup {session'.step} = marked'
  BY DEF Untangled
<1> QED
  BY <1>2, <1>3, <1>5, <1>8, <1>9, UntangledStep

-----------------------------------------------------------------------------
(* The steps of a request.                                                  *)

LEMMA TypedStep ==
    ASSUME OnboardingTyped, NEW h \in OnboardingHandlers, NEW e, WorkOK(e),
           onboardingHandler' = [onboardingHandler EXCEPT ![h] = e],
           SessionOK(session'),
           user' \in [registered : BOOLEAN, kyc : {"NOT STARTED", "SUCCESS", "FAILED"}],
           identity' \in {"absent", "PENDING", "VERIFIED", "FAILED"},
           event' \in {"absent", "COMPLETED", "FAILED"},
           onboardings' \in 0..MaxOnboarding, onboardingFaults' \in 0..MaxOnboardingFaults,
           marked' \subseteq OnboardingSteps, tangled' \in BOOLEAN,
           Agreed(user'.kyc, verdict', tangled')
    PROVE  OnboardingTyped'
BY HandlerStep DEF OnboardingTyped

LEMMA AwaitedCall ==
    ASSUME OnboardingTyped, NEW h \in OnboardingHandlers, Busy(h)
    PROVE  WorkOK(onboardingHandler[h]) /\ onboardingHandler[h].todo # <<>>
BY DEF OnboardingTyped, Busy

\* Calls that touch neither the state in Redis nor the kycStatus.
LEMMA PlainCallInv ==
    ASSUME OnboardingInv, NEW h \in OnboardingHandlers, NEW d, WorkOK(d),
           d.todo = onboardingHandler[h].todo, d.name = onboardingHandler[h].name,
           d.todo # <<>>, d.todo[1][1] \notin {"get", "set", "own", "kyc"},
           Proceed(h, d) \/ Leave(h),
           UNCHANGED <<session, onboardings, onboardingFaults, marked, tangled>>,
           user' \in [registered : BOOLEAN, kyc : {"NOT STARTED", "SUCCESS", "FAILED"}],
           user'.kyc = user.kyc,
           identity' \in {"absent", "PENDING", "VERIFIED", "FAILED"},
           event' \in {"absent", "COMPLETED", "FAILED"}
    PROVE  OnboardingInv'
<1>1. OnboardingTyped /\ (~tangled => Untangled)
  BY DEF OnboardingInv
<1>2. verdict' = verdict /\ \E e : GoesOn(h, d, e)
  BY <1>1, CallMoves
<1>3. PICK e : GoesOn(h, d, e)
  BY <1>2
<1>4. OnboardingTyped'
  <2>1. WorkOK(e) /\ onboardingHandler' = [onboardingHandler EXCEPT ![h] = e]
    BY <1>3 DEF GoesOn
  <2>2. /\ SessionOK(session') /\ onboardings' \in 0..MaxOnboarding
        /\ onboardingFaults' \in 0..MaxOnboardingFaults
        /\ marked' \subseteq OnboardingSteps /\ tangled' \in BOOLEAN
        /\ Agreed(user'.kyc, verdict', tangled')
    BY <1>1, <1>2 DEF OnboardingTyped
  <2> QED
    BY <1>1, <2>1, <2>2, TypedStep
<1>5. ASSUME ~tangled' PROVE Untangled'
  BY <1>1, <1>3, <1>5, QuietCall
<1> QED
  BY <1>4, <1>5 DEF OnboardingInv

LEMMA PlainCallsInv ==
    ASSUME OnboardingInv, NEW h \in OnboardingHandlers,
           Check(h) \/ FindUser(h) \/ InsertUser(h) \/ SaveEvent(h) \/ SaveIdentity(h)
    PROVE  OnboardingInv'
<1> DEFINE d == onboardingHandler[h]
<1>1. OnboardingTyped
  BY DEF OnboardingInv
<1>2. Busy(h)
  BY DEF Check, FindUser, InsertUser, SaveEvent, SaveIdentity, Calls
<1>3. WorkOK(d) /\ d.todo # <<>>
  BY <1>1, <1>2, AwaitedCall
<1>4. /\ user \in [registered : BOOLEAN, kyc : {"NOT STARTED", "SUCCESS", "FAILED"}]
      /\ identity \in {"absent", "PENDING", "VERIFIED", "FAILED"}
      /\ event \in {"absent", "COMPLETED", "FAILED"}
  BY <1>1 DEF OnboardingTyped
<1>5. CASE Check(h)
  <2>1. /\ d.todo[1][1] \notin {"get", "set", "own", "kyc"} /\ (Proceed(h, d) \/ Leave(h))
        /\ UNCHANGED <<session, user, identity, event, onboardings, onboardingFaults,
                       marked, tangled>>
    BY <1>5 DEF Check, Calls, Now
  <2> QED
    BY <1>3, <1>4, <2>1, PlainCallInv
<1>6. CASE FindUser(h)
  <2>1. PICK f : f = [d EXCEPT !.found = user.registered]
    OBVIOUS
  <2>2. /\ d.todo[1][1] \notin {"get", "set", "own", "kyc"} /\ Proceed(h, f)
        /\ UNCHANGED <<session, user, identity, event, onboardings, onboardingFaults,
                       marked, tangled>>
    BY <1>6, <2>1 DEF FindUser, Calls, Now
  <2>3. f.todo = d.todo /\ f.name = d.name /\ WorkOK(f)
    BY <1>3, <1>4, <2>1 DEF WorkOK, Requests
  <2> QED
    BY <1>3, <1>4, <2>2, <2>3, PlainCallInv
<1>7. CASE InsertUser(h)
  <2>1. /\ d.todo[1][1] \notin {"get", "set", "own", "kyc"} /\ (Proceed(h, d) \/ Leave(h))
        /\ UNCHANGED <<session, identity, event, onboardings, onboardingFaults,
                       marked, tangled>>
        /\ (user' = [user EXCEPT !.registered = TRUE] \/ user' = user)
    BY <1>7 DEF InsertUser, Calls, Now
  <2>2. /\ user' \in [registered : BOOLEAN, kyc : {"NOT STARTED", "SUCCESS", "FAILED"}]
        /\ user'.kyc = user.kyc
    BY <1>4, <2>1
  <2> QED
    BY <1>3, <1>4, <2>1, <2>2, PlainCallInv
<1>8. CASE SaveEvent(h)
  <2>1. /\ d.todo[1][1] = "event" /\ (Proceed(h, d) \/ Leave(h))
        /\ UNCHANGED <<session, user, identity, onboardings, onboardingFaults,
                       marked, tangled>>
        /\ event' = d.todo[1][2]
    BY <1>8 DEF SaveEvent, Calls, Now
  <2>2. event' \in {"COMPLETED", "FAILED"}
    BY <1>3, <2>1, CallOf
  <2>3. d.todo[1][1] \notin {"get", "set", "own", "kyc"}
    BY <2>1
  <2> QED
    BY <1>3, <1>4, <2>1, <2>2, <2>3, PlainCallInv
<1>9. CASE SaveIdentity(h)
  <2>1. /\ d.todo[1][1] = "identity" /\ Proceed(h, d)
        /\ UNCHANGED <<session, user, event, onboardings, onboardingFaults,
                       marked, tangled>>
        /\ identity' = d.todo[1][2]
    BY <1>9 DEF SaveIdentity, Calls, Now
  <2>2. identity' \in {"VERIFIED", "FAILED"}
    BY <1>3, <2>1, CallOf
  <2>3. d.todo[1][1] \notin {"get", "set", "own", "kyc"}
    BY <2>1
  <2> QED
    BY <1>3, <1>4, <2>1, <2>2, <2>3, PlainCallInv
<1> QED
  BY <1>5, <1>6, <1>7, <1>8, <1>9

\* A fresh state is marked with its one step, and has no verdict.
LEMMA FreshSessionOK ==
    /\ SessionOK(FreshSession) /\ FreshSession.verification = "none"
    /\ FreshSession.done \cup {FreshSession.step} = {"phone_verification"}
BY DEF SessionOK, Sessions, FreshSession, NoSession, OnboardingSteps

LEMMA CreateSessionInv ==
    ASSUME OnboardingInv, NEW h \in OnboardingHandlers, CreateSession(h)
    PROVE  OnboardingInv'
<1> DEFINE d == onboardingHandler[h]
<1>1. OnboardingTyped /\ (~tangled => Untangled)
  BY DEF OnboardingInv
<1>2. WorkOK(d) /\ d.todo # <<>> /\ d.todo[1][1] = "create"
  BY <1>1, AwaitedCall DEF CreateSession, Calls, Now
<1>3. /\ session' = FreshSession /\ marked' = {"phone_verification"}
      /\ UNCHANGED <<user, identity, event, onboardings, onboardingFaults, tangled>>
      /\ Proceed(h, d)
  BY DEF CreateSession
<1>4. verdict' = verdict /\ \E e : GoesOn(h, d, e)
  BY <1>1, <1>2, <1>3, CallMoves
<1>5. PICK e : GoesOn(h, d, e)
  BY <1>4
<1>6. /\ WorkOK(e) /\ onboardingHandler' = [onboardingHandler EXCEPT ![h] = e]
      /\ e.todo # <<>> => e.todo[1][1] \notin {"set", "own"}
  BY <1>2, <1>5, IdleMade DEF GoesOn
<1>7. OnboardingTyped'
  <2>1. /\ user' \in [registered : BOOLEAN, kyc : {"NOT STARTED", "SUCCESS", "FAILED"}]
        /\ identity' \in {"absent", "PENDING", "VERIFIED", "FAILED"}
        /\ event' \in {"absent", "COMPLETED", "FAILED"}
        /\ onboardings' \in 0..MaxOnboarding
        /\ onboardingFaults' \in 0..MaxOnboardingFaults
        /\ tangled' \in BOOLEAN /\ Agreed(user'.kyc, verdict', tangled')
    BY <1>1, <1>3, <1>4 DEF OnboardingTyped
  <2>2. SessionOK(session') /\ marked' \subseteq OnboardingSteps
    BY <1>3, FreshSessionOK DEF OnboardingSteps
  <2> QED
    BY <1>1, <1>6, <2>1, <2>2, TypedStep
<1>8. ASSUME ~tangled' PROVE Untangled'
  <2>1. \A g \in OnboardingHandlers \ {h} : ~Busy(g)
    BY <1>1, <1>2, <1>3, <1>8 DEF Untangled, Busy
  <2>2. /\ session'.verification = "none"
        /\ session'.done \cup {session'.step} = marked'
    BY <1>3, FreshSessionOK
  <2> QED
    BY <1>1, <1>6, <2>1, <2>2, UntangledStep
<1> QED
  BY <1>7, <1>8 DEF OnboardingInv

\* What the untangled request h knows of the verdict in the state: it has none
\* of its own there before it is at the users row.
LEMMA VerdictBefore ==
    ASSUME OnboardingTyped, Untangled, NEW h \in OnboardingHandlers, Busy(h),
           ~AtVerdict(onboardingHandler[h])
    PROVE  /\ session.verification \in {"none", Word(user.kyc)}
           /\ \A g \in OnboardingHandlers \ {h} : ~Busy(g)
<1>1. \A g \in OnboardingHandlers \ {h} : ~Busy(g)
  BY DEF Untangled
<1>2. ASSUME NEW g \in OnboardingHandlers \ {h} PROVE ~AtVerdict(onboardingHandler[g])
  BY <1>1, AnsweredIsNotAtVerdict DEF Busy
<1>3. \A g \in OnboardingHandlers : ~AtVerdict(onboardingHandler[g])
  BY <1>2
<1> QED
  BY <1>1, <1>3 DEF Untangled

\* Only the mark of a verdict comes right before the users row.
LEMMA BeforeVerdict ==
    ASSUME NEW d, WorkOK(d), d.todo # <<>>, NEW h, NEW e, GoesOn(h, d, e), AtVerdict(e)
    PROVE  /\ d.todo[1] = <<"set", DecisionStep(d.name)>>
           /\ e.name = d.name /\ d.name \in Deciding
<1>1. e # IdleOnboarding
  BY IdleMade
<1>2. /\ Len(e.todo) = Len(d.todo) - 1 /\ e.name = d.name
      /\ Len(e.todo) = 1 /\ d.name \in Deciding
  BY <1>1 DEF GoesOn, AtVerdict
<1>3. Len(d.todo) = 2
  <2> DEFINE n == Len(d.todo)
             m == Len(e.todo)
  <2>1. n \in Nat /\ m = n - 1 /\ m = 1
    BY <1>2, CallOf
  <2>2. n = 2
    <3> HIDE DEF n, m
    <3> QED
      BY <2>1
  <2> QED
    BY <2>2
<1> QED
  BY <1>2, <1>3, CallOf

LEMMA GetSessionInv ==
    ASSUME OnboardingInv, NEW h \in OnboardingHandlers, GetSession(h)
    PROVE  OnboardingInv'
<1> DEFINE d == onboardingHandler[h]
<1>1. OnboardingTyped /\ (~tangled => Untangled)
  BY DEF OnboardingInv
<1>2. WorkOK(d) /\ d.todo # <<>> /\ d.todo[1][1] = "get" /\ Busy(h)
  BY <1>1, AwaitedCall DEF GetSession, Calls, Now
<1>3. PICK f : f = [d EXCEPT !.copy = session]
  OBVIOUS
<1>4. /\ Proceed(h, f)
      /\ UNCHANGED <<session, user, identity, event, onboardings, onboardingFaults,
                     marked, tangled>>
  BY <1>3 DEF GetSession
<1>5. f.todo = d.todo /\ f.name = d.name /\ f.copy = session /\ WorkOK(f)
  <2>1. SessionOK(session)
    BY <1>1 DEF OnboardingTyped
  <2> QED
    BY <1>2, <1>3, <2>1 DEF WorkOK, Requests, SessionOK
<1>6. verdict' = verdict /\ \E e : GoesOn(h, f, e)
  BY <1>1, <1>2, <1>4, <1>5, CallMoves
<1>7. PICK e : GoesOn(h, f, e)
  BY <1>6
<1>8. /\ WorkOK(e) /\ onboardingHandler' = [onboardingHandler EXCEPT ![h] = e]
      /\ e.todo # <<>> => e.copy = session
  BY <1>5, <1>7, IdleMade DEF GoesOn
<1>9. OnboardingTyped'
  <2>1. /\ user' \in [registered : BOOLEAN, kyc : {"NOT STARTED", "SUCCESS", "FAILED"}]
        /\ identity' \in {"absent", "PENDING", "VERIFIED", "FAILED"}
        /\ event' \in {"absent", "COMPLETED", "FAILED"}
        /\ onboardings' \in 0..MaxOnboarding
        /\ onboardingFaults' \in 0..MaxOnboardingFaults
        /\ tangled' \in BOOLEAN /\ Agreed(user'.kyc, verdict', tangled')
        /\ SessionOK(session') /\ marked' \subseteq OnboardingSteps
    BY <1>1, <1>4, <1>6 DEF OnboardingTyped
  <2> QED
    BY <1>1, <1>8, <2>1, TypedStep
<1>10. ASSUME ~tangled' PROVE Untangled'
  <2>1. ~AtVerdict(d) /\ Untangled
    BY <1>1, <1>2, <1>4, <1>10, CallOf
  <2>2. /\ session.verification \in {"none", Word(user.kyc)}
        /\ \A g \in OnboardingHandlers \ {h} : ~Busy(g)
    BY <1>1, <1>2, <2>1, VerdictBefore
  <2>3. ~AtVerdict(e)
    <3>1. SUFFICES ASSUME AtVerdict(e) PROVE FALSE
      OBVIOUS
    <3>2. f.todo[1] = <<"set", DecisionStep(f.name)>>
      BY <1>2, <1>5, <1>7, <3>1, BeforeVerdict
    <3> QED
      BY <1>2, <1>5, <3>2
  <2>4. session' # NoSession => session'.done \cup {session'.step} = marked'
    BY <1>4, <2>1 DEF Untangled
  <2>5. session' = session /\ user' = user
    BY <1>4
  <2> QED
    BY <1>1, <1>8, <2>2, <2>3, <2>4, <2>5, UntangledStep
<1> QED
  BY <1>9, <1>10 DEF OnboardingInv

LEMMA UpdateKycInv ==
    ASSUME OnboardingInv, NEW h \in OnboardingHandlers, UpdateKyc(h)
    PROVE  OnboardingInv'
<1> DEFINE d == onboardingHandler[h]
<1>1. OnboardingTyped /\ (~tangled => Untangled)
  BY DEF OnboardingInv
<1>2. WorkOK(d) /\ d.todo # <<>> /\ d.todo[1][1] = "kyc" /\ Busy(h)
  BY <1>1, AwaitedCall DEF UpdateKyc, Calls, Now
<1>3. AtVerdict(d) /\ d.todo[1][2] = Decision(d.name) /\ Len(d.todo) = 1
  BY <1>2, CallOf DEF AtVerdict
<1>4. /\ user' = [user EXCEPT !.kyc = Decision(d.name)]
      /\ Proceed(h, d)
      /\ UNCHANGED <<session, identity, event, onboardings, onboardingFaults, marked, tangled>>
  BY <1>3 DEF UpdateKyc, Now
<1>5. /\ onboardingHandler' = [onboardingHandler EXCEPT ![h] = IdleOnboarding]
      /\ verdict' = VerdictOf(d.name)
  BY <1>3, <1>4 DEF Proceed
<1>6. verdict' = Decision(d.name)
  BY <1>2, <1>3, <1>5, VerdictDecided
<1>7. Decision(d.name) \in {"SUCCESS", "FAILED"}
  BY DEF Decision
<1>8. /\ user' \in [registered : BOOLEAN, kyc : {"NOT STARTED", "SUCCESS", "FAILED"}]
      /\ user'.kyc = Decision(d.name)
  <2>1. user \in [registered : BOOLEAN, kyc : {"NOT STARTED", "SUCCESS", "FAILED"}]
    BY <1>1 DEF OnboardingTyped
  <2> QED
    BY <1>4, <1>7, <2>1
<1>9. OnboardingTyped'
  <2>1. /\ identity' \in {"absent", "PENDING", "VERIFIED", "FAILED"}
        /\ event' \in {"absent", "COMPLETED", "FAILED"}
        /\ onboardings' \in 0..MaxOnboarding
        /\ onboardingFaults' \in 0..MaxOnboardingFaults
        /\ tangled' \in BOOLEAN
        /\ SessionOK(session') /\ marked' \subseteq OnboardingSteps
    BY <1>1, <1>4 DEF OnboardingTyped
  <2>2. Agreed(user'.kyc, verdict', tangled')
    BY <1>6, <1>7, <1>8 DEF Agreed
  <2> QED
    BY <1>1, <1>5, <1>8, <2>1, <2>2, IdleMade, TypedStep
<1>10. ASSUME ~tangled' PROVE Untangled'
  <2>1. Untangled /\ session' = session /\ marked' = marked
    BY <1>1, <1>4, <1>10
  <2>2. \A g \in OnboardingHandlers \ {h} : ~Busy(g)
    BY <1>2, <2>1 DEF Untangled
  <2>3. session'.verification \in {"none", Word(user'.kyc)}
    BY <1>3, <1>8, <2>1 DEF Untangled
  <2>4. session' # NoSession => session'.done \cup {session'.step} = marked'
    BY <2>1 DEF Untangled
  <2> QED
    BY <1>1, <1>5, <2>2, <2>3, <2>4, IdleMade, UntangledStep
<1> QED
  BY <1>9, <1>10 DEF OnboardingInv

LEMMA MarkedOK ==
    ASSUME NEW c, SessionOK(c), c # NoSession, NEW step \in OnboardingSteps, NEW r,
           r = Marked(c, step)
    PROVE  /\ SessionOK(r) /\ r.step = step /\ r.done = c.done \cup {c.step}
           /\ r.verification = (CASE step = "verification_success" -> "success"
                                  [] step = "verification_failed" -> "failed"
                                  [] OTHER -> c.verification)
<1> DEFINE v == CASE step = "verification_success" -> "success"
                  [] step = "verification_failed" -> "failed"
                  [] OTHER -> c.verification
<1>1. c \in Sessions /\ c.step \in OnboardingSteps
  BY DEF SessionOK
<1>2. v \in {"none", "success", "failed"}
  BY <1>1 DEF Sessions
<1>3. r = [c EXCEPT !.step = step, !.done = c.done \cup {c.step}, !.verification = v]
  BY <1>1 DEF Marked, Sessions
<1> HIDE DEF v
<1>5. PICK D : D = c.done \cup {c.step}
  OBVIOUS
<1>6. D \in SUBSET OnboardingSteps
  BY <1>1, <1>5 DEF Sessions
<1>7. r = [c EXCEPT !.step = step, !.done = D, !.verification = v]
  BY <1>3, <1>5
<1>8. r \in Sessions /\ r.step = step /\ r.done = D /\ r.verification = v
  BY <1>1, <1>2, <1>6, <1>7 DEF Sessions
<1>4. /\ r \in Sessions /\ r.step = step /\ r.done = c.done \cup {c.step}
      /\ r.verification = v
  BY <1>5, <1>8
<1> QED
  BY <1>4 DEF SessionOK, v

LEMMA OwnedOK ==
    ASSUME NEW c, SessionOK(c), c # NoSession, NEW r, r = [c EXCEPT !.userId = TRUE]
    PROVE  /\ SessionOK(r) /\ r.step = c.step /\ r.done = c.done
           /\ r.verification = c.verification
BY DEF SessionOK, Sessions

LEMMA SetSessionInv ==
    ASSUME OnboardingInv, NEW h \in OnboardingHandlers, SetSession(h)
    PROVE  OnboardingInv'
<1> DEFINE d == onboardingHandler[h]
<1>1. OnboardingTyped /\ (~tangled => Untangled)
  BY DEF OnboardingInv
<1>2. /\ WorkOK(d) /\ d.todo # <<>> /\ d.todo[1][1] \in {"set", "own"} /\ Busy(h)
      /\ UNCHANGED <<user, identity, event, onboardings, onboardingFaults, tangled>>
  BY <1>1, AwaitedCall DEF SetSession, Calls, Now
<1>3. /\ user' \in [registered : BOOLEAN, kyc : {"NOT STARTED", "SUCCESS", "FAILED"}]
      /\ identity' \in {"absent", "PENDING", "VERIFIED", "FAILED"}
      /\ event' \in {"absent", "COMPLETED", "FAILED"}
      /\ onboardings' \in 0..MaxOnboarding
      /\ onboardingFaults' \in 0..MaxOnboardingFaults
      /\ tangled' \in BOOLEAN /\ Agreed(user'.kyc, verdict, tangled')
  BY <1>1, <1>2 DEF OnboardingTyped
<1>4. ASSUME ~tangled'
      PROVE  /\ Untangled /\ d.copy = session
             /\ session.verification \in {"none", Word(user.kyc)}
             /\ \A g \in OnboardingHandlers \ {h} : ~Busy(g)
  <2>1. Untangled /\ ~AtVerdict(d)
    BY <1>1, <1>2, <1>4, CallOf
  <2>2. d.copy = session
    BY <1>2, <2>1 DEF Untangled, Calls, Now
  <2> QED
    BY <1>1, <1>2, <2>1, <2>2, VerdictBefore
<1>5. CASE d.copy = NoSession
  <2>1. /\ Proceed(h, d) \/ Leave(h)
        /\ session' = session /\ marked' = marked
    BY <1>5 DEF SetSession
  <2>2. verdict' = verdict /\ \E e : GoesOn(h, d, e)
    BY <1>1, <1>2, <2>1, CallMoves
  <2>3. PICK e : GoesOn(h, d, e)
    BY <2>2
  <2>4. /\ WorkOK(e) /\ onboardingHandler' = [onboardingHandler EXCEPT ![h] = e]
        /\ e.todo # <<>> => e.copy = d.copy
    BY <2>3, IdleMade DEF GoesOn
  <2>5. SessionOK(session') /\ marked' \subseteq OnboardingSteps
    BY <1>1, <2>1 DEF OnboardingTyped
  <2>6. OnboardingTyped'
    BY <1>1, <1>3, <2>2, <2>4, <2>5, TypedStep
  <2>7. ASSUME ~tangled' PROVE Untangled'
    <3>1. session' = NoSession /\ session'.verification = "none"
      BY <1>4, <1>5, <2>1, <2>7 DEF NoSession
    <3> QED
      BY <1>1, <1>4, <2>1, <2>4, <2>7, <3>1, UntangledStep
  <2> QED
    BY <2>6, <2>7 DEF OnboardingInv
<1>6. CASE d.copy # NoSession
  <2>1. PICK r : r = Rewritten(h)
    OBVIOUS
  <2>2. PICK f : f = [d EXCEPT !.copy = r]
    OBVIOUS
  <2>3. session' = r /\ marked' = marked \cup {r.step} /\ Proceed(h, f)
    BY <1>6, <2>1, <2>2 DEF SetSession
  <2>4. SessionOK(d.copy)
    BY <1>2 DEF WorkOK
  <2>5. \/ d.todo[1][1] = "own" /\ r = [d.copy EXCEPT !.userId = TRUE]
        \/ d.todo[1][1] = "set" /\ r = Marked(d.copy, d.todo[1][2])
    BY <1>2, <2>1 DEF Rewritten, Now
  <2>6. d.todo[1][1] = "set" => d.todo[1][2] \in OnboardingSteps
    BY <1>2, CallOf
  <2>7. /\ SessionOK(r)
        /\ \/ d.todo[1][1] = "own" /\ r.step = d.copy.step /\ r.done = d.copy.done
           \/ d.todo[1][1] = "set" /\ r.done = d.copy.done \cup {d.copy.step}
    BY <1>6, <2>4, <2>5, <2>6, OwnedOK, MarkedOK
  <2>8. r # NoSession /\ r.step \in OnboardingSteps
    <3>1. CASE d.todo[1][1] = "own"
      <4>1. r.step = d.copy.step /\ d.copy.step \in OnboardingSteps
        BY <1>6, <2>4, <2>5, <3>1, OwnedOK DEF SessionOK
      <4> QED
        BY <4>1 DEF OnboardingSteps, NoSession
    <3>2. CASE d.todo[1][1] = "set"
      <4>1. r.step = d.todo[1][2]
        BY <1>6, <2>4, <2>5, <2>6, <3>2, MarkedOK
      <4> QED
        BY <2>6, <3>2, <4>1 DEF OnboardingSteps, NoSession
    <3> QED
      BY <1>2, <3>1, <3>2
  <2>9. f.todo = d.todo /\ f.name = d.name /\ f.copy = r /\ WorkOK(f)
    BY <1>2, <2>2, <2>7 DEF WorkOK, Requests, SessionOK
  <2>10. verdict' = verdict /\ \E e : GoesOn(h, f, e)
    BY <1>1, <1>2, <2>3, <2>9, CallMoves
  <2>11. PICK e : ProceedsTo(h, f, e)
    BY <1>1, <1>2, <2>3, <2>9, ProceedMoves
  <2>16. GoesOn(h, f, e)
    BY <2>11 DEF ProceedsTo, GoesOn
  <2>12. /\ WorkOK(e) /\ onboardingHandler' = [onboardingHandler EXCEPT ![h] = e]
         /\ e.todo # <<>> => e.copy = r
    BY <2>9, <2>16, IdleMade DEF GoesOn
  <2>13. SessionOK(session') /\ marked' \subseteq OnboardingSteps
    <3>1. marked \subseteq OnboardingSteps
      BY <1>1 DEF OnboardingTyped
    <3> QED
      BY <2>3, <2>7, <2>8, <3>1
  <2>14. OnboardingTyped'
    BY <1>1, <1>3, <2>10, <2>12, <2>13, TypedStep
  <2>15. ASSUME ~tangled' PROVE Untangled'
    <3>1. session'.done \cup {session'.step} = marked'
      <4>1. d.copy.done \cup {d.copy.step} = marked
        BY <1>4, <1>6, <2>15 DEF Untangled
      <4> QED
        BY <2>3, <2>7, <4>1
    <3>2. AtVerdict(e) => session'.verification = Word(Decision(e.name))
      <4>1. SUFFICES ASSUME AtVerdict(e)
                     PROVE  session'.verification = Word(Decision(e.name))
        OBVIOUS
      <4>2. /\ d.todo[1] = <<"set", DecisionStep(e.name)>> /\ e.name \in Deciding
        BY <1>2, <2>9, <2>16, <4>1, BeforeVerdict
      <4>3. d.todo[1][1] = "set" /\ d.todo[1][2] = DecisionStep(e.name)
        BY <4>2
      <4>4. r = Marked(d.copy, DecisionStep(e.name)) /\ DecisionStep(e.name) \in OnboardingSteps
        BY <2>5, <2>6, <4>3
      <4>5. r.verification = (CASE DecisionStep(e.name) = "verification_success" -> "success"
                                [] DecisionStep(e.name) = "verification_failed" -> "failed"
                                [] OTHER -> d.copy.verification)
        BY <1>6, <2>4, <4>4, MarkedOK
      <4>6. r.verification = Word(Decision(e.name))
        BY <4>5 DEF DecisionStep, Decision, Word
      <4> QED
        BY <2>3, <4>6
    <3>3. ~AtVerdict(e) => session'.verification \in {"none", Word(user'.kyc)}
      <4>1. SUFFICES ASSUME ~AtVerdict(e)
                     PROVE  session'.verification \in {"none", Word(user.kyc)}
        BY <1>2
      <4>2. CASE d.todo[1][1] = "own"
        <5>1. r.verification = d.copy.verification
          BY <1>6, <2>4, <2>5, <4>2, OwnedOK
        <5> QED
          BY <1>4, <2>3, <2>15, <5>1
      <4>3. CASE d.todo[1][1] = "set" /\ d.todo[1][2] \in {"verification_success", "verification_failed"}
        <5>1. f.name \in Deciding /\ Len(f.todo) = 2
          BY <1>2, <2>9, <4>3, CallOf
        <5>2. e.name = f.name /\ Len(e.todo) = Len(f.todo) - 1
          BY <2>11, <5>1 DEF ProceedsTo
        <5>3. AtVerdict(e)
          <6> DEFINE n == Len(f.todo)
                     m == Len(e.todo)
          <6>1. n = 2 /\ m = n - 1
            BY <5>1, <5>2
          <6>2. m = 1
            <7> HIDE DEF n, m
            <7> QED
              BY <6>1
          <6> QED
            BY <5>1, <5>2, <6>2 DEF AtVerdict
        <5> QED
          BY <4>1, <5>3
      <4>4. CASE d.todo[1][1] = "set" /\ d.todo[1][2] \notin {"verification_success", "verification_failed"}
        <5>1. r.verification = d.copy.verification
          BY <1>6, <2>4, <2>5, <2>6, <4>4, MarkedOK
        <5> QED
          BY <1>4, <2>3, <2>15, <5>1
      <4> QED
        BY <1>2, <4>2, <4>3, <4>4
    <3> QED
      BY <1>1, <1>4, <2>3, <2>12, <2>15, <3>1, <3>2, <3>3, UntangledStep
  <2> QED
    BY <2>14, <2>15 DEF OnboardingInv
<1> QED
  BY <1>5, <1>6

-----------------------------------------------------------------------------
(* A request begins, or the surroundings take a step.                       *)

LEMMA ReceiveOnboardingInv ==
    ASSUME OnboardingInv, NEW h \in OnboardingHandlers, NEW name \in EndpointNames,
           ReceiveOnboarding(h, name)
    PROVE  OnboardingInv'
<1>1. OnboardingTyped /\ (~tangled => Untangled)
  BY DEF OnboardingInv
<1>2. /\ ~Busy(h) /\ onboardings < MaxOnboarding /\ onboardings' = onboardings + 1
      /\ tangled' = (tangled \/ \E g \in OnboardingHandlers : Busy(g))
      /\ UNCHANGED <<session, user, identity, event, onboardingFaults, marked, verdict>>
  BY DEF ReceiveOnboarding
<1>3. PICK t : t = Endpoint(name)
  OBVIOUS
<1>4. WellMade(name, t) /\ t[1][1] \notin {"set", "own"} /\ (name \in Deciding => Len(t) > 1)
  BY <1>3, EndpointMade
<1>5. t \in Seq(Awaits)
  BY <1>4 DEF WellMade
<1>6. PICK e : e = [IdleOnboarding EXCEPT !.todo = t, !.name = name]
  OBVIOUS
<1>7. /\ e \in Requests /\ e.todo = t /\ e.name = name /\ e.copy = NoSession
  <2>1. IdleOnboarding \in Requests /\ IdleOnboarding.copy = NoSession
    BY IdleMade DEF WorkOK, IdleOnboarding
  <2> QED
    BY <1>5, <1>6, <2>1 DEF Requests
<1>8. WorkOK(e) /\ onboardingHandler' = [onboardingHandler EXCEPT ![h] = e]
  <2>1. onboardingHandler' = [onboardingHandler EXCEPT ![h] = e]
    BY <1>3, <1>6 DEF ReceiveOnboarding
  <2> QED
    BY <1>4, <1>7, <2>1, IdleMade DEF WorkOK
<1>9. OnboardingTyped'
  <2>1. /\ user' \in [registered : BOOLEAN, kyc : {"NOT STARTED", "SUCCESS", "FAILED"}]
        /\ identity' \in {"absent", "PENDING", "VERIFIED", "FAILED"}
        /\ event' \in {"absent", "COMPLETED", "FAILED"}
        /\ onboardingFaults' \in 0..MaxOnboardingFaults
        /\ Agreed(user'.kyc, verdict', tangled')
        /\ SessionOK(session') /\ marked' \subseteq OnboardingSteps
    BY <1>1, <1>2 DEF OnboardingTyped, Agreed
  <2>2. onboardings' \in 0..MaxOnboarding
    <3>1. onboardings \in 0..MaxOnboarding
      BY <1>1 DEF OnboardingTyped
    <3>2. onboardings < MaxOnboarding /\ onboardings' = onboardings + 1
      BY <1>2
    <3> QED
      BY <3>1, <3>2, OnboardingAssumption
  <2>3. tangled' \in BOOLEAN
    BY <1>1, <1>2 DEF OnboardingTyped
  <2> QED
    BY <1>1, <1>8, <2>1, <2>2, <2>3, TypedStep
<1>10. ASSUME ~tangled' PROVE Untangled'
  <2>1. Untangled /\ \A g \in OnboardingHandlers : ~Busy(g)
    BY <1>1, <1>2, <1>10
  <2>2. ASSUME NEW g \in OnboardingHandlers PROVE ~AtVerdict(onboardingHandler[g])
    BY <2>1, AnsweredIsNotAtVerdict DEF Busy
  <2>3. session'.verification \in {"none", Word(user'.kyc)}
    BY <1>2, <2>1, <2>2 DEF Untangled
  <2>4. session' # NoSession => session'.done \cup {session'.step} = marked'
    BY <1>2, <2>1 DEF Untangled
  <2>5. ~AtVerdict(e)
    <3> DEFINE n == Len(t)
    <3>1. name \in Deciding => n > 1
      BY <1>4
    <3>2. ~(n > 1 /\ n = 1)
      <4> HIDE DEF n
      <4> QED
        OBVIOUS
    <3> QED
      BY <1>7, <3>1, <3>2 DEF AtVerdict
  <2>6. e.todo[1][1] \notin {"set", "own"}
    BY <1>4, <1>7
  <2> QED
    BY <1>1, <1>8, <2>1, <2>3, <2>4, <2>5, <2>6, UntangledStep
<1> QED
  BY <1>9, <1>10 DEF OnboardingInv

LEMMA SurroundingsInv ==
    ASSUME OnboardingInv, InitiateVerification \/ ExpireSession
    PROVE  OnboardingInv'
<1>1. OnboardingTyped /\ (~tangled => Untangled)
  BY DEF OnboardingInv
<1>2. CASE InitiateVerification
  <2>1. /\ identity' = "PENDING"
        /\ UNCHANGED <<session, user, event, onboardingHandler, onboardings, onboardingFaults,
                       marked, verdict, tangled>>
    BY <1>2 DEF InitiateVerification
  <2>2. OnboardingTyped'
    BY <1>1, <2>1 DEF OnboardingTyped
  <2>3. ~tangled' => Untangled'
    BY <1>1, <2>1 DEF Untangled, Busy, Calls, Now
  <2> QED
    BY <2>2, <2>3 DEF OnboardingInv
<1>3. CASE ExpireSession
  <2>1. /\ session' = NoSession /\ marked' = {}
        /\ tangled' = (tangled \/ \E h \in OnboardingHandlers : Busy(h))
        /\ UNCHANGED <<user, identity, event, onboardingHandler, onboardings,
                       onboardingFaults, verdict>>
    BY <1>3 DEF ExpireSession
  <2>2. tangled' \in BOOLEAN
    BY <1>1, <2>1 DEF OnboardingTyped
  <2>5. Agreed(user'.kyc, verdict', tangled')
    BY <1>1, <2>1 DEF OnboardingTyped, Agreed
  <2>3. OnboardingTyped'
    BY <1>1, <2>1, <2>2, <2>5, IdleMade DEF OnboardingTyped
  <2>4. ASSUME ~tangled' PROVE Untangled'
    <3>1. \A h \in OnboardingHandlers : ~Busy(h)
      BY <2>1, <2>4
    <3>2. \A h \in OnboardingHandlers : onboardingHandler'[h].todo = <<>>
      BY <2>1, <3>1 DEF Busy
    <3>3. session' = NoSession /\ session'.verification = "none"
      BY <2>1 DEF NoSession
    <3> QED
      BY <3>2, <3>3 DEF Untangled, Busy, Calls
  <2> QED
    BY <2>3, <2>4 DEF OnboardingInv
<1> QED
  BY <1>2, <1>3

LEMMA FailOnboardingInv ==
    ASSUME OnboardingInv, NEW h \in OnboardingHandlers, FailOnboarding(h)
    PROVE  OnboardingInv'
<1> DEFINE d == onboardingHandler[h]
<1>1. OnboardingTyped
  BY DEF OnboardingInv
<1>2. /\ Busy(h) /\ tangled' = TRUE
      /\ onboardingFaults' = onboardingFaults + 1 /\ onboardingFaults < MaxOnboardingFaults
      /\ UNCHANGED <<session, user, identity, event, onboardings, marked>>
      /\ Leave(h) \/ MissSession(h) \/ SwallowGreen(h)
  BY DEF FailOnboarding
<1>3. onboardingFaults' \in 0..MaxOnboardingFaults
  <2>1. onboardingFaults \in 0..MaxOnboardingFaults
    BY <1>1 DEF OnboardingTyped
  <2>2. onboardingFaults < MaxOnboardingFaults /\ onboardingFaults' = onboardingFaults + 1
    BY <1>2
  <2> QED
    BY <2>1, <2>2, OnboardingAssumption
<1>4. /\ user' \in [registered : BOOLEAN, kyc : {"NOT STARTED", "SUCCESS", "FAILED"}]
      /\ identity' \in {"absent", "PENDING", "VERIFIED", "FAILED"}
      /\ event' \in {"absent", "COMPLETED", "FAILED"}
      /\ onboardings' \in 0..MaxOnboarding
      /\ SessionOK(session') /\ marked' \subseteq OnboardingSteps
  BY <1>1, <1>2 DEF OnboardingTyped
<1>5. verdict \in {"NOT STARTED", "SUCCESS", "FAILED"}
  BY <1>1 DEF OnboardingTyped, Agreed
<1>6. PICK e :
        /\ WorkOK(e) /\ onboardingHandler' = [onboardingHandler EXCEPT ![h] = e]
        /\ verdict' \in {"NOT STARTED", "SUCCESS", "FAILED"}
  <2>1. CASE Leave(h)
    BY <1>5, <2>1, LeaveMoves
  <2>2. CASE MissSession(h)
    <3>1. WorkOK(d) /\ d.todo # <<>> /\ d.todo[1][1] = "get"
      BY <1>1, <1>2, <2>2, AwaitedCall DEF MissSession, Calls, Now
    <3>2. PICK f : f = [d EXCEPT !.copy = NoSession]
      OBVIOUS
    <3>3. WorkOK(f) /\ f.todo = d.todo
      <4>1. NoSession \in Sessions
        BY IdleMade DEF SessionOK
      <4> QED
        BY <3>1, <3>2, <4>1, IdleMade DEF WorkOK, Requests
    <3>4. Proceed(h, f)
      BY <2>2, <3>2 DEF MissSession
    <3>5. verdict' = verdict /\ \E e : GoesOn(h, f, e)
      BY <1>1, <3>1, <3>3, <3>4, CallMoves
    <3>6. PICK e : GoesOn(h, f, e)
      BY <3>5
    <3> QED
      BY <1>5, <3>5, <3>6 DEF GoesOn
  <2>3. CASE SwallowGreen(h)
    <3>1. /\ verdict' = "SUCCESS"
          /\ onboardingHandler' = [onboardingHandler EXCEPT ![h] = IdleOnboarding]
      BY <2>3 DEF SwallowGreen, VerdictOf
    <3> QED
      BY <3>1, IdleMade
  <2> QED
    BY <1>2, <2>1, <2>2, <2>3
<1>7. Agreed(user'.kyc, verdict', tangled') /\ tangled' \in BOOLEAN
  BY <1>2, <1>6 DEF Agreed
<1>8. OnboardingTyped'
  BY <1>1, <1>3, <1>4, <1>6, <1>7, TypedStep
<1> QED
  BY <1>2, <1>8 DEF OnboardingInv

LEMMA OnboardingInitInv == OnboardingInit => OnboardingInv
<1> SUFFICES ASSUME OnboardingInit PROVE OnboardingInv
  OBVIOUS
<1>1. /\ session = NoSession /\ user = [registered |-> FALSE, kyc |-> "NOT STARTED"]
      /\ identity = "absent" /\ event = "absent"
      /\ onboardingHandler = [h \in OnboardingHandlers |-> IdleOnboarding]
      /\ onboardings = 0 /\ onboardingFaults = 0
      /\ marked = {} /\ verdict = "NOT STARTED" /\ tangled = FALSE
  BY DEF OnboardingInit
<1>2. /\ onboardings \in 0..MaxOnboarding /\ onboardingFaults \in 0..MaxOnboardingFaults
  <2>1. onboardings = 0 /\ onboardingFaults = 0
    BY <1>1
  <2> QED
    BY <2>1, OnboardingAssumption
<1>3. /\ DOMAIN onboardingHandler = OnboardingHandlers
      /\ \A h \in OnboardingHandlers : onboardingHandler[h] = IdleOnboarding
  BY <1>1
<1>4. OnboardingTyped
  <2>1. \A h \in OnboardingHandlers : WorkOK(onboardingHandler[h])
    BY <1>3, IdleMade
  <2>2. SessionOK(session) /\ tangled \in BOOLEAN /\ marked \subseteq OnboardingSteps
    BY <1>1, IdleMade
  <2>3. /\ user \in [registered : BOOLEAN, kyc : {"NOT STARTED", "SUCCESS", "FAILED"}]
        /\ Agreed(user.kyc, verdict, tangled)
    BY <1>1 DEF Agreed
  <2> QED
    BY <1>1, <1>2, <1>3, <2>1, <2>2, <2>3 DEF OnboardingTyped
<1>5. Untangled
  <2>1. \A h \in OnboardingHandlers : onboardingHandler[h].todo = <<>>
    BY <1>3, IdleMade
  <2>2. session.verification = "none"
    BY <1>1 DEF NoSession
  <2>3. \A h \in OnboardingHandlers : ~AtVerdict(onboardingHandler[h])
    BY <1>3, IdleMade
  <2> QED
    BY <1>1, <2>1, <2>2, <2>3 DEF Untangled, Busy, Calls
<1> QED
  BY <1>4, <1>5 DEF OnboardingInv

LEMMA OnboardingNextInv == OnboardingInv /\ [OnboardingNext]_onboardingVars => OnboardingInv'
<1> SUFFICES ASSUME OnboardingInv, [OnboardingNext]_onboardingVars PROVE OnboardingInv'
  OBVIOUS
<1>1. CASE UNCHANGED onboardingVars
  <2>1. UNCHANGED <<session, user, identity, event, onboardingHandler, onboardings,
                    onboardingFaults, marked, verdict, tangled>>
    BY <1>1 DEF onboardingVars
  <2>2. OnboardingTyped' /\ (~tangled' => Untangled')
    BY <2>1 DEF OnboardingInv, OnboardingTyped, Untangled, Busy, Calls, Now
  <2> QED
    BY <2>2 DEF OnboardingInv
<1>2. ASSUME NEW h \in OnboardingHandlers, NEW name \in EndpointNames,
             ReceiveOnboarding(h, name)
      PROVE  OnboardingInv'
  BY <1>2, ReceiveOnboardingInv
<1>3. ASSUME NEW h \in OnboardingHandlers, OnboardingStep(h) PROVE OnboardingInv'
  BY <1>3, PlainCallsInv, CreateSessionInv, GetSessionInv, SetSessionInv, UpdateKycInv
     DEF OnboardingStep
<1>4. ASSUME NEW h \in OnboardingHandlers, FailOnboarding(h) PROVE OnboardingInv'
  BY <1>4, FailOnboardingInv
<1>5. CASE InitiateVerification \/ ExpireSession
  BY <1>5, SurroundingsInv
<1> QED
  BY <1>1, <1>2, <1>3, <1>4, <1>5 DEF OnboardingNext

LEMMA OnboardingInvImplies == OnboardingInv => KycAgrees /\ ResumeIsEarned /\ OnboardingTypeOK
<1> SUFFICES ASSUME OnboardingInv PROVE KycAgrees /\ ResumeIsEarned /\ OnboardingTypeOK
  OBVIOUS
<1>1. OnboardingTyped /\ (~tangled => Untangled)
  BY DEF OnboardingInv
<1>2. ASSUME QuietOnboarding
      PROVE  /\ user.kyc = verdict
             /\ session.verification \in {"none", Word(user.kyc)}
             /\ session # NoSession => session.done \cup {session.step} = marked
  <2>1. Untangled /\ \A h \in OnboardingHandlers : onboardingHandler[h].todo = <<>>
    BY <1>1, <1>2 DEF QuietOnboarding, Busy
  <2>2. ASSUME NEW h \in OnboardingHandlers PROVE ~AtVerdict(onboardingHandler[h])
    BY <2>1, AnsweredIsNotAtVerdict
  <2> QED
    BY <1>1, <1>2, <2>1, <2>2 DEF Untangled, OnboardingTyped, QuietOnboarding, Agreed
<1>3. KycAgrees /\ ResumeIsEarned
  BY <1>2 DEF KycAgrees, ResumeIsEarned, Word
<1>4. ASSUME NEW h \in OnboardingHandlers
      PROVE  /\ onboardingHandler[h].name \in EndpointNames \cup {"none"}
             /\ onboardingHandler[h].copy \in Sessions
             /\ onboardingHandler[h].found \in BOOLEAN
             /\ Len(onboardingHandler[h].todo) \in 0..7
  <2>1. WorkOK(onboardingHandler[h])
    BY <1>1 DEF OnboardingTyped
  <2>2. PICK t : t = onboardingHandler[h].todo
    OBVIOUS
  <2>3. t \in Seq(Awaits) /\ Len(t) <= 7
    BY <2>1, <2>2 DEF WorkOK, WellMade
  <2>4. Len(t) \in 0..7
    <3> DEFINE n == Len(t)
    <3>1. n \in Nat /\ n <= 7
      BY <2>3, LenProperties
    <3>2. n \in 0..7
      <4> HIDE DEF n
      <4> QED
        BY <3>1
    <3> QED
      BY <3>2
  <2> QED
    BY <2>1, <2>2, <2>4 DEF WorkOK, Requests
<1>5. OnboardingTypeOK
  BY <1>1, <1>4 DEF OnboardingTypeOK, OnboardingTyped, SessionOK, Agreed
<1> QED
  BY <1>3, <1>5

\* While no two requests overlap and none is cut short, the users row, the last
\* processed verdict and the state the app resumes from agree.
THEOREM VerdictsAgree == OnboardingSpec => []KycAgrees
<1> QED
  BY OnboardingInitInv, OnboardingNextInv, OnboardingInvImplies, PTL DEF OnboardingSpec

\* An app that resumes is told exactly the steps marked since its session began.
THEOREM ResumeIsExact == OnboardingSpec => []ResumeIsEarned
<1> QED
  BY OnboardingInitInv, OnboardingNextInv, OnboardingInvImplies, PTL DEF OnboardingSpec

-----------------------------------------------------------------------------
(* The profile. A copy of a row, however old, holds an address with its own *)
(* hash and a picture that can be retrieved; the unique index does the rest. *)

\* What a row and every copy of one is like, with F the files that have both
\* their object and their row.
GoodRow(row, F) ==
    /\ row.hash = row.email
    /\ row.picture = 0 \/ row.picture \in F

Stored == objects \cap fileRows

\* What a request knows at each await, with O the objects and F as above.
ProfileRequestOK(d, O, F) ==
    /\ GoodRow(d.copy, F)
    /\ d.pc = "check" => d.op = "email"
    /\ d.pc = "find" => d.op \in {"picture", "profile", "token", "email"}
    /\ d.pc \in {"put", "record"} => d.op \in {"picture", "file"}
    /\ d.pc = "record" => d.value \in O
    /\ d.pc = "save" => d.op \in {"picture", "profile", "token", "email"}
    /\ d.pc = "save" /\ d.op = "picture" => d.value \in F
    /\ d.pc = "update" => d.op \in {"edit", "key"}
    /\ d.pc # "idle" => d.value \in 1..MaxEdits

ProfileInv ==
    /\ ProfileTypeOK
    /\ \A u \in Owners : GoodRow(profiles[u], Stored)
    /\ \A u, v \in Owners : profiles[u].hash = profiles[v].hash => u = v
    /\ fileRows \subseteq objects
    /\ EditsStick
    /\ \A h \in ProfileHandlers : ProfileRequestOK(profileHandler[h], objects, Stored)

-----------------------------------------------------------------------------
(* Rows.                                                                   *)

LEMMA ColumnsOf ==
    /\ {"picture", "token", "key", "firstName", "lastName", "street", "city",
        "email", "hash"} = Columns
    /\ Numbered = Columns \ {"email", "hash"} /\ Names \cup Parts \subseteq Numbered
BY DEF Columns, Numbered, Names, Parts

LEMMA FirstRowOK ==
    \A u \in Owners : /\ FirstRow(u) \in ProfileRow
                      /\ FirstRow(u).hash = u /\ FirstRow(u).email = u
                      /\ FirstRow(u).picture = 0
BY ProfileAssumption DEF FirstRow, ProfileRow, Columns, Numbered, Names, Parts, Addresses

LEMMA IdleProfileOK == IdleProfile \in ProfileRequest /\ IdleProfile.pc = "idle"
                       /\ \A O, F : ProfileRequestOK(IdleProfile, O, F)
<1>1. SomeOwner \in Owners
  BY ProfileAssumption DEF SomeOwner
<1>2. IdleProfile \in ProfileRequest
  BY <1>1, FirstRowOK, ProfileAssumption
  DEF IdleProfile, ProfileRequest, Addresses
<1>3. \A F : GoodRow(IdleProfile.copy, F)
  BY <1>1, FirstRowOK DEF IdleProfile, GoodRow
<1> QED
  BY <1>2, <1>3 DEF IdleProfile, ProfileRequestOK

\* What a request that saves makes of its copy: it is a row, it differs in the
\* columns the request is meant to write only, and is as good as the copy.
LEMMA EditedRow ==
    ASSUME NEW d \in ProfileRequest, NEW O, NEW F, ProfileRequestOK(d, O, F), d.pc = "save"
    PROVE  /\ Edited(d) \in ProfileRow
           /\ GoodRow(Edited(d), F)
           /\ \A c \in Columns \ Meant(d) : Edited(d)[c] = d.copy[c]
<1>1. /\ d.copy \in ProfileRow /\ d.value \in 0..MaxEdits /\ d.parts \subseteq Names \cup Parts
      /\ d.address \in Addresses /\ d.copy.hash = d.copy.email
      /\ d.copy.picture = 0 \/ d.copy.picture \in F
  BY DEF ProfileRequest, ProfileRequestOK, GoodRow
<1>2. CASE d.op = "picture"
  <2> DEFINE row == [d.copy EXCEPT !.picture = d.value]
  <2>1. Edited(d) = row /\ Meant(d) = {"picture"}
    BY <1>2 DEF Edited, Meant
  <2>2. row \in ProfileRow
    BY <1>1 DEF ProfileRow, Columns, Numbered, Names, Parts
  <2>3. \A c \in Columns \ {"picture"} : row[c] = d.copy[c]
    BY <1>1 DEF ProfileRow
  <2>4. row.picture = d.value /\ d.value \in F /\ row.hash = row.email
    BY <1>2, <1>1 DEF ProfileRow, ProfileRequestOK, Columns, Numbered, Names, Parts
  <2> HIDE DEF row
  <2> QED
    BY <2>1, <2>2, <2>3, <2>4 DEF GoodRow
<1>3. CASE d.op = "token"
  <2> DEFINE row == [d.copy EXCEPT !.token = d.value]
  <2>1. Edited(d) = row /\ Meant(d) = {"token"}
    BY <1>3 DEF Edited, Meant
  <2>2. row \in ProfileRow
    BY <1>1 DEF ProfileRow, Columns, Numbered, Names, Parts
  <2>3. \A c \in Columns \ {"token"} : row[c] = d.copy[c]
    BY <1>1 DEF ProfileRow
  <2>4. row.picture = d.copy.picture /\ row.hash = row.email
    BY <1>1 DEF ProfileRow, Columns, Numbered, Names, Parts
  <2> HIDE DEF row
  <2> QED
    BY <1>1, <2>1, <2>2, <2>3, <2>4 DEF GoodRow
<1>4. CASE d.op = "email"
  <2> DEFINE row == [d.copy EXCEPT !.email = d.address, !.hash = d.address]
  <2>1. Edited(d) = row /\ Meant(d) = {"email", "hash"}
    BY <1>4 DEF Edited, EmailEdit, Meant
  <2>2. row \in ProfileRow
    BY <1>1 DEF ProfileRow, Columns, Numbered, Names, Parts
  <2>3. \A c \in Columns \ {"email", "hash"} : row[c] = d.copy[c]
    BY <1>1 DEF ProfileRow
  <2>4. row.picture = d.copy.picture /\ row.hash = row.email
    BY <1>1 DEF ProfileRow, Columns, Numbered, Names, Parts
  <2> HIDE DEF row
  <2> QED
    BY <1>1, <2>1, <2>2, <2>3, <2>4 DEF GoodRow
<1>5. CASE d.op = "profile"
  <2> DEFINE row == [c \in Columns |-> IF c \in d.parts THEN d.value ELSE d.copy[c]]
  <2>1. Edited(d) = row /\ Meant(d) = d.parts
    BY <1>5 DEF Edited, ProfileEdit, Meant
  <2>2. row \in ProfileRow
    BY <1>1 DEF ProfileRow, Columns, Numbered, Names, Parts
  <2>3. \A c \in Columns \ d.parts : row[c] = d.copy[c]
    BY <1>1 DEF ProfileRow
  <2>4. row.picture = d.copy.picture /\ row.hash = row.email
    BY <1>1 DEF Columns, Numbered, Names, Parts
  <2> HIDE DEF row
  <2> QED
    BY <1>1, <2>1, <2>2, <2>3, <2>4 DEF GoodRow
<1> QED
  BY <1>2, <1>3, <1>4, <1>5 DEF ProfileRequestOK

\* The row an update leaves.
Updated(d) ==
    IF d.op = "key" THEN [profiles[d.owner] EXCEPT !.key = d.value] ELSE AddressEdit(d)

LEMMA UpdatedRow ==
    ASSUME NEW d \in ProfileRequest, NEW F, d.op \in {"edit", "key"},
           profiles[d.owner] \in ProfileRow, GoodRow(profiles[d.owner], F)
    PROVE  /\ Updated(d) \in ProfileRow
           /\ GoodRow(Updated(d), F) /\ Updated(d).hash = profiles[d.owner].hash
           /\ \A c \in Columns \ Meant(d) : Updated(d)[c] = profiles[d.owner][c]
<1> DEFINE now == profiles[d.owner]
<1>1. d.value \in 0..MaxEdits /\ d.parts \subseteq Names \cup Parts /\ now \in ProfileRow
  BY DEF ProfileRequest
<1>2. CASE d.op = "key"
  <2> DEFINE row == [now EXCEPT !.key = d.value]
  <2>1. Updated(d) = row /\ Meant(d) = {"key"}
    BY <1>2 DEF Updated, Meant
  <2>2. row \in ProfileRow
    BY <1>1 DEF ProfileRow, Columns, Numbered, Names, Parts
  <2>3. /\ \A c \in Columns \ {"key"} : row[c] = now[c]
        /\ row.picture = now.picture /\ row.hash = now.hash /\ row.email = now.email
    BY <1>1 DEF ProfileRow, Columns, Numbered, Names, Parts
  <2> HIDE DEF row
  <2> QED
    BY <2>1, <2>2, <2>3 DEF GoodRow
<1>3. CASE d.op = "edit"
  <2> DEFINE row == [c \in Columns |-> IF c \notin Parts THEN now[c]
                                      ELSE IF c \in d.parts THEN d.value ELSE 0]
  <2>1. Updated(d) = row /\ Meant(d) = Parts
    BY <1>3 DEF Updated, AddressEdit, Meant
  <2>2. row \in ProfileRow
    BY <1>1, ProfileAssumption DEF ProfileRow, Columns, Numbered, Names, Parts
  <2>3. /\ \A c \in Columns \ Parts : row[c] = now[c]
        /\ row.picture = now.picture /\ row.hash = now.hash /\ row.email = now.email
    BY <1>1 DEF Columns, Numbered, Names, Parts
  <2> HIDE DEF row
  <2> QED
    BY <2>1, <2>2, <2>3 DEF GoodRow
<1> QED
  BY <1>2, <1>3

\* Writing a row keeps every row right: it is a good row, its hash is no other
\* user's, and it changes its base in the columns it is meant to only.
LEMMA WriteKeeps ==
    ASSUME ProfileInv, NEW d \in ProfileRequest, NEW row \in ProfileRow,
           NEW base \in ProfileRow, WriteRow(d, base, row), GoodRow(row, Stored),
           \A c \in Columns \ Meant(d) : row[c] = base[c],
           \A v \in Owners \ {d.owner} : profiles[v].hash # row.hash,
           UNCHANGED <<objects, fileRows>>
    PROVE  /\ profiles' \in [Owners -> ProfileRow] /\ asked' \in [Owners -> ProfileRow]
           /\ reverted' \subseteq Owners \X Columns
           /\ (\A u \in Owners : GoodRow(profiles[u], Stored))'
           /\ \A u, v \in Owners : profiles'[u].hash = profiles'[v].hash => u = v
           /\ EditsStick'
<1> DEFINE o == d.owner
<1>1. /\ o \in Owners /\ profiles \in [Owners -> ProfileRow]
      /\ asked \in [Owners -> ProfileRow] /\ reverted \subseteq Owners \X Columns
  BY DEF ProfileInv, ProfileTypeOK, ProfileRequest
<1>2. /\ profiles' = [profiles EXCEPT ![o] = row]
      /\ asked' = [asked EXCEPT ![o] =
                     [c \in Columns |-> IF c \in Meant(d) THEN row[c] ELSE asked[o][c]]]
      /\ reverted' = (reverted \ ({o} \X Meant(d))) \cup
            ({o} \X {c \in Columns \ Meant(d) : base[c] # profiles[o][c]})
  BY <1>1 DEF WriteRow
<1>3. profiles' \in [Owners -> ProfileRow]
  BY <1>1, <1>2
<1>4. [c \in Columns |-> IF c \in Meant(d) THEN row[c] ELSE asked[o][c]] \in ProfileRow
  <2>1. asked[o] \in ProfileRow
    BY <1>1
  <2> QED
    BY <2>1 DEF ProfileRow, Columns, Numbered, Names, Parts
<1>5. asked' \in [Owners -> ProfileRow]
  BY <1>1, <1>2, <1>4
<1>6. reverted' \subseteq Owners \X Columns
  BY <1>1, <1>2
<1>7. (\A u \in Owners : GoodRow(profiles[u], Stored))'
  BY <1>1, <1>2 DEF ProfileInv, GoodRow, Stored
<1>8. ASSUME NEW u \in Owners, NEW v \in Owners, profiles'[u].hash = profiles'[v].hash
      PROVE  u = v
  BY <1>1, <1>2, <1>8 DEF ProfileInv
<1>9. ASSUME NEW u \in Owners, NEW c \in Columns
      PROVE  profiles'[u][c] = asked'[u][c] \/ <<u, c>> \in reverted'
  <2>1. profiles[u][c] = asked[u][c] \/ <<u, c>> \in reverted
    BY DEF ProfileInv, EditsStick
  <2>2. CASE u # o
    BY <1>1, <1>2, <2>1, <2>2
  <2>3. CASE u = o /\ c \in Meant(d)
    BY <1>1, <1>2, <2>3
  <2>4. CASE u = o /\ c \notin Meant(d)
    <3>1. profiles'[u][c] = base[c] /\ asked'[u][c] = asked[u][c]
      BY <1>1, <1>2, <2>4
    <3> QED
      BY <1>2, <2>1, <2>4, <3>1
  <2> QED
    BY <2>2, <2>3, <2>4
<1> QED
  BY <1>3, <1>5, <1>6, <1>7, <1>8, <1>9 DEF EditsStick

-----------------------------------------------------------------------------
(* Steps.                                                                  *)

\* Objects and file rows are only added: what a request knows stays true.
LEMMA RequestStaysOK ==
    ASSUME NEW d, NEW O, NEW F, NEW P, NEW G, ProfileRequestOK(d, O, F),
           O \subseteq P, F \subseteq G
    PROVE  ProfileRequestOK(d, P, G)
BY DEF ProfileRequestOK, GoodRow

\* A request goes on from one await to the next, or ends.
LEMMA HandlersKept ==
    ASSUME ProfileInv, NEW h \in ProfileHandlers, NEW e \in ProfileRequest,
           profileHandler' = [profileHandler EXCEPT ![h] = e],
           ProfileRequestOK(e, objects', Stored'),
           objects \subseteq objects', fileRows \subseteq fileRows'
    PROVE  /\ profileHandler' \in [ProfileHandlers -> ProfileRequest]
           /\ \A g \in ProfileHandlers : ProfileRequestOK(profileHandler'[g], objects', Stored')
<1>1. profileHandler \in [ProfileHandlers -> ProfileRequest]
  BY DEF ProfileInv, ProfileTypeOK
<1>2. ASSUME NEW g \in ProfileHandlers
      PROVE  ProfileRequestOK(profileHandler'[g], objects', Stored')
  <2>1. CASE g = h
    BY <1>1, <2>1
  <2>2. CASE g # h
    <3>1. profileHandler'[g] = profileHandler[g]
      BY <1>1, <2>2
    <3>2. ProfileRequestOK(profileHandler[g], objects, Stored)
      BY DEF ProfileInv
    <3>3. Stored \subseteq Stored'
      BY DEF Stored
    <3> QED
      BY <3>1, <3>2, <3>3, RequestStaysOK
  <2> QED
    BY <2>1, <2>2
<1> QED
  BY <1>1, <1>2

\* A step that writes no users row.
LEMMA RowsUntouched ==
    ASSUME ProfileInv, NEW h \in ProfileHandlers, NEW e \in ProfileRequest,
           profileHandler' = [profileHandler EXCEPT ![h] = e],
           ProfileRequestOK(e, objects', Stored'),
           UNCHANGED <<profiles, asked, reverted>>,
           objects \subseteq objects', fileRows \subseteq fileRows',
           fileRows' \subseteq objects', objects' \subseteq 1..MaxEdits,
           edits' \in 0..MaxEdits, profileFaults' \in 0..MaxProfileFaults
    PROVE  ProfileInv'
<1>1. /\ profileHandler' \in [ProfileHandlers -> ProfileRequest]
      /\ \A g \in ProfileHandlers : ProfileRequestOK(profileHandler'[g], objects', Stored')
  BY HandlersKept
<1>2. ProfileTypeOK'
  BY <1>1 DEF ProfileInv, ProfileTypeOK
<1>3. \A u \in Owners : GoodRow(profiles'[u], Stored')
  BY DEF ProfileInv, GoodRow, Stored
<1>4. \A u, v \in Owners : profiles'[u].hash = profiles'[v].hash => u = v
  BY DEF ProfileInv
<1>5. EditsStick'
  BY DEF ProfileInv, EditsStick
<1> QED
  BY <1>1, <1>2, <1>3, <1>4, <1>5 DEF ProfileInv

\* A request that is answered, whatever it was about.
LEMMA AnswerKeeps ==
    ASSUME ProfileInv, NEW h \in ProfileHandlers, ProfileAnswers(h),
           UNCHANGED <<profiles, asked, reverted, objects>>,
           fileRows \subseteq fileRows', fileRows' \subseteq objects,
           edits' \in 0..MaxEdits, profileFaults' \in 0..MaxProfileFaults
    PROVE  ProfileInv'
<1>1. objects' = objects /\ objects \subseteq 1..MaxEdits
  BY DEF ProfileInv, ProfileTypeOK
<1> QED
  BY <1>1, IdleProfileOK, RowsUntouched DEF ProfileAnswers

\* What is true of the request of a handler.
LEMMA RequestOf ==
    ASSUME ProfileInv, NEW h \in ProfileHandlers
    PROVE  /\ profileHandler[h] \in ProfileRequest
           /\ ProfileRequestOK(profileHandler[h], objects, Stored)
           /\ profileHandler[h].owner \in Owners
           /\ profiles[profileHandler[h].owner] \in ProfileRow
           /\ GoodRow(profiles[profileHandler[h].owner], Stored)
           /\ edits \in 0..MaxEdits /\ profileFaults \in 0..MaxProfileFaults
           /\ objects \subseteq 1..MaxEdits /\ fileRows \subseteq objects
BY DEF ProfileInv, ProfileTypeOK, ProfileRequest

\* The request as it is received.
Received(pc, op, u, n, parts, address) ==
    [IdleProfile EXCEPT !.pc = pc, !.op = op, !.owner = u, !.value = n,
                        !.parts = parts, !.address = address]

LEMMA ReceivedOK ==
    ASSUME NEW u \in Owners, NEW n \in 1..MaxEdits,
           NEW op \in {"picture", "file", "token", "key", "profile", "edit", "email"},
           NEW parts \in SUBSET (Names \cup Parts), NEW address \in Addresses, NEW O, NEW F,
           NEW pc \in {"check", "find", "put", "update"},
           \/ pc = "check" /\ op = "email"
           \/ pc = "put" /\ op = "file"
           \/ pc = "find" /\ op \in {"picture", "profile", "token"}
           \/ pc = "update" /\ op \in {"edit", "key"}
    PROVE  /\ Received(pc, op, u, n, parts, address) \in ProfileRequest
           /\ ProfileRequestOK(Received(pc, op, u, n, parts, address), O, F)
<1> DEFINE e == Received(pc, op, u, n, parts, address)
<1>1. IdleProfile \in ProfileRequest /\ \A P, G : ProfileRequestOK(IdleProfile, P, G)
  BY IdleProfileOK
<1>2. n \in 0..MaxEdits
  BY ProfileAssumption
<1>3. e \in ProfileRequest
  BY <1>1, <1>2 DEF Received, ProfileRequest
<1>4. e.pc = pc /\ e.op = op /\ e.value = n /\ e.copy = IdleProfile.copy
  BY <1>1 DEF Received, ProfileRequest
<1>5. GoodRow(IdleProfile.copy, F)
  BY <1>1 DEF ProfileRequestOK
<1> HIDE DEF e
<1>6. ProfileRequestOK(e, O, F)
  BY <1>4, <1>5 DEF ProfileRequestOK
<1> QED
  BY <1>3, <1>6 DEF e

LEMMA ReceiveEditKeeps ==
    ASSUME ProfileInv, NEW h \in ProfileHandlers, NEW u \in Owners,
           NEW op \in {"picture", "file", "token", "key", "profile", "edit", "email"},
           NEW parts \in SUBSET (Names \cup Parts), NEW address \in Addresses,
           ReceiveEdit(h, u, op, parts, address)
    PROVE  ProfileInv'
<1>1. edits + 1 \in 1..MaxEdits
  BY RequestOf, ProfileAssumption DEF ReceiveEdit
<1>2. \/ FirstCall(op) = "check" /\ op = "email"
      \/ FirstCall(op) = "put" /\ op = "file"
      \/ FirstCall(op) = "find" /\ op \in {"picture", "profile", "token"}
      \/ FirstCall(op) = "update" /\ op \in {"edit", "key"}
  BY DEF FirstCall
<1>3. FirstCall(op) \in {"check", "find", "put", "update"}
  BY <1>2
<1>4. PICK e \in ProfileRequest :
        /\ ProfileRequestOK(e, objects', Stored')
        /\ profileHandler' = [profileHandler EXCEPT ![h] = e]
  <2>1. PICK pc \in {"check", "find", "put", "update"}, n \in 1..MaxEdits :
          pc = FirstCall(op) /\ n = edits + 1
    BY <1>1, <1>3
  <2> DEFINE e == Received(pc, op, u, n, parts, address)
  <2>2. profileHandler' = [profileHandler EXCEPT ![h] = e]
    BY <2>1 DEF ReceiveEdit, Received
  <2>3. \/ pc = "check" /\ op = "email"
        \/ pc = "put" /\ op = "file"
        \/ pc = "find" /\ op \in {"picture", "profile", "token"}
        \/ pc = "update" /\ op \in {"edit", "key"}
    BY <1>2, <2>1
  <2>4. e \in ProfileRequest /\ ProfileRequestOK(e, objects', Stored')
    BY <2>3, ReceivedOK
  <2> QED
    BY <2>2, <2>4, Zenon
<1>5. UNCHANGED <<profiles, asked, reverted, objects, fileRows, profileFaults>>
        /\ edits' = edits + 1
  BY DEF ReceiveEdit
<1>6. /\ objects' \subseteq 1..MaxEdits /\ fileRows' \subseteq objects'
      /\ edits' \in 0..MaxEdits /\ profileFaults' \in 0..MaxProfileFaults
  BY <1>1, <1>5, RequestOf, ProfileAssumption
<1> QED
  BY <1>4, <1>5, <1>6, RowsUntouched

\* A request that goes on to pc with what it has.
LEMMA Goes ==
    ASSUME ProfileInv, NEW h \in ProfileHandlers, NEW pc \in {"find", "record", "save"},
           ProfileGoes(h, pc)
    PROVE  \E e \in ProfileRequest :
             /\ profileHandler' = [profileHandler EXCEPT ![h] = e]
             /\ e = [profileHandler[h] EXCEPT !.pc = pc]
<1> DEFINE e == [profileHandler[h] EXCEPT !.pc = pc]
<1>1. profileHandler \in [ProfileHandlers -> ProfileRequest]
  BY DEF ProfileInv, ProfileTypeOK
<1>2. e \in ProfileRequest
  BY <1>1 DEF ProfileRequest
<1>3. profileHandler' = [profileHandler EXCEPT ![h] = e]
  BY <1>1 DEF ProfileGoes, ProfileRequest
<1> QED
  BY <1>2, <1>3

LEMMA CheckAddressKeeps ==
    ASSUME ProfileInv, NEW h \in ProfileHandlers, CheckAddress(h)
    PROVE  ProfileInv'
<1> DEFINE d == profileHandler[h]
<1>1. /\ d \in ProfileRequest /\ ProfileRequestOK(d, objects, Stored) /\ d.pc = "check"
      /\ edits \in 0..MaxEdits /\ profileFaults \in 0..MaxProfileFaults
      /\ objects \subseteq 1..MaxEdits /\ fileRows \subseteq objects
  BY RequestOf DEF CheckAddress, ProfileAt
<1>2. UNCHANGED <<profiles, objects, fileRows, edits, profileFaults, asked, reverted>>
  BY DEF CheckAddress
<1>3. CASE ProfileAnswers(h)
  BY <1>1, <1>2, <1>3, AnswerKeeps
<1>4. CASE ProfileGoes(h, "find")
  <2>1. PICK e \in ProfileRequest : /\ profileHandler' = [profileHandler EXCEPT ![h] = e]
                                    /\ e = [d EXCEPT !.pc = "find"]
    BY <1>4, Goes
  <2>2. ProfileRequestOK(e, objects', Stored')
    BY <1>1, <1>2, <2>1 DEF ProfileRequestOK, ProfileRequest, Stored
  <2> QED
    BY <1>1, <1>2, <2>1, <2>2, RowsUntouched
<1> QED
  BY <1>3, <1>4 DEF CheckAddress

\* The copy is as good as the row it is made of.
LEMMA FindOwnerKeeps ==
    ASSUME ProfileInv, NEW h \in ProfileHandlers, FindOwner(h)
    PROVE  ProfileInv'
<1> DEFINE d == profileHandler[h]
           e == [d EXCEPT !.pc = IF d.op = "picture" THEN "put" ELSE "save",
                          !.copy = profiles[d.owner]]
<1>1. /\ d \in ProfileRequest /\ ProfileRequestOK(d, objects, Stored) /\ d.pc = "find"
      /\ profiles[d.owner] \in ProfileRow /\ GoodRow(profiles[d.owner], Stored)
      /\ edits \in 0..MaxEdits /\ profileFaults \in 0..MaxProfileFaults
      /\ objects \subseteq 1..MaxEdits /\ fileRows \subseteq objects
  BY RequestOf DEF FindOwner, ProfileAt
<1>2. UNCHANGED <<profiles, objects, fileRows, edits, profileFaults, asked, reverted>>
  BY DEF FindOwner
<1>3. e \in ProfileRequest
  BY <1>1 DEF ProfileRequest
<1>4. profileHandler' = [profileHandler EXCEPT ![h] = e]
  BY DEF FindOwner, ProfileInv, ProfileTypeOK, ProfileRequest
<1>5. ProfileRequestOK(e, objects', Stored')
  <2>1. e.copy = profiles[d.owner] /\ e.op = d.op /\ e.value = d.value
          /\ e.pc = (IF d.op = "picture" THEN "put" ELSE "save")
    BY <1>1 DEF ProfileRequest
  <2> HIDE DEF e
  <2> QED
    BY <1>1, <1>2, <2>1 DEF ProfileRequestOK, Stored
<1> QED
  BY <1>1, <1>2, <1>3, <1>4, <1>5, RowsUntouched

\* The row of a file comes after its object.
LEMMA PutObjectKeeps ==
    ASSUME ProfileInv, NEW h \in ProfileHandlers, PutObject(h)
    PROVE  ProfileInv'
<1> DEFINE d == profileHandler[h]
<1>1. /\ d \in ProfileRequest /\ ProfileRequestOK(d, objects, Stored) /\ d.pc = "put"
      /\ d.value \in 1..MaxEdits
      /\ edits \in 0..MaxEdits /\ profileFaults \in 0..MaxProfileFaults
      /\ objects \subseteq 1..MaxEdits /\ fileRows \subseteq objects
  BY RequestOf DEF PutObject, ProfileAt, ProfileRequestOK
<1>2. UNCHANGED <<profiles, fileRows, edits, asked, reverted>>
  BY DEF PutObject
<1>3. CASE objects' = objects \cup {d.value} /\ ProfileGoes(h, "record")
             /\ UNCHANGED profileFaults
  <2>1. PICK e \in ProfileRequest : /\ profileHandler' = [profileHandler EXCEPT ![h] = e]
                                    /\ e = [d EXCEPT !.pc = "record"]
    BY <1>3, Goes
  <2>2. ProfileRequestOK(e, objects', Stored')
    <3>1. ProfileRequestOK(d, objects', Stored') /\ d.value \in objects'
      BY <1>1, <1>2, <1>3, RequestStaysOK DEF Stored
    <3> QED
      BY <1>1, <2>1, <3>1 DEF ProfileRequestOK, ProfileRequest
  <2> QED
    BY <1>1, <1>2, <1>3, <2>1, <2>2, RowsUntouched
<1>4. CASE ProfileAnswers(h) /\ UNCHANGED objects /\ profileFaults < MaxProfileFaults
             /\ profileFaults' = profileFaults + 1
  <2>1. profileFaults' \in 0..MaxProfileFaults
    BY <1>1, <1>4, ProfileAssumption
  <2> QED
    BY <1>1, <1>2, <1>4, <2>1, AnswerKeeps
<1> QED
  BY <1>3, <1>4 DEF PutObject

LEMMA RecordFileKeeps ==
    ASSUME ProfileInv, NEW h \in ProfileHandlers, RecordFile(h)
    PROVE  ProfileInv'
<1> DEFINE d == profileHandler[h]
<1>1. /\ d \in ProfileRequest /\ ProfileRequestOK(d, objects, Stored) /\ d.pc = "record"
      /\ d.value \in objects
      /\ edits \in 0..MaxEdits /\ profileFaults \in 0..MaxProfileFaults
      /\ objects \subseteq 1..MaxEdits /\ fileRows \subseteq objects
  BY RequestOf DEF RecordFile, ProfileAt, ProfileRequestOK
<1>2. UNCHANGED <<profiles, objects, edits, profileFaults, asked, reverted>>
        /\ fileRows' = fileRows \cup {d.value}
  BY DEF RecordFile
<1>3. CASE d.op = "picture" /\ ProfileGoes(h, "save")
  <2>1. PICK e \in ProfileRequest : /\ profileHandler' = [profileHandler EXCEPT ![h] = e]
                                    /\ e = [d EXCEPT !.pc = "save"]
    BY <1>3, Goes
  <2>2. ProfileRequestOK(e, objects', Stored')
    <3>1. ProfileRequestOK(d, objects', Stored') /\ d.value \in Stored'
      BY <1>1, <1>2, RequestStaysOK DEF Stored
    <3> QED
      BY <1>1, <1>3, <2>1, <3>1 DEF ProfileRequestOK, ProfileRequest
  <2> QED
    BY <1>1, <1>2, <2>1, <2>2, RowsUntouched
<1>4. CASE ProfileAnswers(h)
  BY <1>1, <1>2, <1>4, AnswerKeeps
<1> QED
  BY <1>3, <1>4 DEF RecordFile

\* A request that writes a row and is answered.
LEMMA WritingKeeps ==
    ASSUME ProfileInv, NEW h \in ProfileHandlers, ProfileAnswers(h),
           NEW row \in ProfileRow, NEW base \in ProfileRow,
           WriteRow(profileHandler[h], base, row), GoodRow(row, Stored),
           \A c \in Columns \ Meant(profileHandler[h]) : row[c] = base[c],
           \A v \in Owners \ {profileHandler[h].owner} : profiles[v].hash # row.hash,
           UNCHANGED <<objects, fileRows, edits, profileFaults>>
    PROVE  ProfileInv'
<1>1. /\ profiles' \in [Owners -> ProfileRow] /\ asked' \in [Owners -> ProfileRow]
      /\ reverted' \subseteq Owners \X Columns
      /\ (\A u \in Owners : GoodRow(profiles[u], Stored))'
      /\ \A u, v \in Owners : profiles'[u].hash = profiles'[v].hash => u = v
      /\ EditsStick'
  BY RequestOf, WriteKeeps
<1>2. /\ profileHandler' \in [ProfileHandlers -> ProfileRequest]
      /\ \A g \in ProfileHandlers : ProfileRequestOK(profileHandler'[g], objects', Stored')
  BY IdleProfileOK, HandlersKept DEF ProfileAnswers
<1>3. ProfileTypeOK'
  BY <1>1, <1>2 DEF ProfileInv, ProfileTypeOK
<1> QED
  BY <1>1, <1>2, <1>3 DEF ProfileInv

\* The unique index keeps another user's hash out, also one of an older copy.
LEMMA SaveOwnerKeeps ==
    ASSUME ProfileInv, NEW h \in ProfileHandlers, SaveOwner(h)
    PROVE  ProfileInv'
<1> DEFINE d == profileHandler[h]
           row == Edited(d)
<1>1. /\ d \in ProfileRequest /\ ProfileRequestOK(d, objects, Stored) /\ d.pc = "save"
      /\ d.copy \in ProfileRow
      /\ edits \in 0..MaxEdits /\ profileFaults \in 0..MaxProfileFaults
      /\ fileRows \subseteq objects
  BY RequestOf DEF SaveOwner, ProfileAt, ProfileRequest
<1>2. ProfileAnswers(h) /\ UNCHANGED <<objects, fileRows, edits, profileFaults>>
  BY DEF SaveOwner
<1>3. CASE UNCHANGED <<profiles, asked, reverted>>
  BY <1>1, <1>2, <1>3, AnswerKeeps
<1>4. CASE /\ \A v \in Owners \ {d.owner} : profiles[v].hash # row.hash
           /\ WriteRow(d, d.copy, row)
  <2>1. /\ row \in ProfileRow /\ GoodRow(row, Stored)
        /\ \A c \in Columns \ Meant(d) : row[c] = d.copy[c]
    BY <1>1, EditedRow
  <2> HIDE DEF row
  <2> QED
    BY <1>1, <1>2, <1>4, <2>1, WritingKeeps
<1> QED
  BY <1>3, <1>4 DEF SaveOwner

LEMMA UpdateColumnsKeeps ==
    ASSUME ProfileInv, NEW h \in ProfileHandlers, UpdateColumns(h)
    PROVE  ProfileInv'
<1> DEFINE d == profileHandler[h]
           row == Updated(d)
           now == profiles[d.owner]
<1>1. /\ d \in ProfileRequest /\ d.op \in {"edit", "key"} /\ d.owner \in Owners
      /\ now \in ProfileRow /\ GoodRow(now, Stored)
  BY RequestOf DEF UpdateColumns, ProfileAt, ProfileRequestOK
<1>2. ProfileAnswers(h) /\ UNCHANGED <<objects, fileRows, edits, profileFaults>>
        /\ WriteRow(d, now, row)
  BY DEF UpdateColumns, Updated
<1>3. /\ row \in ProfileRow /\ GoodRow(row, Stored) /\ row.hash = now.hash
      /\ \A c \in Columns \ Meant(d) : row[c] = now[c]
  BY <1>1, UpdatedRow
<1>4. \A v \in Owners \ {d.owner} : profiles[v].hash # row.hash
  BY <1>1, <1>3 DEF ProfileInv
<1> HIDE DEF row, now
<1> QED
  BY <1>1, <1>2, <1>3, <1>4, WritingKeeps

LEMMA FailProfileKeeps ==
    ASSUME ProfileInv, NEW h \in ProfileHandlers, FailProfile(h)
    PROVE  ProfileInv'
<1>1. profileFaults' \in 0..MaxProfileFaults /\ edits' \in 0..MaxEdits
        /\ fileRows' = fileRows /\ fileRows \subseteq objects
  BY RequestOf, ProfileAssumption DEF FailProfile
<1> QED
  BY <1>1, AnswerKeeps DEF FailProfile

-----------------------------------------------------------------------------
LEMMA ProfileInitOK == ProfileInit => ProfileInv
<1> SUFFICES ASSUME ProfileInit PROVE ProfileInv
  OBVIOUS
<1>1. ProfileTypeOK
  BY FirstRowOK, IdleProfileOK, ProfileAssumption DEF ProfileInit, ProfileTypeOK
<1>2. \A u \in Owners : GoodRow(profiles[u], Stored)
  BY FirstRowOK DEF ProfileInit, GoodRow
<1>3. \A u, v \in Owners : profiles[u].hash = profiles[v].hash => u = v
  BY FirstRowOK DEF ProfileInit
<1>4. \A h \in ProfileHandlers : ProfileRequestOK(profileHandler[h], objects, Stored)
  BY IdleProfileOK DEF ProfileInit
<1>5. fileRows \subseteq objects /\ EditsStick
  BY DEF ProfileInit, EditsStick
<1> QED
  BY <1>1, <1>2, <1>3, <1>4, <1>5 DEF ProfileInv

\* The inductive invariant of the users rows and the files: every copy a
\* request may save is as good as a row, a file is stored before it has a row.
THEOREM ProfileInvariance == ProfileSpec => []ProfileInv
<1>1. ProfileInv /\ [ProfileNext]_profileVars => ProfileInv'
  <2> SUFFICES ASSUME ProfileInv, [ProfileNext]_profileVars PROVE ProfileInv'
    OBVIOUS
  <2>1. CASE UNCHANGED profileVars
    BY <2>1 DEF profileVars, ProfileInv, ProfileTypeOK, EditsStick, Stored
  <2>2. ASSUME NEW h \in ProfileHandlers, AnyEdit(h)
        PROVE  ProfileInv'
    <3>1. \E u \in Owners, parts \in SUBSET (Names \cup Parts), address \in Addresses,
            op \in {"picture", "file", "token", "key", "profile", "edit", "email"} :
              ReceiveEdit(h, u, op, parts, address)
      BY <2>2, ProfileAssumption DEF AnyEdit, Addresses
    <3> QED
      BY <3>1, ReceiveEditKeeps
  <2>3. ASSUME NEW h \in ProfileHandlers, CheckAddress(h) \/ FindOwner(h)
        PROVE  ProfileInv'
    BY <2>3, CheckAddressKeeps, FindOwnerKeeps
  <2>4. ASSUME NEW h \in ProfileHandlers, PutObject(h) \/ RecordFile(h)
        PROVE  ProfileInv'
    BY <2>4, PutObjectKeeps, RecordFileKeeps
  <2>5. ASSUME NEW h \in ProfileHandlers, SaveOwner(h) \/ UpdateColumns(h)
        PROVE  ProfileInv'
    BY <2>5, SaveOwnerKeeps, UpdateColumnsKeeps
  <2>6. ASSUME NEW h \in ProfileHandlers, FailProfile(h)
        PROVE  ProfileInv'
    BY <2>6, FailProfileKeeps
  <2> QED
    BY <2>1, <2>2, <2>3, <2>4, <2>5, <2>6 DEF ProfileNext
<1> QED
  BY <1>1, ProfileInitOK, PTL DEF ProfileSpec

\* The rows of users, the files and the requests keep their types.
THEOREM ProfileTypeCorrect == ProfileSpec => []ProfileTypeOK
<1>1. ProfileInv => ProfileTypeOK
  BY DEF ProfileInv
<1> QED
  BY <1>1, ProfileInvariance, PTL

\* emailChangeComplete and the saves of older rows never give two users one
\* address, nor a user the hash of another address.
THEOREM EmailsAreUnique == ProfileSpec => []EmailsAreOwn
<1>1. ProfileInv => EmailsAreOwn
  BY DEF ProfileInv, EmailsAreOwn, GoodRow
<1> QED
  BY <1>1, ProfileInvariance, PTL

\* A file with a row and a picture a users row shows can be retrieved, whatever
\* uploadFile and the requests around it failed at.
THEOREM FilesAreThere == ProfileSpec => []FilesAreRetrievable
<1>1. ProfileInv => FilesAreRetrievable
  BY DEF ProfileInv, FilesAreRetrievable, GoodRow, Stored, Retrievable
<1> QED
  BY <1>1, ProfileInvariance, PTL

\* Only a whole-row save of a copy read before can undo what a request wrote.
THEOREM EditsAreKept == ProfileSpec => []EditsStick
<1>1. ProfileInv => EditsStick
  BY DEF ProfileInv
<1> QED
  BY <1>1, ProfileInvariance, PTL
=============================================================================
