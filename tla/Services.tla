------------------------------ MODULE Services ------------------------------
(***************************************************************************)
(* The parts of the server that share no state, one beside the other: in a *)
(* behaviour one of them runs and the others keep their initial state, so  *)
(* one run of TLC explores each of them for itself.                        *)
(***************************************************************************)
EXTENDS NgnDeposits, Onboarding, Inbox, RateLimit, Statements, Geography,
        Profile

VARIABLE service    \* the part that runs

serviceVars == <<service, depositVars, onboardingVars, inboxVars, limitVars,
                 statementVars, placeVars, profileVars>>

ServicesInit ==
    /\ service \in {"deposits", "onboarding", "inbox", "limit", "statements",
                   "places", "profile"}
    /\ DepositInit /\ OnboardingInit /\ InboxInit
    /\ LimitInit /\ StatementInit /\ PlaceInit /\ ProfileInit
    /\ service # "places" => province = "ON"

RunDeposits ==
    /\ service = "deposits" /\ DepositNext
    /\ UNCHANGED <<service, onboardingVars, inboxVars, limitVars, statementVars, placeVars,
                   profileVars>>
RunOnboarding ==
    /\ service = "onboarding" /\ OnboardingNext
    /\ UNCHANGED <<service, depositVars, inboxVars, limitVars, statementVars, placeVars,
                   profileVars>>
RunInbox ==
    /\ service = "inbox" /\ InboxNext
    /\ UNCHANGED <<service, depositVars, onboardingVars, limitVars, statementVars, placeVars,
                   profileVars>>
RunLimit ==
    /\ service = "limit" /\ LimitNext
    /\ UNCHANGED <<service, depositVars, onboardingVars, inboxVars, statementVars, placeVars,
                   profileVars>>
RunStatements ==
    /\ service = "statements" /\ StatementNext
    /\ UNCHANGED <<service, depositVars, onboardingVars, inboxVars, limitVars, placeVars,
                   profileVars>>
RunPlaces ==
    /\ service = "places" /\ PlaceNext
    /\ UNCHANGED <<service, depositVars, onboardingVars, inboxVars, limitVars, statementVars,
                   profileVars>>
RunProfile ==
    /\ service = "profile" /\ ProfileNext
    /\ UNCHANGED <<service, depositVars, onboardingVars, inboxVars, limitVars, statementVars,
                   placeVars>>

ServicesNext ==
    \/ RunDeposits \/ RunOnboarding \/ RunInbox
    \/ RunLimit \/ RunStatements \/ RunPlaces \/ RunProfile

\* The passing of time, for the part that has a liveness property.
TickLimit ==
    /\ service = "limit" /\ LimitTick
    /\ UNCHANGED <<service, depositVars, onboardingVars, inboxVars, statementVars, placeVars,
                   profileVars>>
ServicesFairness == WF_serviceVars(TickLimit)

ServicesSpec ==
    ServicesInit /\ [][ServicesNext]_serviceVars /\ ServicesFairness

\* The type invariants of all parts.
ServicesTypeOK ==
    /\ DepositTypeOK /\ OnboardingTypeOK /\ InboxTypeOK
    /\ LimitTypeOK /\ StatementTypeOK /\ PlaceTypeOK /\ ProfileTypeOK
=============================================================================
