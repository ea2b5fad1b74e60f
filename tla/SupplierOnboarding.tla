------------------------- MODULE SupplierOnboarding -------------------------
(***************************************************************************)
(* The supplier enquiries page (DDPAccessRequests) between the queue that  *)
(* SupplierIntake fills and the accounts Provisioning makes: an enquiry    *)
(* becomes "invited" by making an account and by nothing else.             *)
(***************************************************************************)
EXTENDS SupplierIntake, Provisioning

CONSTANT Triage  \* bound: the statuses the triage buttons are tried with
ASSUME TriageAssumption == Triage \subseteq {"contacted", "declined", "duplicate"}

\* An account is made for the address an enquiry gives.
ASSUME AddressAssumption == Emails \subseteq People

VARIABLES rows,     \* the rows the page has loaded
          busy,     \* busyId: the row whose buttons are disabled
          pageCall  \* the row a call was made for
pageVars == <<rows, busy, pageCall>>
onboardVars == <<intakeVars, provVars, pageVars>>

NoRow == "no row"

\* loadAccessRequests under runGuardedLoad: the page holds a copy, and drops it
\* when the queue cannot be read.
loadAccessRequests == requests
Load ==
    /\ rows' \in {loadAccessRequests, {}}
    /\ UNCHANGED <<intakeVars, provVars, busy, pageCall>>

\* The buttons of a row of the copy.
Offered(r) == r \in rows /\ busy # r.id

\* "Invite & create account". One row is busy at a time; a click on another row
\* frees the first.
ClickInvite(c, r) ==
    /\ Offered(r) /\ r.status # "invited"
    /\ inviteFarmer(c, r.email)
    /\ busy' = r.id
    /\ pageCall' = [pageCall EXCEPT ![c] = r.id]
    /\ UNCHANGED <<intakeVars, rows>>

ClickResend(c, r) ==
    /\ Offered(r) /\ r.status = "invited"
    /\ resendInvitation(c, r.email)
    /\ busy' = r.id
    /\ pageCall' = [pageCall EXCEPT ![c] = r.id]
    /\ UNCHANGED <<intakeVars, rows>>

\* "Onboard a buyer" is a page of its own.
SubmitBuyer(c, p) == inviteBuyer(c, p) /\ UNCHANGED <<intakeVars, pageVars>>

\* resolveProvisionDecision: which answers are known to leave an account.
resolveProvisionDecision(c) ==
    call[c].kind = "farmer" /\ ~call[c].lost /\ call[c].reason \in {"ok", "user_already_exists"}

setAccessRequestStatus(id, s) ==
    requests' = {IF r.id = id THEN [r EXCEPT !.status = s] ELSE r : r \in requests}

\* The answer is back: the row is marked or not, and whatever row is busy is
\* freed. The update of the status may be refused.
FinishInvite(c) ==
    /\ ReceiveAnswer(c)
    /\ \/ resolveProvisionDecision(c) /\ setAccessRequestStatus(pageCall[c], "invited")
       \/ UNCHANGED requests
    /\ busy' = IF pageCall[c] = NoRow THEN busy ELSE NoRow
    /\ UNCHANGED <<now, visit, attempts, rows, pageCall>>

\* A triage button of the page, on its copy of the row.
ClickDisposition(r, s) ==
    /\ Offered(r)
    /\ s \in Triage \ {r.status}
    /\ setAccessRequestStatus(r.id, s)
    /\ UNCHANGED <<now, visit, attempts, provVars, pageVars>>

Visitor(v) ==
    /\ \/ \E e \in Emails, a \in Addresses, f \in Forms : Submit(v, e, a, f)
       \/ Handle(v) \/ Receive(v)
    /\ UNCHANGED <<provVars, pageVars>>

Server(c) ==
    /\ Serve(c) \/ LoseConnection(c) \/ CutOff(c)
    /\ UNCHANGED <<intakeVars, pageVars>>

World ==
    /\ \/ \E p \in People : provisionFarmer(p) \/ Register(p) \/ ConfirmAccount(p)
       \/ \E o \in Orgs : PickOrganisation(o)
    /\ UNCHANGED <<intakeVars, pageVars>>

OnboardStep ==
    \/ \E v \in Visits : Visitor(v)
    \/ Tick /\ UNCHANGED <<provVars, pageVars>>
    \/ Load
    \/ \E c \in Calls, r \in rows : ClickInvite(c, r) \/ ClickResend(c, r)
    \/ \E c \in Calls, p \in People : SubmitBuyer(c, p)
    \/ \E c \in Calls : Server(c) \/ FinishInvite(c)
    \/ \E r \in rows, s \in Triage : ClickDisposition(r, s)
    \/ World


\* Nothing on record, nothing loaded.
OnboardInit ==
    /\ IntakeInit /\ ProvInit
    /\ rows = {} /\ busy = NoRow /\ pageCall = [c \in Calls |-> NoRow]

OnboardSpec == OnboardInit /\ [][OnboardStep]_onboardVars
=============================================================================
