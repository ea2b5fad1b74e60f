---------------------------- MODULE Provisioning ----------------------------
(***************************************************************************)
(* How an administrator makes accounts: the endpoints provision-farmer,    *)
(* provision-buyer and resend-invitation with their cores                  *)
(* (serverFarmerProvisioning, serverBuyerProvisioning,                     *)
(* serverInvitationResend), and the browser services that call them.       *)
(*                                                                         *)
(* Admin-Auth and the tables share no transaction: a call is a row of      *)
(* steps, any of which can fail, and after any of which the serverless     *)
(* function may be cut off or its answer lost.                             *)
(***************************************************************************)
EXTENDS Naturals, FiniteSets

CONSTANTS Calls,    \* clicks of an administrator, one id each
          People,   \* e-mail addresses
          Orgs      \* ids of buyer organisations
NoOrg == "no organisation"

VARIABLES account,  \* Admin-Auth: what is known of an address
          role,     \* profiles.role of the account
          orgs,     \* organisations of type buyer
          members,  \* organisation_memberships
          call,     \* what each call is doing
          draft     \* the organisation the buyer form is set to
provVars == <<account, role, orgs, members, call, draft>>

Accounts == {"none", "unconfirmed", "confirmed"}
Roles == {"none", "pending", "farmer", "buyer"}
Kinds == {"farmer", "buyer", "resend"}
Steps2 == {"idle", "organisation", "invite", "promote", "membership",
           "lookup", "reissue", "answered", "received"}
Reasons == {"", "ok", "user_already_exists", "invite_failed", "promotion_required",
            "organisation_not_found", "organisation_failed", "membership_required",
            "no_such_account", "already_active", "reissue_failed", "link", "refused"}

Idle == [kind |-> "farmer", step |-> "idle", email |-> "", org |-> NoOrg,
         reason |-> "", asked |-> NoOrg, lost |-> FALSE]

\* A call the page still waits for: its button is disabled.
Awaited(c) == call[c].step \notin {"idle", "received"} /\ ~call[c].lost

ProvInit ==
    /\ account = [p \in People |-> "none"]
    /\ role = [p \in People |-> "none"]
    /\ orgs = {}
    /\ members = {}
    /\ call = [c \in Calls |-> Idle]
    /\ draft = NoOrg

\* The buyer form is disabled while its call is awaited.
BuyerFormFree == ~\E d \in Calls : call[d].kind = "buyer" /\ Awaited(d)

GoTo(c, s) == call' = [call EXCEPT ![c].step = s]
Reply(c, r) == call' = [call EXCEPT ![c].step = "answered", ![c].reason = r]
At(c, k, s) == call[c].kind \in k /\ call[c].step = s

\* The services post what the page holds with the administrator's token.
inviteFarmer(c, p) ==
    /\ call[c].step = "idle"
    /\ call' = [call EXCEPT ![c] = [Idle EXCEPT !.kind = "farmer", !.step = "invite", !.email = p]]
    /\ UNCHANGED <<account, role, orgs, members, draft>>

inviteBuyer(c, p) ==
    /\ call[c].step = "idle"
    /\ BuyerFormFree
    /\ call' = [call EXCEPT ![c] = [Idle EXCEPT !.kind = "buyer", !.step = "organisation",
                                                !.email = p, !.asked = draft]]
    /\ UNCHANGED <<account, role, orgs, members, draft>>

resendInvitation(c, p) ==
    /\ call[c].step = "idle"
    /\ call' = [call EXCEPT ![c] = [Idle EXCEPT !.kind = "resend", !.step = "lookup", !.email = p]]
    /\ UNCHANGED <<account, role, orgs, members, draft>>

\* No administrator, or a malformed request: refused before anything is done.
FirstStep == [farmer |-> "invite", buyer |-> "organisation", resend |-> "lookup"]
RefuseCaller(c) ==
    /\ call[c].step = FirstStep[call[c].kind]
    /\ Reply(c, "refused")
    /\ UNCHANGED <<account, role, orgs, members, draft>>

\* Step 4 of a buyer: the organisation named, or a new one.
resolveOrCreateOrganisation(c) ==
    /\ At(c, {"buyer"}, "organisation")
    /\ \/ /\ call[c].asked \in orgs
          /\ call' = [call EXCEPT ![c].step = "invite", ![c].org = call[c].asked]
          /\ UNCHANGED orgs
       \/ /\ call[c].asked \notin orgs \cup {NoOrg}
          /\ Reply(c, "organisation_not_found")
          /\ UNCHANGED orgs
       \/ /\ call[c].asked = NoOrg
          /\ \E o \in Orgs \ orgs :
                /\ orgs' = orgs \cup {o}
                /\ call' = [call EXCEPT ![c].step = "invite", ![c].org = o]
       \/ /\ Reply(c, "organisation_failed")
          /\ UNCHANGED orgs
    /\ UNCHANGED <<account, role, members, draft>>

\* The trigger of auth.users makes the profile 'pending'. An address that never
\* confirmed may be mailed again or be refused as known; a confirmed one is
\* refused.
inviteUserByEmail(p) ==
    \/ /\ account[p] = "none"
       /\ account' = [account EXCEPT ![p] = "unconfirmed"]
       /\ role' = [role EXCEPT ![p] = "pending"]
    \/ /\ account[p] = "unconfirmed"
       /\ UNCHANGED <<account, role>>

\* Mutant: an account that exists is taken for one that is a buyer.
Invite_TrustsExisting(c) ==
    /\ At(c, {"farmer", "buyer"}, "invite")
    /\ LET p == call[c].email IN
       \/ inviteUserByEmail(p) /\ GoTo(c, "promote")
       \/ /\ account[p] # "none"
          /\ IF call[c].kind = "buyer" THEN GoTo(c, "membership") ELSE Reply(c, "user_already_exists")
          /\ UNCHANGED <<account, role>>
    /\ UNCHANGED <<orgs, members, draft>>

Invite(c) ==
    /\ At(c, {"farmer", "buyer"}, "invite")
    /\ LET p == call[c].email IN
       \/ inviteUserByEmail(p) /\ GoTo(c, "promote")
       \/ /\ account[p] # "none"
          /\ Reply(c, "user_already_exists")
          /\ UNCHANGED <<account, role>>
       \/ /\ Reply(c, "invite_failed")
          /\ UNCHANGED <<account, role>>
    /\ UNCHANGED <<orgs, members, draft>>

\* UPDATE profiles ... WHERE id = ... AND role = 'pending', rows counted.
promoteProfile(p, r) ==
    /\ role[p] = "pending"
    /\ role' = [role EXCEPT ![p] = r]

\* Mutant: the rows updated are not counted.
Promote_IgnoresRowCount(c) ==
    /\ At(c, {"farmer", "buyer"}, "promote")
    /\ promoteProfile(call[c].email, call[c].kind) \/ UNCHANGED role
    /\ IF call[c].kind = "farmer" THEN Reply(c, "ok") ELSE GoTo(c, "membership")
    /\ UNCHANGED <<account, orgs, members, draft>>

Promote(c) ==
    /\ At(c, {"farmer", "buyer"}, "promote")
    /\ \/ /\ promoteProfile(call[c].email, call[c].kind)
          /\ IF call[c].kind = "farmer" THEN Reply(c, "ok") ELSE GoTo(c, "membership")
       \/ /\ Reply(c, "promotion_required")
          /\ UNCHANGED role
    /\ UNCHANGED <<account, orgs, members, draft>>

\* The last step, the one that grants sight of anything.
recordMembership(c) ==
    /\ At(c, {"buyer"}, "membership")
    /\ \/ /\ members' = members \cup {<<call[c].org, call[c].email>>}
          /\ Reply(c, "ok")
       \/ /\ Reply(c, "membership_required")
          /\ UNCHANGED members
    /\ UNCHANGED <<account, role, orgs, draft>>

\* findAccountByEmail: nothing is issued before the account is looked up.
LookUp(c) ==
    /\ At(c, {"resend"}, "lookup")
    /\ \/ account[call[c].email] = "unconfirmed" /\ GoTo(c, "reissue")
       \/ account[call[c].email] = "confirmed" /\ Reply(c, "already_active")
       \/ Reply(c, "no_such_account")
    /\ UNCHANGED <<account, role, orgs, members, draft>>

\* By mail if the provider will, else a one-time link for an address that is
\* still unconfirmed, else an error.
reissueInvitation(c) ==
    /\ At(c, {"resend"}, "reissue")
    /\ \/ account[call[c].email] = "unconfirmed" /\ Reply(c, "ok")
       \/ account[call[c].email] = "unconfirmed" /\ Reply(c, "link")
       \/ Reply(c, "reissue_failed")
    /\ UNCHANGED <<account, role, orgs, members, draft>>

\* The browser loses the connection: it sees a network error while the server
\* goes on with the call. Or the function itself is cut off.
LoseConnection(c) ==
    /\ Awaited(c)
    /\ call' = [call EXCEPT ![c].lost = TRUE]
    /\ UNCHANGED <<account, role, orgs, members, draft>>

CutOff(c) ==
    /\ call[c].step \notin {"idle", "answered", "received"}
    /\ call' = [call EXCEPT ![c].step = "received", ![c].lost = TRUE]
    /\ UNCHANGED <<account, role, orgs, members, draft>>

\* The answer reaches the page. The buyer form moves to the organisation it
\* names, so that a retry adds to it.
ReceiveAnswer(c) ==
    /\ call[c].step = "answered"
    /\ GoTo(c, "received")
    /\ draft' = IF ~call[c].lost /\ call[c].kind = "buyer" /\ call[c].org # NoOrg THEN call[c].org ELSE draft
    /\ UNCHANGED <<account, role, orgs, members>>

\* The administrator picks an organisation of the list the page reloads.
loadBuyerOrganisations == orgs
PickOrganisation(o) ==
    /\ o \in loadBuyerOrganisations
    /\ draft' = o
    /\ UNCHANGED <<account, role, orgs, members, call>>

\* provisionFarmer: an administrator approves an account of the pending list.
listPendingProfiles == {p \in People : role[p] = "pending"}
provisionFarmer(p) ==
    /\ p \in listPendingProfiles
    /\ role' = [role EXCEPT ![p] = "farmer"]
    /\ UNCHANGED <<account, orgs, members, call, draft>>

\* Outside DDP: somebody registers, or follows the link and sets a password.
Register(p) ==
    /\ account[p] = "none"
    /\ account' = [account EXCEPT ![p] = "unconfirmed"]
    /\ role' = [role EXCEPT ![p] = "pending"]
    /\ UNCHANGED <<orgs, members, call, draft>>

ConfirmAccount(p) ==
    /\ account[p] = "unconfirmed"
    /\ account' = [account EXCEPT ![p] = "confirmed"]
    /\ UNCHANGED <<role, orgs, members, call, draft>>

handleProvisionFarmer(c) == call[c].kind = "farmer" /\ (RefuseCaller(c) \/ Invite(c) \/ Promote(c))
handleProvisionBuyer(c) ==
    /\ call[c].kind = "buyer"
    /\ RefuseCaller(c) \/ resolveOrCreateOrganisation(c) \/ Invite(c) \/ Promote(c) \/ recordMembership(c)
handleResendInvitation(c) ==
    call[c].kind = "resend" /\ (RefuseCaller(c) \/ LookUp(c) \/ reissueInvitation(c))

Serve(c) == handleProvisionFarmer(c) \/ handleProvisionBuyer(c) \/ handleResendInvitation(c)

----------------------------------------------------------------------------
CallRow == [kind : Kinds, step : Steps2, email : People \cup {""},
            org : Orgs \cup {NoOrg}, asked : Orgs \cup {NoOrg},
            reason : Reasons, lost : BOOLEAN]

\* Each account, row and call is one of those the code knows.
ProvTypeOK ==
    /\ account \in [People -> Accounts] /\ role \in [People -> Roles]
    /\ orgs \subseteq Orgs /\ members \subseteq Orgs \X People
    /\ draft \in Orgs \cup {NoOrg}
    /\ call \in [Calls -> CallRow]

\* What an answer says was done is done, whatever other calls and approvals did
\* in between: a 200 is an operational account (with its membership), a
\* missing membership belongs to a real buyer, a missing promotion to a real
\* account, and an organisation that is named exists
\* (serverBuyerProvisioning:46-47, 228-283; serverFarmerProvisioning:128-155).
AnswerIsTrue ==
    \A c \in Calls : call[c].step \in {"answered", "received"} =>
        /\ call[c].org # NoOrg => call[c].org \in orgs
        /\ call[c].reason = "ok" /\ call[c].kind = "farmer" => role[call[c].email] = "farmer"
        /\ call[c].reason = "ok" /\ call[c].kind = "buyer" =>
              role[call[c].email] = "buyer" /\ <<call[c].org, call[c].email>> \in members
        /\ call[c].reason = "membership_required" => role[call[c].email] = "buyer"
        /\ call[c].reason \in {"promotion_required", "user_already_exists"} =>
              account[call[c].email] # "none"

\* Only a buyer is a member of a buyer organisation: no order of the calls, and
\* no call cut off, leaves somebody sight of it without the role
\* (serverBuyerProvisioning:42-44).
MembersAreBuyers == \A m \in members : role[m[2]] = "buyer"

=============================================================================
