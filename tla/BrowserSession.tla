--------------------------- MODULE BrowserSession ---------------------------
(***************************************************************************)
(* One tab of the console: App.tsx around the account service's session.   *)
(*                                                                         *)
(* The session is storage that every tab of the browser shares and that    *)
(* this tab learns of by events. An event is answered by a query for the   *)
(* profile, which takes time; so do a sign-in, a sign-out, the loads a     *)
(* profile starts and a form being saved. Everything that was started      *)
(* while one person was signed in may end while another is.                *)
(*                                                                         *)
(* React's render and effects follow a state change before anything else   *)
(* does, so one action is a handler together with the effects it sets off. *)
(* A reload is a fresh Init.                                               *)
(***************************************************************************)
EXTENDS PageGuard, Naturals

CONSTANTS Events,      \* bound: the events about a session this tab is sent
          OtherTabs,   \* bound: the times another tab changes the session
          MaxPolls,    \* the set-password screen looks this often for the session
          Visited      \* bound: the pages and addresses a person asks for

VARIABLES session,   \* the stored session, shared by all tabs
          boot,      \* the token still to be exchanged on a load, or how far the load is
          foreign,   \* how often another tab has changed the session
          event,     \* the profile queries the events have started
          profile, authLoading, page, routed, scopeKey, held,
          link,      \* the captured set-password link: whom it names
          login,     \* handleLoginSuccess under way
          leaving,   \* signOut under way
          data,      \* the shared arrays: whose rows each of them holds
          scope,     \* farmerScope: whose ids it holds
          available, \* adminDataAvailability
          load, reqLoad, \* the loads the profile has started
          setpw,     \* the set-password screen
          saving,    \* handleFarmSubmit under way: whose form it is
          crossed    \* history: whose rows an answer put among another's, or left there

world == <<session, boot, foreign, event>>
where == <<page, setpw, held, link>>
who   == <<profile, authLoading, routed, scopeKey, load, reqLoad, available>>
rows  == <<data, scope, crossed>>
calls == <<login, leaving, saving>>
sessionVars == <<world, where, who, rows, calls>>

NoScope == {"no scope"}
NoLink == "no link"
DeadLink == "dead link"
ASSUME SessionAssumption ==
    /\ OtherTabs \in Nat /\ MaxPolls \in Nat \ {0} /\ Visited \subseteq Pages \cup {"/"}
    /\ Users \cap ({NoLink, DeadLink, "initial", "done"} \cup NoScope) = {}
Farmers == {u \in Users : Role[u] = "farmer"}
role == RoleOf(profile)
NoData == [farms |-> {}, inventory |-> {}, requests |-> {}]
Over == [user |-> Nobody, step |-> "over"]
Unused == [user |-> Nobody, step |-> "unused"]
NoForm == [phase |-> "off", polls |-> 0, subject |-> Nobody, set |-> Nobody]

\* A set-password link opens its own screen, whatever the path says; one that
\* names nobody is dead on arrival.
Opened(path, l) ==
    LET cold == decideColdLoad(path) IN
    /\ link = l
    /\ boot = IF l \in Users THEN l ELSE "initial"
    /\ page = IF l = NoLink THEN cold.page ELSE "set-password"
    /\ held = IF l = NoLink THEN cold.held ELSE NoPage
    /\ setpw = CASE l = NoLink -> NoForm
                 [] l = DeadLink -> [NoForm EXCEPT !.phase = "unavailable"]
                 [] OTHER -> [NoForm EXCEPT !.phase = "checking", !.subject = l]

\* The app's own state on a load, with some of the bounds already used up.
AppInit(used) ==
    /\ foreign = used[1] /\ event = [e \in Events |-> IF e \in used[2] THEN Over ELSE Unused]
    /\ profile = Nobody /\ authLoading = TRUE /\ routed = FALSE /\ scopeKey = Nobody
    /\ data = NoData /\ scope = NoScope /\ available = {} /\ load = Nobody /\ reqLoad = Nobody
    /\ saving = Nobody /\ crossed = {}
    /\ login = "no" /\ leaving = "no"

Init ==
    /\ session \in Users \cup {Nobody}
    /\ \E path \in Visited, l \in Users \cup {DeadLink, NoLink} : Opened(path, l)
    /\ AppInit(<<0, {}>>)

----------------------------------------------------------------------------
\* Effects.

\* The arrays are for whoever an event last named (scopeKey): an answer for
\* anybody else puts rows among another's, or somebody in front of another's.
Mixed(owners, u, also) ==
    crossed' = IF scopeKey = u /\ also THEN crossed ELSE crossed \cup owners

\* [currentProfile]: the loads of the last profile are given up and those of
\* the new one start.
ProfileEffects(p) ==
    /\ load' = IF RoleOf(p) \in {"farmer", "ddp_admin"} THEN p ELSE Nobody
    /\ reqLoad' = IF RoleOf(p) = "ddp_admin" THEN p ELSE Nobody

\* Mutant: a load that starts leaves the rows before it available.
Fresh_Kept(p) == available

\* adminDataFetchProfile: rows count as unavailable from the render in which
\* their load starts until it settles.
Fresh(p) == IF RoleOf(p) = "ddp_admin" THEN {} ELSE available

setCurrentProfile(p) ==
    /\ profile' = p /\ ProfileEffects(p)
    /\ available' = Fresh(p)

\* Leaving the set-password screen unmounts it; a password being saved is not
\* recalled.
setPage(p) ==
    /\ page' = p
    /\ setpw' = IF p = "set-password" \/ setpw.phase = "saving" THEN setpw ELSE NoForm

----------------------------------------------------------------------------
\* What the account service tells this tab.

\* Mutant: the key is the role without the user.
Wipe_RoleOnly(p) ==
    /\ scopeKey' = p
    /\ data' = IF RoleOf(scopeKey) # RoleOf(p) THEN NoData ELSE data
    /\ scope' = IF RoleOf(p) = "farmer" THEN scope ELSE NoScope
    /\ crossed' = IF RoleOf(scopeKey) # RoleOf(p) THEN {} ELSE crossed

\* The arrays are dropped when {user, role} changes, and farmerScope whenever
\* the profile is no farmer's.
Wipe(p) ==
    /\ scopeKey' = p
    /\ data' = IF scopeKey # p THEN NoData ELSE data
    /\ scope' = IF RoleOf(p) = "farmer" THEN scope ELSE NoScope
    /\ crossed' = IF scopeKey # p THEN {} ELSE crossed

\* The subscriber in App.tsx, with the profile of an event or with none.
AuthCallback(p) ==
    LET action == resolveAuthResolutionAction(routed, RoleOf(p), link # NoLink)
        kept == IF action.kind = "revoke-session" THEN Nobody ELSE p
    IN /\ authLoading' = FALSE /\ routed' = TRUE
       /\ profile' = kept
       /\ ProfileEffects(kept)
       /\ available' = IF scopeKey # p THEN {} ELSE Fresh(kept)
       /\ Wipe(p)
       /\ IF action.kind = "route"
          THEN setPage(consumeDeepLinkIntent(held, RoleOf(p), action.page)) /\ held' = NoPage
          ELSE UNCHANGED <<page, setpw, held>>
       /\ leaving' = IF action.kind = "revoke-session" THEN "bootstrap" ELSE leaving
       /\ UNCHANGED <<link, login, saving>>

\* An event without a session is answered at once; one with a session starts a
\* query for the profile.
NextEvent == CHOOSE e \in Events : event[e] = Unused
StartLookup(u) ==
    /\ \E e \in Events : event[e] = Unused
    /\ event' = [event EXCEPT ![NextEvent] = [user |-> u, step |-> "asked"]]
SetSession(u) == session' = u
Notify(u) ==
    IF u = Nobody
    THEN AuthCallback(Nobody) /\ UNCHANGED event
    ELSE StartLookup(u) /\ UNCHANGED <<where, who, rows, login, leaving, saving>>

\* The token in the link is exchanged for a session, or is refused.
Exchange ==
    /\ boot \in Users /\ boot' = "initial"
    /\ \/ SetSession(boot) /\ Notify(boot)
       \/ UNCHANGED <<session, event, where, who, rows, calls>>
    /\ UNCHANGED foreign

InitialSession ==
    /\ boot = "initial" /\ boot' = "done"
    /\ Notify(session)
    /\ UNCHANGED <<session, foreign>>

TokenRefreshed ==
    /\ boot = "done" /\ session # Nobody /\ Notify(session)
    /\ UNCHANGED <<session, boot, foreign>>

OtherTab(u) ==
    /\ foreign < OtherTabs /\ foreign' = foreign + 1
    /\ u # session /\ SetSession(u) /\ Notify(u)
    /\ UNCHANGED boot

\* The query, or the one that follows it after a time-out, is answered for the
\* session of the moment.
attemptProfileLookup(e) ==
    /\ event[e].step = "asked" /\ session = event[e].user
    /\ event' = [event EXCEPT ![e].step = "found"]
    /\ UNCHANGED <<session, boot, foreign, where, who, rows, calls>>

DeliverProfile(e) ==
    /\ event[e].step = "found"
    /\ event' = [event EXCEPT ![e] = Over]
    /\ AuthCallback(event[e].user)
    /\ UNCHANGED <<session, boot, foreign>>
\* Both were refused or hung: the person counts as signed out.
LookupFails(e) ==
    /\ event[e].step = "asked"
    /\ event' = [event EXCEPT ![e] = Over]
    /\ AuthCallback(Nobody)
    /\ UNCHANGED <<session, boot, foreign>>

\* startAuthBootstrapGuard: nobody waits for the first answer for ever, and the
\* answer still counts when it comes.
WaitOver == authLoading /\ authLoading' = FALSE
BootTimeout ==
    /\ WaitOver
    /\ UNCHANGED <<world, where, profile, routed, scopeKey, load, reqLoad, available, rows, calls>>

----------------------------------------------------------------------------
\* Signing in and out.
Shown(p) == page = p /\ ~authLoading

\* The sign-in returns when the tab has dealt with the event it causes.
SignIn(u) ==
    /\ Shown("login") /\ login = "no"
    /\ SetSession(u) /\ StartLookup(u) /\ login' = NextEvent
    /\ UNCHANGED <<boot, foreign, where, who, rows, leaving, saving>>
SignedIn == \/ login = "password saved"
            \/ login \in Events /\ event[login] = Over

\* The profile is that of the session of the moment it is answered, or none.
\* The arrays and the scope stay as they are: only an event drops them.
handleLoginSuccess ==
    /\ SignedIn /\ login' = "no"
    /\ \E u \in {session, Nobody} :
          LET home == resolvePostLoginDecision(RoleOf(u)) IN
          \/ /\ home = "denied" /\ leaving = "no" /\ leaving' = "denied"
             /\ UNCHANGED <<where, who, crossed>>
          \/ /\ home # "denied"
             /\ setCurrentProfile(u) /\ setPage(home)
             /\ Mixed(IF scopeKey \in Farmers THEN UNION {data[a] : a \in DOMAIN data} ELSE {}, u, TRUE)
             /\ UNCHANGED <<held, link, authLoading, routed, scopeKey, leaving>>
    /\ UNCHANGED <<world, data, scope, saving>>

ClickSignOut ==
    /\ profile # Nobody /\ ~authLoading /\ page \notin PUBLIC_PAGES
    /\ leaving = "no" /\ leaving' = "button"
    /\ UNCHANGED <<world, where, who, rows, login, saving>>

\* supabase.auth.signOut ends the session and tells this tab before it returns;
\* or it fails, and the session stays. The caller goes on in both cases: the
\* button shows the landing page, a sign-in that was denied the login page, the
\* revocation of a restored session nothing.
signOut ==
    /\ leaving # "no" /\ leaving' = "no"
    /\ \/ /\ SetSession(Nobody) /\ Wipe(Nobody)
          /\ available' = IF scopeKey # Nobody THEN {} ELSE available
          /\ authLoading' = FALSE /\ routed' = TRUE
       \/ UNCHANGED <<session, scopeKey, available, authLoading, routed, rows>>
    /\ profile' = Nobody /\ ProfileEffects(Nobody)
    /\ CASE leaving = "button" -> setPage("landing")
         [] leaving = "denied" -> setPage("login")
         [] OTHER -> UNCHANGED <<page, setpw>>
    /\ UNCHANGED <<boot, foreign, event, held, link, login, saving>>

----------------------------------------------------------------------------
\* Moving about.

Turn(p) ==
    /\ setPage(p)
    /\ UNCHANGED <<world, held, who, rows, calls>>

goTo(p) ==
    /\ ~authLoading /\ p \in LinksOn(page, role)
    /\ Turn(resolveNavigationTarget(p, role))
    /\ link' = IF page = "set-password" THEN NoLink ELSE link

\* Mutant: the guard sees the role of the page's first render.
handlePopState_StaleContext(path) ==
    /\ Turn(IF getInitialPageFromPath(path) = NoPage THEN "landing" ELSE path)
    /\ UNCHANGED link

\* Back and forward go through the same guard, with the role of the moment.
handlePopState(path) ==
    LET mapped == getInitialPageFromPath(path) IN
    /\ Turn(IF mapped = NoPage THEN "landing" ELSE resolveNavigationTarget(mapped, role))
    /\ UNCHANGED link

----------------------------------------------------------------------------
\* What is on the farmer's pages.

\* farmerFarms, farmerInventory, farmerReviewRequests: narrowed to the scope for
\* a farmer, and for nobody else.
View(owners) == IF role # "farmer" THEN owners ELSE IF scope = NoScope THEN {} ELSE owners \cap scope
OnScreen ==
    IF authLoading \/ page \notin FarmerOnlyPages THEN {}
    ELSE UNION {View(data[a]) : a \in DOMAIN data}

----------------------------------------------------------------------------
\* The loads. The database answers for the session of the moment, whoever the
\* tab thinks is signed in.

\* An administrator may read every farmer's rows, a farmer his own. The queries of a
\* farmer's load are not told apart from empty ones when they fail.
Readable == IF RoleOf(session) = "ddp_admin" THEN Farmers ELSE {session} \cap Farmers
getFarmerScope(p) == {{}, {p} \cap Readable}
loadFarmerFarmsFromDB(ids) == {{}, ids \cap Readable}
loadFarmerInventoryFromDB(ids) == {{}, ids \cap Readable}
loadReviewRequestsFromDB(ids) == {{}, ids \cap Readable}

\* What is there already is kept beside the new rows, but for the requests.
FarmerLoad ==
    /\ load \in Farmers
    /\ \E ids \in getFarmerScope(load) :
           /\ scope' = ids
           /\ \E f \in loadFarmerFarmsFromDB(ids), i \in loadFarmerInventoryFromDB(ids),
                  r \in loadReviewRequestsFromDB(ids) :
                  data' = [farms |-> data.farms \cup f, inventory |-> data.inventory \cup i, requests |-> r]
    /\ Mixed({load}, load, TRUE)
    /\ load' = Nobody
    /\ UNCHANGED <<world, where, profile, authLoading, routed, scopeKey, reqLoad, available, calls>>

\* A load of everything throws when it fails.
loadFarmsFromDB == Readable
loadInventoryFromDB == Readable
loadAllReviewRequestsFromDB == Readable
resolveAdminDataApply(ok) ==
    data' = [data EXCEPT !.farms = IF "farms" \in ok THEN loadFarmsFromDB ELSE {},
                         !.inventory = IF "inventory" \in ok THEN loadInventoryFromDB ELSE {}]
AdminLoad ==
    /\ RoleOf(load) = "ddp_admin"
    /\ \E ok \in SUBSET {"farms", "inventory"} :
          /\ resolveAdminDataApply(ok)
          /\ available' = ok
    /\ Mixed(Readable, load, session = load)
    /\ load' = Nobody
    /\ UNCHANGED <<world, where, profile, authLoading, routed, scopeKey, reqLoad, scope, calls>>

RequestsLoad ==
    /\ reqLoad # Nobody /\ reqLoad' = Nobody
    /\ \/ /\ data' = [data EXCEPT !.requests = loadAllReviewRequestsFromDB]
          /\ Mixed(Readable, reqLoad, session = reqLoad)
       \/ UNCHANGED <<data, crossed>>
    /\ UNCHANGED <<world, where, profile, authLoading, routed, scopeKey, load, available, scope, calls>>

----------------------------------------------------------------------------
\* The two forms whose answer can come to somebody else.

\* The database takes a form from the farmer who owns it and from nobody else.
SubmitFarm ==
    /\ Shown("farmer-onboarding") /\ profile \in Farmers /\ saving = Nobody
    /\ session = profile /\ saving' = profile
    /\ UNCHANGED <<world, where, who, rows, login, leaving>>

\* onCommitted runs with the role and the guard of the render the form was sent
\* from.
handleFarmSubmit ==
    /\ saving # Nobody /\ saving' = Nobody
    /\ UNCHANGED <<world, who, login, leaving>>
    /\ \/ /\ data' = [data EXCEPT !.farms = @ \cup {saving}]
          /\ scope' = IF saving \in Farmers THEN (scope \ NoScope) \cup {saving} ELSE scope
          /\ setPage(resolveNavigationTarget("farmer-status", RoleOf(saving)))
          /\ Mixed({saving}, saving, {profile, session} = {saving})
          /\ UNCHANGED <<held, link>>
       \/ UNCHANGED <<where, rows>>

\* Mutant: any session will do.
CheckLink_AnySession ==
    /\ Shown("set-password") /\ setpw.phase = "checking"
    /\ setpw' = CASE session # Nobody -> [setpw EXCEPT !.phase = "ready"]
                  [] session = Nobody /\ setpw.polls + 1 < MaxPolls -> [setpw EXCEPT !.polls = @ + 1]
                  [] OTHER -> [setpw EXCEPT !.phase = "unavailable"]
    /\ UNCHANGED <<world, page, held, link, who, rows, calls>>

\* Looks for the session of the link's subject: no session is worth another
\* look, somebody else's is not.
CheckLink ==
    /\ Shown("set-password") /\ setpw.phase = "checking"
    /\ setpw' = CASE session = setpw.subject -> [setpw EXCEPT !.phase = "ready"]
                  [] session = Nobody /\ setpw.polls + 1 < MaxPolls -> [setpw EXCEPT !.polls = @ + 1]
                  [] OTHER -> [setpw EXCEPT !.phase = "unavailable"]
    /\ UNCHANGED <<world, page, held, link, who, rows, calls>>

\* updateUser changes the account of the session it is called with.
SubmitPassword ==
    /\ Shown("set-password") /\ setpw.phase = "ready" /\ session # Nobody
    /\ setpw' = [setpw EXCEPT !.phase = "saving", !.set = session]
    /\ UNCHANGED <<world, page, held, link, who, rows, calls>>

\* Saved: the link is spent and the person is signed in like any other; or not.
handleSetPasswordComplete ==
    /\ setpw.phase = "saving"
    /\ \/ /\ login = "no"
          /\ setpw' = IF page = "set-password" THEN [setpw EXCEPT !.phase = "saved"] ELSE NoForm
          /\ link' = NoLink
          /\ login' = "password saved"
       \/ /\ setpw' = IF page = "set-password" THEN [setpw EXCEPT !.phase = "ready", !.set = Nobody]
                      ELSE NoForm
          /\ UNCHANGED <<link, login>>
    /\ UNCHANGED <<world, page, held, who, rows, leaving, saving>>

----------------------------------------------------------------------------
AccountService ==
    \/ Exchange \/ InitialSession \/ TokenRefreshed
    \/ \E u \in Users \cup {Nobody} : OtherTab(u)
    \/ \E e \in Events : attemptProfileLookup(e) \/ DeliverProfile(e) \/ LookupFails(e)
Loads == FarmerLoad \/ AdminLoad \/ RequestsLoad
Person ==
    \/ \E u \in Users : SignIn(u)
    \/ ClickSignOut \/ SubmitFarm \/ SubmitPassword
    \/ \E p \in Visited : goTo(p) \/ handlePopState(p)
SessionStep ==
    \/ AccountService \/ Loads \/ Person
    \/ BootTimeout \/ CheckLink
    \/ handleLoginSuccess \/ signOut
    \/ handleFarmSubmit \/ handleSetPasswordComplete

\* Safety only: nothing is assumed of the account service or the database.
Spec == Init /\ [][SessionStep]_sessionVars

----------------------------------------------------------------------------

\* A farmer never sees another's rows: not those of whoever was signed in
\* before, not the market an administrator loaded into the same arrays,
\* whatever queries failed, in whatever order answers came in and however often
\* the account changed; but for the answers of a form, a sign-in or a load that
\* came after an event had named somebody else.
OnlyOwnRows == role = "farmer" => OnScreen \ {profile} \subseteq crossed

\* Comment at App.tsx:752: "use empty arrays so the farmer never sees other
\* users' data", with no exception for a form.
NeverOtherUsersData == role = "farmer" => OnScreen \subseteq {profile}

\* Rows the Operations Desk takes for loaded are one complete answer of the
\* load of the profile on screen, never what an earlier load, another account
\* or half a failed load left behind, unless the session changed under the load.
DeskIsFresh ==
    role = "ddp_admin" =>
        \A a \in available : load = Nobody /\ data[a] \ crossed \in {Farmers \ crossed, {}}

\* However a page is reached, by a link, by the browser's buttons, by the first
\* answer about a restored session or by a sign-in, it is one the guard grants
\* the person then signed in; again but for a form that crossed its author.
ArrivalsAdmitted ==
    [][page' # page => \/ resolveNavigationTarget(page', RoleOf(profile')) = page'
                       \/ saving # Nobody /\ saving' = Nobody /\ saving # profile]_sessionVars

\* The password a link's screen sets is that of the account the link names,
\* whoever was signed in on this browser when it was opened, as long as no
\* other tab signs somebody in.
PasswordSetForSubject == foreign = 0 => setpw.set \in {Nobody, setpw.subject}

=============================================================================
