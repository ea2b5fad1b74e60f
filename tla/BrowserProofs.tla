---------------------------- MODULE BrowserProofs ----------------------------
(***************************************************************************)
(* Theorems about a tab of the console, for any people, any number of      *)
(* events and any number of times other tabs change the session; and about *)
(* the farmer's forms in it, for any answers, saves and decisions.         *)
(***************************************************************************)
EXTENDS BrowserSession, FarmerForms, CountingProofs, TLAPS

-----------------------------------------------------------------------------
(* People, roles and pages.                                                *)

People == Users \cup {Nobody}

LEMMA RolesOfPeople ==
  /\ \A p \in People : /\ RoleOf(p) \in Roles \cup {"none"}
                       /\ RoleOf(p) = "none" <=> p = Nobody
                       /\ RoleOf(p) = "farmer" <=> p \in Farmers
  /\ Farmers \subseteq Users /\ Nobody \notin Farmers /\ Readable \subseteq Farmers
  /\ Farmers \cap NoScope = {}
  /\ RoleOf(session) = "ddp_admin" => Readable = Farmers
BY RoleAssumption, SessionAssumption DEF People, RoleOf, Farmers, Roles, Readable

(* No rule of the guard leads to the set-password screen, and what the     *)
(* guard answers it grants.                                                *)
LEMMA GuardIsIdempotent ==
  ASSUME NEW q, NEW r \in Roles \cup {"none"}
  PROVE  /\ resolveNavigationTarget(resolveNavigationTarget(q, r), r) = resolveNavigationTarget(q, r)
         /\ q # "set-password" => resolveNavigationTarget(q, r) # "set-password"
BY DEF resolveNavigationTarget, PUBLIC_PAGES, PUBLIC_AUTH_PAGES, PUBLIC_CORPORATE_PAGES,
       FarmerOnlyPages, BUYER_PAGES, DDP_PAGES, Roles

(* The pages a sign-in and a sign-out lead to are granted.                 *)
LEMMA HomesAreGranted ==
  ASSUME NEW r \in Roles \cup {"none"}
  PROVE  /\ resolvePostLoginDecision(r) # "denied" =>
              resolveNavigationTarget(resolvePostLoginDecision(r), r) = resolvePostLoginDecision(r)
         /\ resolveNavigationTarget("landing", r) = "landing"
         /\ resolveNavigationTarget("login", r) = "login"
         /\ resolveNavigationTarget("farmer-status", "farmer") = "farmer-status"
         /\ resolvePostLoginDecision(r) # "set-password"
BY DEF resolveNavigationTarget, PUBLIC_PAGES, PUBLIC_AUTH_PAGES, PUBLIC_CORPORATE_PAGES,
       FarmerOnlyPages, BUYER_PAGES, DDP_PAGES, Roles, resolvePostLoginDecision

LEMMA LinksAndAddresses ==
  ASSUME NEW q
  PROVE  /\ \A p, r : "set-password" \notin LinksOn(p, r)
         /\ getInitialPageFromPath(q) \in DDP_PAGES \cup PUBLIC_PAGES \cup {NoPage}
         /\ getInitialPageFromPath(q) # "set-password"
         /\ decideColdLoad(q).held \in DDP_PAGES \cup {NoPage}
         /\ decideColdLoad(q).page # "set-password"
         /\ "set-password" \notin DDP_PAGES
BY DEF LinksOn, getInitialPageFromPath, decideColdLoad, Addressed, NoPage, PUBLIC_PAGES,
       PUBLIC_AUTH_PAGES, PUBLIC_CORPORATE_PAGES, FarmerOnlyPages, DDP_PAGES, FarmerNav,
       CONSOLE_NAV_ITEMS, PublicNav

-----------------------------------------------------------------------------
(* Whose rows are in front of whom.                                        *)

Arrays == [farms : SUBSET Farmers, inventory : SUBSET Farmers, requests : SUBSET Farmers]
RowsTypeOK ==
  /\ profile \in People /\ scopeKey \in People /\ saving \in Farmers \cup {Nobody}
  /\ data \in Arrays /\ scope \subseteq Farmers \cup NoScope /\ crossed \subseteq Farmers
  /\ available \subseteq {"farms", "inventory"}

(* A load works for the profile on screen, and only an administrator has   *)
(* one of the requests.                                                    *)
LoadsAreTheProfiles ==
  /\ load \in {Nobody, profile} /\ RoleOf(load) \in {"none", "farmer", "ddp_admin"}
  /\ reqLoad \in {Nobody, profile} /\ RoleOf(reqLoad) \in {"none", "ddp_admin"}

Rows == data.farms \cup data.inventory \cup data.requests

(* While an event last named a farmer the arrays are that farmer's, and     *)
(* those of the farmer on screen, who may be another; while it named        *)
(* anybody else the scope is empty.  What crossed is excepted.              *)
RowsAreOf ==
  /\ scopeKey \in Farmers => Rows \subseteq {scopeKey} \cup crossed
  /\ scopeKey \in Farmers /\ profile \in Farmers => Rows \subseteq {profile} \cup crossed
  /\ scopeKey \notin Farmers => scope \subseteq NoScope \cup crossed

(* Nothing is available to an administrator whose load has not answered.    *)
AvailableIsLoaded ==
  RoleOf(profile) = "ddp_admin" =>
     /\ load # Nobody => available = {}
     /\ \A a \in available : data[a] \ crossed \in {Farmers \ crossed, {}}

RowsInv == RowsTypeOK /\ LoadsAreTheProfiles /\ RowsAreOf /\ AvailableIsLoaded

LEMMA RowsImply == RowsInv => OnlyOwnRows /\ DeskIsFresh
<1> SUFFICES ASSUME RowsInv PROVE OnlyOwnRows /\ DeskIsFresh
  OBVIOUS
<1>1. OnlyOwnRows
  <2> SUFFICES ASSUME role = "farmer", NEW a \in DOMAIN data PROVE View(data[a]) \subseteq {profile} \cup crossed
    BY DEF OnlyOwnRows, OnScreen
  <2>1. profile \in Farmers /\ data[a] \subseteq Rows /\ data[a] \subseteq Farmers
    BY RolesOfPeople DEF RowsInv, RowsTypeOK, Arrays, Rows, role
  <2> QED
    BY <2>1, RolesOfPeople DEF RowsInv, RowsAreOf, View
<1>2. DeskIsFresh
  BY DEF RowsInv, RowsTypeOK, LoadsAreTheProfiles, AvailableIsLoaded, DeskIsFresh, role
<1> QED
  BY <1>1, <1>2

LEMMA RowsStart == Init => RowsInv
<1> SUFFICES ASSUME AppInit(<<0, {}>>) PROVE RowsInv
  BY DEF Init
<1>1. /\ profile = Nobody /\ scopeKey = Nobody /\ saving = Nobody /\ data = NoData /\ scope = NoScope
      /\ crossed = {} /\ available = {} /\ load = Nobody /\ reqLoad = Nobody
  BY DEF AppInit
<1>2. RoleOf(Nobody) = "none" /\ Nobody \in People /\ Nobody \notin Farmers
  BY RolesOfPeople DEF People
<1>3. RowsTypeOK /\ LoadsAreTheProfiles
  BY <1>1, <1>2 DEF RowsTypeOK, Arrays, NoData, LoadsAreTheProfiles
<1> QED
  BY <1>1, <1>2, <1>3 DEF RowsInv, RowsAreOf, AvailableIsLoaded

(* An event's profile, or none. *)
LEMMA AuthCallbackRows ==
  ASSUME RowsInv, NEW p \in People, AuthCallback(p)
  PROVE  RowsInv'
<1>1. PICK kept \in {p, Nobody} :
        /\ profile' = kept /\ ProfileEffects(kept)
        /\ available' = IF scopeKey # p THEN {} ELSE Fresh(kept)
  BY DEF AuthCallback
<1>2. /\ scopeKey' = p /\ saving' = saving
      /\ data' = IF scopeKey # p THEN NoData ELSE data
      /\ scope' = IF RoleOf(p) = "farmer" THEN scope ELSE NoScope
      /\ crossed' = IF scopeKey # p THEN {} ELSE crossed
  BY DEF AuthCallback, Wipe
<1>3. RowsTypeOK' /\ LoadsAreTheProfiles'
  BY <1>1, <1>2, RolesOfPeople DEF RowsInv, RowsTypeOK, Arrays, NoData, NoScope, People,
     LoadsAreTheProfiles, ProfileEffects, Fresh
<1>4. RowsAreOf'
  BY <1>1, <1>2, RolesOfPeople DEF RowsInv, RowsAreOf, Rows, NoData
<1>5. AvailableIsLoaded'
  BY <1>1, <1>2 DEF AvailableIsLoaded, Fresh
<1> QED
  BY <1>3, <1>4, <1>5 DEF RowsInv

LEMMA NotifyRows ==
  ASSUME RowsInv, NEW u \in People, Notify(u)
  PROVE  RowsInv'
<1>1. CASE u = Nobody
  BY <1>1, AuthCallbackRows DEF Notify
<1>2. CASE UNCHANGED <<who, rows, saving>>
  BY <1>2 DEF who, rows, RowsInv, RowsTypeOK, LoadsAreTheProfiles, RowsAreOf, AvailableIsLoaded, Rows
<1> QED
  BY <1>1, <1>2 DEF Notify

LEMMA SignInRows ==
  ASSUME RowsInv, session \in People, handleLoginSuccess
  PROVE  RowsInv'
<1>0. PICK u \in {session, Nobody} :
        \/ UNCHANGED <<where, who, crossed>>
        \/ /\ setCurrentProfile(u)
           /\ Mixed(IF scopeKey \in Farmers THEN UNION {data[a] : a \in DOMAIN data} ELSE {}, u, TRUE)
           /\ scopeKey' = scopeKey
  BY DEF handleLoginSuccess
<1>1. UNCHANGED <<data, scope, saving>>
  BY DEF handleLoginSuccess
<1>2. CASE UNCHANGED <<where, who, crossed>>
  BY <1>1, <1>2 DEF who, RowsInv, RowsTypeOK, LoadsAreTheProfiles, RowsAreOf, AvailableIsLoaded, Rows
<1>3. CASE /\ setCurrentProfile(u)
           /\ Mixed(IF scopeKey \in Farmers THEN UNION {data[a] : a \in DOMAIN data} ELSE {}, u, TRUE)
           /\ scopeKey' = scopeKey
  <2>1. UNION {data[a] : a \in DOMAIN data} = Rows /\ Rows \subseteq Farmers
    BY DEF RowsInv, RowsTypeOK, Arrays, Rows
  <2>2. u \in People
    BY DEF People
  <2>3. crossed' = IF scopeKey = u THEN crossed ELSE crossed \cup (IF scopeKey \in Farmers THEN Rows ELSE {})
    BY <1>3, <2>1 DEF Mixed
  <2>4. RowsTypeOK' /\ LoadsAreTheProfiles'
    BY <1>1, <1>3, <2>1, <2>2, <2>3, RolesOfPeople DEF RowsInv, RowsTypeOK,
       LoadsAreTheProfiles, setCurrentProfile, ProfileEffects, Fresh, People
  <2>5. Rows' = Rows
    BY <1>1 DEF Rows
  <2>6. RowsAreOf'
    BY <1>1, <1>3, <2>3, <2>5 DEF RowsInv, RowsAreOf, setCurrentProfile
  <2>7. AvailableIsLoaded'
    BY <1>3 DEF AvailableIsLoaded, setCurrentProfile, Fresh
  <2> QED
    BY <2>4, <2>6, <2>7 DEF RowsInv
<1> QED
  BY <1>0, <1>2, <1>3

LEMMA SignOutRows ==
  ASSUME RowsInv, signOut
  PROVE  RowsInv'
<1>1. /\ profile' = Nobody /\ ProfileEffects(Nobody) /\ saving' = saving
      /\ \/ /\ Wipe(Nobody)
            /\ available' = IF scopeKey # Nobody THEN {} ELSE available
         \/ UNCHANGED <<scopeKey, available, rows>>
  BY DEF signOut
<1>2. RoleOf(Nobody) = "none" /\ Nobody \in People
  BY RolesOfPeople DEF People
<1>3. RowsTypeOK'
  <2>1. CASE Wipe(Nobody) /\ available' = IF scopeKey # Nobody THEN {} ELSE available
    BY <1>1, <1>2, <2>1 DEF RowsInv, RowsTypeOK, Arrays, NoData, Wipe
  <2>2. CASE UNCHANGED <<scopeKey, available, rows>>
    BY <1>1, <1>2, <2>2 DEF RowsInv, RowsTypeOK, rows
  <2> QED
    BY <1>1, <2>1, <2>2
<1>4. LoadsAreTheProfiles'
  BY <1>1, <1>2 DEF LoadsAreTheProfiles, ProfileEffects, RoleOf
<1>5. AvailableIsLoaded'
  BY <1>1, <1>2 DEF AvailableIsLoaded, RoleOf
<1>6. RowsAreOf'
  BY <1>1, <1>2, RolesOfPeople DEF RowsInv, RowsAreOf, Rows, Wipe, rows
<1> QED
  BY <1>3, <1>4, <1>5, <1>6 DEF RowsInv

(* What the loads bring. *)
LEMMA FarmerLoadRows ==
  ASSUME RowsInv, FarmerLoad
  PROVE  RowsInv'
<1>1. load \in Farmers /\ profile = load /\ RoleOf(profile) = "farmer"
  BY RolesOfPeople DEF FarmerLoad, RowsInv, RowsTypeOK, LoadsAreTheProfiles
<1>2. /\ scope' \subseteq {load}
      /\ data' \in Arrays /\ Rows' \subseteq Rows \cup {load}
  BY RolesOfPeople DEF FarmerLoad, getFarmerScope, loadFarmerFarmsFromDB, loadFarmerInventoryFromDB,
     loadReviewRequestsFromDB, RowsInv, RowsTypeOK, Arrays, Rows
<1>3. /\ crossed' = IF scopeKey = load THEN crossed ELSE crossed \cup {load}
      /\ load' = Nobody /\ UNCHANGED <<profile, scopeKey, reqLoad, available, saving>>
  BY DEF FarmerLoad, Mixed, calls
<1>4. RowsTypeOK' /\ LoadsAreTheProfiles'
  BY <1>1, <1>2, <1>3, RolesOfPeople DEF RowsInv, RowsTypeOK, LoadsAreTheProfiles, RoleOf
<1>5. RowsAreOf'
  BY <1>1, <1>2, <1>3 DEF RowsInv, RowsAreOf
<1> QED
  BY <1>1, <1>3, <1>4, <1>5 DEF RowsInv, AvailableIsLoaded

LEMMA AdminLoadRows ==
  ASSUME RowsInv, AdminLoad
  PROVE  RowsInv'
<1>1. profile = load /\ RoleOf(load) = "ddp_admin" /\ load \notin Farmers
  BY RolesOfPeople DEF AdminLoad, RowsInv, RowsTypeOK, LoadsAreTheProfiles, People
<1>2. PICK ok \in SUBSET {"farms", "inventory"} :
        /\ data' = [data EXCEPT !.farms = IF "farms" \in ok THEN Readable ELSE {},
                                !.inventory = IF "inventory" \in ok THEN Readable ELSE {}]
        /\ available' = ok
  BY DEF AdminLoad, resolveAdminDataApply, loadFarmsFromDB, loadInventoryFromDB
<1>3. /\ crossed' = IF scopeKey = load /\ session = load THEN crossed ELSE crossed \cup Readable
      /\ load' = Nobody /\ UNCHANGED <<profile, scopeKey, reqLoad, scope, saving>>
  BY DEF AdminLoad, Mixed, calls
<1>4. /\ data' \in Arrays /\ Rows' \subseteq Rows \cup Readable
      /\ \A a \in ok : data'[a] = Readable
  BY <1>2, RolesOfPeople DEF RowsInv, RowsTypeOK, Arrays, Rows
<1>5. RowsTypeOK' /\ LoadsAreTheProfiles'
  BY <1>1, <1>2, <1>3, <1>4, RolesOfPeople DEF RowsInv, RowsTypeOK, LoadsAreTheProfiles, RoleOf
<1>6. RowsAreOf'
  BY <1>1, <1>3, <1>4 DEF RowsInv, RowsAreOf
<1>7. AvailableIsLoaded'
  <2>1. CASE session = load
    <3>1. Readable = Farmers
      BY <1>1, <2>1, RolesOfPeople
    <3> QED
      BY <1>2, <1>3, <1>4, <3>1 DEF AvailableIsLoaded
  <2>2. CASE session # load
    BY <1>2, <1>3, <1>4, <2>2 DEF AvailableIsLoaded
  <2> QED
    BY <2>1, <2>2
<1> QED
  BY <1>5, <1>6, <1>7 DEF RowsInv

LEMMA RequestsLoadRows ==
  ASSUME RowsInv, RequestsLoad
  PROVE  RowsInv'
<1>1. profile = reqLoad /\ RoleOf(reqLoad) = "ddp_admin" /\ reqLoad \notin Farmers
  BY RolesOfPeople DEF RequestsLoad, RowsInv, LoadsAreTheProfiles, RowsTypeOK
<1>2. /\ reqLoad' = Nobody /\ UNCHANGED <<profile, scopeKey, load, available, scope, saving>>
      /\ \/ /\ data' = [data EXCEPT !.requests = Readable]
            /\ crossed' = IF scopeKey = reqLoad /\ session = reqLoad THEN crossed ELSE crossed \cup Readable
         \/ UNCHANGED <<data, crossed>>
  BY DEF RequestsLoad, Mixed, loadAllReviewRequestsFromDB, calls
<1>3. /\ data' \in Arrays /\ crossed \subseteq crossed' /\ crossed' \subseteq Farmers
      /\ data'.farms = data.farms /\ data'.inventory = data.inventory
  BY <1>2, RolesOfPeople DEF RowsInv, RowsTypeOK, Arrays
<1>4. RowsTypeOK' /\ LoadsAreTheProfiles'
  BY <1>1, <1>2, <1>3, RolesOfPeople DEF RowsInv, RowsTypeOK, LoadsAreTheProfiles, RoleOf
<1>5. RowsAreOf'
  <2>1. Rows' \subseteq Rows \cup Readable
    BY <1>2, <1>3, RolesOfPeople DEF RowsInv, RowsTypeOK, Arrays, Rows
  <2>2. scopeKey \in Farmers => Rows' \subseteq Rows \cup crossed'
    BY <1>1, <1>2, <1>3, <2>1 DEF Rows
  <2> QED
    BY <1>1, <1>2, <1>3, <2>2, RolesOfPeople DEF RowsInv, RowsAreOf
<1>6. AvailableIsLoaded'
  BY <1>1, <1>2, <1>3 DEF RowsInv, RowsTypeOK, AvailableIsLoaded
<1> QED
  BY <1>4, <1>5, <1>6 DEF RowsInv

LEMMA SubmitRows ==
  ASSUME RowsInv, SubmitFarm \/ handleFarmSubmit
  PROVE  RowsInv'
<1>1. CASE UNCHANGED <<data, scope, crossed>>
  <2>1. saving' \in Farmers \cup {Nobody} /\ UNCHANGED who
    BY <1>1 DEF SubmitFarm, handleFarmSubmit
  <2> QED
    BY <1>1, <2>1 DEF who, RowsInv, RowsTypeOK, LoadsAreTheProfiles, RowsAreOf, AvailableIsLoaded, Rows
<1>2. CASE /\ saving \in Farmers /\ saving' = Nobody /\ UNCHANGED who
           /\ data' = [data EXCEPT !.farms = @ \cup {saving}]
           /\ scope' = (scope \ NoScope) \cup {saving}
           /\ Mixed({saving}, saving, {profile, session} = {saving})
  <2>1. /\ data' \in Arrays /\ Rows' = Rows \cup {saving}
        /\ data'.farms = data.farms \cup {saving} /\ data'.inventory = data.inventory
    BY <1>2 DEF RowsInv, RowsTypeOK, Arrays, Rows
  <2>2. UNCHANGED <<profile, scopeKey, load, reqLoad, available>>
    BY <1>2 DEF who
  <2>3. crossed' = IF scopeKey = saving /\ {profile, session} = {saving} THEN crossed ELSE crossed \cup {saving}
    BY <1>2 DEF Mixed
  <2>4. RowsTypeOK' /\ LoadsAreTheProfiles'
    BY <1>2, <2>1, <2>2, <2>3, RolesOfPeople DEF RowsInv, RowsTypeOK, LoadsAreTheProfiles, RoleOf
  <2>5. RowsAreOf'
    BY <1>2, <2>1, <2>2, <2>3 DEF RowsInv, RowsAreOf
  <2>6. AvailableIsLoaded'
    <3> SUFFICES ASSUME RoleOf(profile) = "ddp_admin"
                 PROVE  \A a \in available : data'[a] \ crossed' \in {Farmers \ crossed', {}}
      BY <2>2 DEF RowsInv, AvailableIsLoaded, RoleOf
    <3>1. crossed' = crossed \cup {saving}
      BY <1>2, <2>3, RolesOfPeople DEF RowsInv, RowsTypeOK
    <3>2. \A a \in available : data[a] \ crossed \in {Farmers \ crossed, {}}
      BY DEF RowsInv, AvailableIsLoaded
    <3>3. \A a \in available : a \in {"farms", "inventory"}
      BY DEF RowsInv, RowsTypeOK
    <3>4. \A a \in available : data'[a] \ crossed' = (data[a] \ crossed) \ {saving}
      BY <2>1, <3>1, <3>3
    <3> QED
      BY <3>1, <3>2, <3>4
  <2> QED
    BY <2>4, <2>5, <2>6 DEF RowsInv
<1> QED
  BY <1>1, <1>2 DEF SubmitFarm, handleFarmSubmit, rows, where, RowsInv, RowsTypeOK

(* No other step touches the arrays or the profile. *)
LEMMA RowsStep ==
  ASSUME RowsInv, session \in People, \A e \in Events : event[e].user \in People,
         SessionStep \/ UNCHANGED sessionVars
  PROVE  RowsInv'
<1>1. CASE UNCHANGED <<who, rows, saving>>
  BY <1>1 DEF who, rows, RowsInv, RowsTypeOK, LoadsAreTheProfiles, RowsAreOf, AvailableIsLoaded, Rows
<1>2. CASE AccountService
  <2>1. (\E u \in People : Notify(u)) => RowsInv'
    BY NotifyRows
  <2>2. (\E p \in People : AuthCallback(p)) => RowsInv'
    BY AuthCallbackRows
  <2>3. ASSUME NEW e \in Events, attemptProfileLookup(e) PROVE UNCHANGED <<who, rows, saving>>
    BY <2>3 DEF attemptProfileLookup, calls
  <2>4. Exchange => UNCHANGED <<who, rows, saving>> \/ \E u \in People : Notify(u)
    BY DEF Exchange, calls, People
  <2> QED
    BY <1>1, <1>2, <2>1, <2>2, <2>3, <2>4 DEF AccountService, InitialSession, TokenRefreshed, OtherTab,
       DeliverProfile, LookupFails, People
<1>3. CASE Person
  <2>1. SubmitFarm \/ UNCHANGED <<who, rows, saving>>
    BY <1>3 DEF Person, SignIn, ClickSignOut, SubmitPassword, goTo, handlePopState, Turn, calls
  <2> QED
    BY <1>1, <2>1, SubmitRows
<1>4. CASE BootTimeout
  BY <1>4 DEF BootTimeout, RowsInv, RowsTypeOK, LoadsAreTheProfiles, RowsAreOf, AvailableIsLoaded, Rows,
     rows, calls
<1>5. CheckLink \/ handleSetPasswordComplete => UNCHANGED <<who, rows, saving>>
  BY DEF CheckLink, handleSetPasswordComplete, calls
<1> QED
  BY <1>1, <1>2, <1>3, <1>4, <1>5, SignInRows, SignOutRows, FarmerLoadRows, AdminLoadRows,
     RequestsLoadRows, SubmitRows DEF SessionStep, Loads, sessionVars, calls


-----------------------------------------------------------------------------
(* The set-password screen.                                                *)

Form == [phase : {"off", "unavailable", "checking", "ready", "saving", "saved"},
         polls : Nat, subject : People, set : People]

AccountOK ==
  /\ session \in People /\ foreign \in Nat
  /\ event \in [Events -> [user : People, step : {"unused", "asked", "found", "over"}]]

(* As long as no other tab signs somebody in: while the screen may save,   *)
(* the browser's session is its subject's or gone, and a token still to be *)
(* exchanged is its subject's.                                             *)
ScreenInv ==
  /\ setpw \in Form /\ held \in DDP_PAGES \cup {NoPage}
  /\ setpw.phase \in {"checking", "ready"} => page = "set-password"
  /\ boot \in Users => setpw.subject = boot \/ setpw.phase = "off"
  /\ foreign = 0 /\ page = "set-password" /\ setpw.phase \in {"ready", "saving"}
       => session \in {setpw.subject, Nobody}
  /\ foreign = 0 => setpw.set \in {setpw.subject, Nobody}

LEMMA ScreenStart == Init => AccountOK /\ ScreenInv
<1> SUFFICES ASSUME Init PROVE AccountOK /\ ScreenInv
  OBVIOUS
<1>1. AccountOK
  BY DEF Init, AppInit, AccountOK, People, Unused, Over
<1>2. PICK path \in Visited, l \in Users \cup {DeadLink, NoLink} : Opened(path, l)
  BY DEF Init
<1>3. held \in DDP_PAGES \cup {NoPage}
  BY <1>2, LinksAndAddresses DEF Opened
<1>4. NoForm \in Form
  BY DEF NoForm, Form, People
<1>5. CASE l \notin Users
  <2>1. setpw \in {NoForm, [NoForm EXCEPT !.phase = "unavailable"]} /\ boot = "initial"
    BY <1>2, <1>5 DEF Opened
  <2>2. setpw \in Form /\ setpw.phase \in {"off", "unavailable"} /\ setpw.set = Nobody
    BY <1>4, <2>1 DEF NoForm, Form
  <2> QED
    BY <1>1, <1>3, <2>1, <2>2, SessionAssumption DEF ScreenInv
<1>6. CASE l \in Users
  <2>1. l \notin {DeadLink, NoLink}
    BY <1>6, SessionAssumption
  <2>2. /\ setpw = [NoForm EXCEPT !.phase = "checking", !.subject = l]
        /\ boot = l /\ page = "set-password"
    BY <1>2, <1>6, <2>1 DEF Opened
  <2>3. setpw \in Form /\ setpw.phase = "checking" /\ setpw.set = Nobody /\ setpw.subject = l
    BY <1>4, <1>6, <2>2 DEF NoForm, Form, People
  <2> QED
    BY <1>1, <1>3, <2>2, <2>3 DEF ScreenInv
<1> QED
  BY <1>1, <1>5, <1>6

(* A step that leaves the screen as it is, or leaves it. *)
LEMMA Turning ==
  ASSUME ScreenInv, foreign \in Nat, boot' \in {boot, "initial", "done"}, foreign' \in {foreign, foreign + 1},
         held' \in {held, NoPage},
         \/ UNCHANGED <<page, setpw>>
            /\ (session' \in {session, Nobody} \/ foreign' = foreign + 1 \/ page # "set-password")
         \/ \E p : p # "set-password" /\ setPage(p)
  PROVE  ScreenInv'
<1>1. boot' \in Users => boot' = boot
  BY SessionAssumption
<1>2. NoForm \in Form /\ NoForm.phase = "off" /\ NoForm.set = Nobody
  BY DEF NoForm, Form, People
<1>3. CASE UNCHANGED <<page, setpw>>
            /\ (session' \in {session, Nobody} \/ foreign' = foreign + 1 \/ page # "set-password")
  BY <1>1, <1>3 DEF ScreenInv
<1>4. CASE \E p : p # "set-password" /\ setPage(p)
  <2>1. page' # "set-password" /\ setpw' \in {setpw, NoForm} /\ (setpw' = setpw => setpw.phase = "saving" \/ setpw = NoForm)
    BY <1>4 DEF setPage
  <2>2. setpw'.phase \notin {"checking", "ready"}
    BY <1>2, <2>1
  <2> QED
    BY <1>1, <1>2, <2>1, <2>2 DEF ScreenInv
<1> QED
  BY <1>3, <1>4

(* What the answer to an event does to the page. *)
LEMMA AuthCallbackPage ==
  ASSUME NEW p \in People, held \in DDP_PAGES \cup {NoPage}, AuthCallback(p)
  PROVE  /\ held' \in {held, NoPage}
         /\ \/ UNCHANGED <<page, setpw>>
            \/ \E q : /\ q # "set-password" /\ setPage(q) /\ profile' = p
                      /\ resolveNavigationTarget(q, RoleOf(p)) = q
<1> DEFINE action == resolveAuthResolutionAction(routed, RoleOf(p), link # NoLink)
           home == resolvePostLoginDecision(RoleOf(p))
           q == consumeDeepLinkIntent(held, RoleOf(p), action.page)
<1>1. CASE action.kind = "route"
  <2>1. action.page = home /\ home # "denied"
    BY <1>1 DEF resolveAuthResolutionAction
  <2>2. setPage(q) /\ held' = NoPage /\ profile' = p
    BY <1>1 DEF AuthCallback
  <2>3. RoleOf(p) \in Roles \cup {"none"}
    BY RolesOfPeople
  <2>4. q # "set-password" /\ resolveNavigationTarget(q, RoleOf(p)) = q
    BY <2>1, <2>3, GuardIsIdempotent, HomesAreGranted, LinksAndAddresses DEF consumeDeepLinkIntent
  <2> QED
    BY <2>2, <2>4
<1>2. CASE action.kind # "route"
  BY <1>2 DEF AuthCallback
<1> QED
  BY <1>1, <1>2

LEMMA ScreenStep ==
  ASSUME AccountOK, ScreenInv, saving \in Farmers \cup {Nobody}, profile \in People,
         SessionStep \/ UNCHANGED sessionVars
  PROVE  AccountOK' /\ ScreenInv'
<1>1. CASE UNCHANGED <<world, where>>
  BY <1>1 DEF world, where, AccountOK, ScreenInv
<1>2. ASSUME NEW p \in People, AuthCallback(p), boot' \in {boot, "initial", "done"}, foreign' \in {foreign, foreign + 1},
             session' \in {session, Nobody} \/ foreign' = foreign + 1
      PROVE  ScreenInv'
  BY <1>2, AuthCallbackPage, Turning DEF AccountOK, ScreenInv
<1>3. ASSUME NEW u \in People, Notify(u), boot' \in {boot, "initial", "done"}, foreign' \in {foreign, foreign + 1},
             session' \in {session, Nobody} \/ foreign' = foreign + 1
      PROVE  ScreenInv'
  <2>1. CASE UNCHANGED where
    BY <1>3, <2>1, Turning DEF where, AccountOK
  <2> QED
    BY <1>2, <1>3, <2>1 DEF Notify
<1>4. ASSUME NEW u \in People, Notify(u) PROVE event' \in [Events -> [user : People, step : {"unused", "asked", "found", "over"}]]
  BY <1>4 DEF Notify, StartLookup, AccountOK
<1>5. CASE AccountService
  <2>1. CASE Exchange
    <3>0. boot \in Users /\ boot' = "initial" /\ foreign' = foreign /\ boot # Nobody
      BY <2>1, RoleAssumption DEF Exchange
    <3>1. CASE SetSession(boot) /\ Notify(boot)
      <4>1. UNCHANGED where /\ session' = boot
        BY <3>0, <3>1 DEF Notify, SetSession
      <4>2. boot' \notin Users
        BY <3>0, SessionAssumption
      <4>3. ScreenInv'
        BY <3>0, <4>1, <4>2 DEF ScreenInv, where
      <4> QED
        BY <1>4, <3>0, <3>1, <4>1, <4>3 DEF AccountOK, People
    <3>2. CASE UNCHANGED <<session, event, where, who, rows, calls>>
      BY <3>0, <3>2, Turning DEF where, AccountOK
    <3> QED
      BY <2>1, <3>1, <3>2 DEF Exchange
  <2>2. CASE InitialSession \/ TokenRefreshed
    <3>1. Notify(session) /\ boot' = "done" /\ UNCHANGED <<session, foreign>>
      BY <2>2 DEF InitialSession, TokenRefreshed
    <3> QED
      BY <1>3, <1>4, <3>1 DEF AccountOK
  <2>3. ASSUME NEW u \in People, OtherTab(u) PROVE AccountOK' /\ ScreenInv'
    <3>1. Notify(u) /\ foreign' = foreign + 1 /\ session' = u /\ boot' = boot
      BY <2>3 DEF OtherTab, SetSession
    <3> QED
      BY <1>3, <1>4, <3>1 DEF AccountOK
  <2>4. ASSUME NEW e \in Events, attemptProfileLookup(e) PROVE AccountOK' /\ ScreenInv'
    <3>1. UNCHANGED <<session, boot, foreign, where>> /\ event' = [event EXCEPT ![e].step = "found"]
      BY <2>4 DEF attemptProfileLookup
    <3> QED
      BY <3>1, Turning DEF where, AccountOK
  <2>5. ASSUME NEW e \in Events, DeliverProfile(e) \/ LookupFails(e) PROVE AccountOK' /\ ScreenInv'
    <3>1. /\ UNCHANGED <<session, boot, foreign>>
          /\ event' = [event EXCEPT ![e] = Over]
          /\ AuthCallback(event[e].user) \/ AuthCallback(Nobody)
      BY <2>5 DEF DeliverProfile, LookupFails
    <3>2. event[e].user \in People /\ Nobody \in People
      BY DEF AccountOK, People
    <3> QED
      BY <1>2, <3>1, <3>2 DEF AccountOK, Over
  <2> QED
    BY <1>5, <2>1, <2>2, <2>3, <2>4, <2>5 DEF AccountService, People
<1>6. CASE Loads \/ BootTimeout
  BY <1>1, <1>6 DEF Loads, FarmerLoad, AdminLoad, RequestsLoad, BootTimeout
<1>7. CASE Person
  <2>1. ASSUME NEW u \in Users, SignIn(u) PROVE AccountOK' /\ ScreenInv'
    <3>1. /\ page = "login" /\ session' = u /\ UNCHANGED <<boot, foreign, where>>
          /\ event' = [event EXCEPT ![NextEvent] = [user |-> u, step |-> "asked"]]
      BY <2>1 DEF SignIn, Shown, SetSession, StartLookup
    <3> QED
      BY <3>1, Turning DEF where, AccountOK, People
  <2>2. CASE ClickSignOut \/ SubmitFarm
    BY <1>1, <2>2 DEF ClickSignOut, SubmitFarm
  <2>3. CASE SubmitPassword
    <3>1. /\ page = "set-password" /\ setpw.phase = "ready" /\ session # Nobody
          /\ setpw' = [setpw EXCEPT !.phase = "saving", !.set = session]
          /\ UNCHANGED <<world, page, held>>
      BY <2>3 DEF SubmitPassword, Shown
    <3>2. setpw' \in Form /\ setpw'.phase = "saving" /\ setpw'.set = session /\ setpw'.subject = setpw.subject
      BY <3>1 DEF ScreenInv, AccountOK, Form
    <3> QED
      BY <3>1, <3>2 DEF ScreenInv, AccountOK, world
  <2>4. ASSUME NEW p \in Visited, goTo(p) \/ handlePopState(p) PROVE AccountOK' /\ ScreenInv'
    <3>1. RoleOf(profile) \in Roles \cup {"none"}
      BY RolesOfPeople
    <3>2. UNCHANGED <<world, held>> /\ \E q : q # "set-password" /\ setPage(q)
      BY <2>4, <3>1, GuardIsIdempotent, LinksAndAddresses DEF goTo, handlePopState, Turn, role
    <3> QED
      BY <3>2, Turning DEF world, AccountOK
  <2> QED
    BY <1>7, <2>1, <2>2, <2>3, <2>4 DEF Person
<1>8. CASE CheckLink
  <2>1. /\ page = "set-password" /\ setpw.phase = "checking" /\ UNCHANGED <<world, page, held>>
        /\ \/ session = setpw.subject /\ setpw' = [setpw EXCEPT !.phase = "ready"]
           \/ setpw' = [setpw EXCEPT !.polls = @ + 1]
           \/ setpw' = [setpw EXCEPT !.phase = "unavailable"]
    BY <1>8 DEF CheckLink, Shown
  <2>2. /\ setpw' \in Form /\ setpw'.set = setpw.set /\ setpw'.subject = setpw.subject
        /\ setpw'.phase = "ready" => session = setpw.subject
        /\ setpw'.phase \notin {"saving"}
    BY <2>1 DEF ScreenInv, Form
  <2> QED
    BY <2>1, <2>2 DEF ScreenInv, AccountOK, world
<1>9. CASE handleLoginSuccess
  <2>1. UNCHANGED <<world, where>> \/ \E q : q # "set-password" /\ setPage(q) /\ UNCHANGED <<world, held>>
    <3>1. PICK u \in {session, Nobody} :
             \/ UNCHANGED where
             \/ setPage(resolvePostLoginDecision(RoleOf(u))) /\ held' = held
      BY <1>9 DEF handleLoginSuccess
    <3>2. RoleOf(u) \in Roles \cup {"none"}
      BY RolesOfPeople DEF AccountOK, People
    <3> QED
      BY <1>9, <3>1, <3>2, HomesAreGranted DEF handleLoginSuccess
  <2> QED
    BY <1>1, <2>1, Turning DEF world, AccountOK
<1>10. CASE signOut
  <2>1. /\ session' \in {session, Nobody} /\ UNCHANGED <<boot, foreign, event, held>>
        /\ UNCHANGED <<page, setpw>> \/ setPage("landing") \/ setPage("login")
    BY <1>10 DEF signOut, SetSession
  <2> QED
    BY <2>1, Turning DEF AccountOK, People
<1>11. CASE handleFarmSubmit
  <2>1. /\ UNCHANGED world /\ saving \in Farmers
        /\ UNCHANGED where \/ (setPage(resolveNavigationTarget("farmer-status", RoleOf(saving))) /\ held' = held)
    BY <1>11, Zenon DEF handleFarmSubmit
  <2>2. resolveNavigationTarget("farmer-status", RoleOf(saving)) # "set-password"
    BY <2>1, RolesOfPeople, GuardIsIdempotent DEF People
  <2> QED
    BY <1>1, <2>1, <2>2, Turning DEF world, AccountOK
<1>12. CASE handleSetPasswordComplete
  <2>1. /\ UNCHANGED <<world, page, held>> /\ setpw.phase = "saving"
        /\ \/ setpw' = NoForm
           \/ setpw' = [setpw EXCEPT !.phase = "saved"]
           \/ page = "set-password" /\ setpw' = [setpw EXCEPT !.phase = "ready", !.set = Nobody]
    BY <1>12 DEF handleSetPasswordComplete
  <2>2. /\ setpw' \in Form /\ setpw'.set \in {setpw.set, Nobody}
        /\ setpw'.phase = "ready" => page = "set-password"
        /\ setpw' = NoForm \/ setpw'.subject = setpw.subject
        /\ setpw'.phase \in {"off", "saved", "ready"} /\ (setpw' = NoForm => setpw'.phase = "off" /\ setpw'.set = Nobody)
    <3>1. NoForm \in Form /\ NoForm.phase = "off" /\ NoForm.set = Nobody
      BY DEF NoForm, Form, People
    <3>2. setpw \in Form
      BY DEF ScreenInv
    <3>3. CASE setpw' = NoForm
      BY <3>1, <3>3
    <3>4. CASE setpw' = [setpw EXCEPT !.phase = "saved"]
      BY <3>2, <3>4 DEF Form, NoForm
    <3>5. CASE page = "set-password" /\ setpw' = [setpw EXCEPT !.phase = "ready", !.set = Nobody]
      BY <3>2, <3>5 DEF Form, NoForm, People
    <3> QED
      BY <2>1, <3>3, <3>4, <3>5
  <2> QED
    BY <2>1, <2>2 DEF ScreenInv, AccountOK, world
<1> QED
  BY <1>1, <1>5, <1>6, <1>7, <1>8, <1>9, <1>10, <1>11, <1>12 DEF SessionStep, sessionVars


-----------------------------------------------------------------------------
(* The theorems.                                                           *)

SessionInv == AccountOK /\ RowsInv /\ ScreenInv

LEMMA SessionInductive == Spec => []SessionInv
<1>1. Init => SessionInv
  BY RowsStart, ScreenStart DEF SessionInv
<1>2. SessionInv /\ [SessionStep]_sessionVars => SessionInv'
  <2> SUFFICES ASSUME SessionInv, [SessionStep]_sessionVars PROVE SessionInv'
    OBVIOUS
  <2>1. \A e \in Events : event[e].user \in People
    BY DEF SessionInv, AccountOK
  <2> QED
    BY <2>1, RowsStep, ScreenStep DEF SessionInv, AccountOK, RowsInv, RowsTypeOK
<1> QED
  BY <1>1, <1>2, PTL DEF Spec

(* App.tsx:750-777.  In every reachable state the farmer on screen sees     *)
(* nobody else's rows but those an answer for somebody else crossed with.   *)
THEOREM FarmersSeeTheirOwn == Spec => []OnlyOwnRows
BY SessionInductive, RowsImply, PTL DEF SessionInv

(* App.tsx:719-748.  In every reachable state what the Operations Desk      *)
(* takes for loaded is one complete answer to its administrator.            *)
THEOREM AvailableRowsAreFresh == Spec => []DeskIsFresh
BY SessionInductive, RowsImply, PTL DEF SessionInv

(* SetPasswordPage.tsx:40-109.  In every reachable state before another tab *)
(* interferes, the password that was set is that of the account the link names.                      *)
THEOREM PasswordIsTheSubjects == Spec => []PasswordSetForSubject
<1>1. SessionInv => PasswordSetForSubject
  BY DEF SessionInv, ScreenInv, PasswordSetForSubject
<1> QED
  BY SessionInductive, <1>1, PTL

(* A page that is turned to is one the guard grants. *)
LEMMA ArrivalStep ==
  ASSUME SessionInv, SessionStep, page' # page
  PROVE  \/ resolveNavigationTarget(page', RoleOf(profile')) = page'
         \/ saving # Nobody /\ saving' = Nobody /\ saving # profile
<1> USE DEF SessionInv
<1>1. ASSUME NEW p \in People, AuthCallback(p)
      PROVE  resolveNavigationTarget(page', RoleOf(profile')) = page'
  <2>1. PICK q : setPage(q) /\ profile' = p /\ resolveNavigationTarget(q, RoleOf(p)) = q
    BY <1>1, AuthCallbackPage DEF ScreenInv
  <2>2. page' = q /\ RoleOf(profile') = RoleOf(p)
    BY <2>1 DEF setPage, RoleOf
  <2> QED
    BY <2>1, <2>2
<1>2. CASE AccountService
  <2>1. \E p \in People : AuthCallback(p)
    <3>1. session \in People /\ Nobody \in People /\ \A e \in Events : event[e].user \in People
      BY DEF AccountOK, People
    <3> QED
      BY <1>2, <3>1 DEF AccountService, Exchange, InitialSession, TokenRefreshed, OtherTab,
         attemptProfileLookup, DeliverProfile, LookupFails, Notify, where
  <2> QED
    BY <1>1, <2>1
<1>3. CASE Person
  <2>1. PICK p \in Visited : goTo(p) \/ handlePopState(p)
    BY <1>3 DEF Person, SignIn, ClickSignOut, SubmitFarm, SubmitPassword, where
  <2>2. RoleOf(profile) \in Roles \cup {"none"} /\ profile' = profile
    BY <2>1, RolesOfPeople DEF RowsInv, RowsTypeOK, goTo, handlePopState, Turn, who
  <2>3. \E q : page' = resolveNavigationTarget(q, RoleOf(profile)) \/ page' = "landing"
    BY <2>1 DEF goTo, handlePopState, Turn, setPage, role
  <2>4. resolveNavigationTarget(page', RoleOf(profile)) = page'
    BY <2>2, <2>3, GuardIsIdempotent, HomesAreGranted
  <2> QED
    BY <2>2, <2>4 DEF RoleOf
<1>4. CASE handleLoginSuccess
  <2>1. PICK u \in {session, Nobody} :
           /\ resolvePostLoginDecision(RoleOf(u)) # "denied"
           /\ profile' = u /\ page' = resolvePostLoginDecision(RoleOf(u))
    BY <1>4 DEF handleLoginSuccess, setCurrentProfile, setPage, where
  <2>2. RoleOf(u) \in Roles \cup {"none"} /\ RoleOf(profile') = RoleOf(u)
    BY <2>1, RolesOfPeople DEF AccountOK, People, RoleOf
  <2> QED
    BY <2>1, <2>2, HomesAreGranted
<1>5. CASE signOut
  <2>1. profile' = Nobody /\ page' \in {"landing", "login"}
    BY <1>5 DEF signOut, setPage
  <2>2. RoleOf(profile') \in Roles \cup {"none"}
    BY <2>1 DEF RoleOf
  <2> QED
    BY <2>1, <2>2, HomesAreGranted
<1>6. CASE handleFarmSubmit
  <2>1. saving \in Farmers /\ saving' = Nobody
    BY <1>6 DEF handleFarmSubmit, RowsInv, RowsTypeOK
  <2>2. CASE saving = profile
    <3>1. profile' = profile /\ page' = resolveNavigationTarget("farmer-status", RoleOf(saving))
      BY <1>6, Zenon DEF handleFarmSubmit, setPage, where, who
    <3>2. RoleOf(saving) = "farmer" /\ RoleOf(profile') = "farmer"
      BY <2>1, <2>2, <3>1, RolesOfPeople DEF RoleOf, RowsInv, RowsTypeOK
    <3> QED
      BY <3>1, <3>2, HomesAreGranted DEF Roles
  <2> QED
    BY <2>1, <2>2, RolesOfPeople
<1>7. CASE handleSetPasswordComplete \/ CheckLink \/ BootTimeout \/ Loads
  BY <1>7 DEF handleSetPasswordComplete, CheckLink, BootTimeout, Loads, FarmerLoad, AdminLoad,
     RequestsLoad, where
<1> QED
  BY <1>2, <1>3, <1>4, <1>5, <1>6, <1>7 DEF SessionStep

(* navigationGuard.ts.  Every step to another page is to one the guard      *)
(* grants, or the answer to a form whose author is no longer on screen.     *)
THEOREM ArrivalsAreAdmitted == Spec => ArrivalsAdmitted
<1>1. SessionInv /\ [SessionStep]_sessionVars =>
        [page' # page => \/ resolveNavigationTarget(page', RoleOf(profile')) = page'
                         \/ saving # Nobody /\ saving' = Nobody /\ saving # profile]_sessionVars
  BY ArrivalStep
<1> QED
  BY SessionInductive, <1>1, PTL DEF Spec, ArrivalsAdmitted


-----------------------------------------------------------------------------
(* The farmer's forms.                                                     *)

(* From a draft, a farms table and bounds. *)
FormsSpec(saved, table, bounds) ==
  FormsStart(saved, table, bounds) /\ [][FormsStep]_formsVars

(* A farms table. *)
IsTable(table) ==
  /\ table = [id \in DOMAIN table |-> table[id]]
  /\ \A id \in DOMAIN table : table[id] = [status |-> table[id].status, name |-> table[id].name]

StatusInv ==
  /\ IsTable(farmRows)
  /\ decided = [id \in DOMAIN farmRows |-> farmRows[id].status]

(* A save writes what the guard lets through, under an id new or old. *)
LEMMA ArriveSaveStatus == StatusInv /\ ArriveSave => StatusInv'
<1> SUFFICES ASSUME StatusInv, ArriveSave PROVE StatusInv'
  OBVIOUS
<1> USE DEF StatusInv, IsTable
<1>0. PICK u \in upserts :
        \/ /\ farmRows' = [i \in DOMAIN farmRows \cup {u.id} |->
                   IF i = u.id THEN fn_protect_farm_admin_fields(u) ELSE farmRows[i]]
           /\ decided' = [i \in DOMAIN farmRows \cup {u.id} |->
                   IF Exists(i) THEN decided[i] ELSE "Submitted to DDP"]
        \/ UNCHANGED <<farmRows, decided>>
  BY DEF ArriveSave
<1>1. CASE UNCHANGED <<farmRows, decided>>
  BY <1>1
<1>2. CASE /\ farmRows' = [i \in DOMAIN farmRows \cup {u.id} |->
                   IF i = u.id THEN fn_protect_farm_admin_fields(u) ELSE farmRows[i]]
           /\ decided' = [i \in DOMAIN farmRows \cup {u.id} |->
                   IF Exists(i) THEN decided[i] ELSE "Submitted to DDP"]
  <2> DEFINE saved == fn_protect_farm_admin_fields(u)
  <2>1. /\ saved = [status |-> saved.status, name |-> saved.name]
        /\ saved.status = IF Exists(u.id) THEN farmRows[u.id].status ELSE "Submitted to DDP"
    BY DEF fn_protect_farm_admin_fields
  <2> HIDE DEF saved
  <2>2. /\ DOMAIN farmRows' = DOMAIN farmRows \cup {u.id}
        /\ \A i \in DOMAIN farmRows' : farmRows'[i] = IF i = u.id THEN saved ELSE farmRows[i]
        /\ farmRows' = [i \in DOMAIN farmRows' |-> farmRows'[i]]
    BY <1>2 DEF saved
  <2>3. \A i \in DOMAIN farmRows' : farmRows'[i] = [status |-> farmRows'[i].status, name |-> farmRows'[i].name]
    BY <2>1, <2>2
  <2>4. \A i \in DOMAIN farmRows' : decided'[i] = farmRows'[i].status
    BY <1>2, <2>1, <2>2 DEF Exists
  <2>5. decided' = [i \in DOMAIN farmRows' |-> decided'[i]]
    <3> DEFINE ids == DOMAIN farmRows \cup {u.id}
               was(i) == IF Exists(i) THEN decided[i] ELSE "Submitted to DDP"
    <3>1. decided' = [i \in ids |-> was(i)] /\ DOMAIN farmRows' = ids
      BY <1>2, <2>2
    <3> HIDE DEF ids, was
    <3> QED
      BY <3>1
  <2>6. decided' = [i \in DOMAIN farmRows' |-> farmRows'[i].status]
    BY <2>4, <2>5
  <2> QED
    BY <2>2, <2>3, <2>6
<1> QED
  BY <1>0, <1>1, <1>2

LEMMA DecidesStatus == StatusInv /\ AdministratorDecides => StatusInv'
<1> SUFFICES ASSUME StatusInv, AdministratorDecides PROVE StatusInv'
  OBVIOUS
<1> USE DEF StatusInv, IsTable
<1>0. PICK id \in DOMAIN farmRows, s \in Decisions :
        /\ farmRows' = [farmRows EXCEPT ![id].status = s]
        /\ decided' = [decided EXCEPT ![id] = s]
  BY DEF AdministratorDecides
<1>1. farmRows[id] = [status |-> farmRows[id].status, name |-> farmRows[id].name]
  OBVIOUS
<1>2. [farmRows[id] EXCEPT !.status = s] = [status |-> s, name |-> farmRows[id].name]
  BY <1>1
<1>3. /\ DOMAIN farmRows' = DOMAIN farmRows /\ farmRows' = [i \in DOMAIN farmRows' |-> farmRows'[i]]
      /\ farmRows'[id] = [status |-> s, name |-> farmRows[id].name]
      /\ \A i \in DOMAIN farmRows : i # id => farmRows'[i] = farmRows[i]
  BY <1>0, <1>2
<1>4. \A i \in DOMAIN farmRows' : farmRows'[i] = [status |-> farmRows'[i].status, name |-> farmRows'[i].name]
  BY <1>3
<1>5. \A i \in DOMAIN farmRows' : decided'[i] = farmRows'[i].status
  BY <1>0, <1>3
<1>6. decided' = [i \in DOMAIN farmRows' |-> decided'[i]]
  BY <1>0, <1>3
<1> QED
  BY <1>3, <1>4, <1>5, <1>6

(* 19:107-167, fn_protect_farm_admin_fields.  From any farms table, in      *)
(* every reachable state the status of a farm is the one an administrator   *)
(* gave it last.                                                            *)
THEOREM StatusStaysTheirs ==
  ASSUME NEW saved, NEW table, NEW bounds, IsTable(table)
  PROVE  FormsSpec(saved, table, bounds) => []StatusIsTheAdministrators
<1>1. FormsStart(saved, table, bounds) => StatusInv
  BY DEF FormsStart, StatusInv, IsTable
<1>2. StatusInv /\ [FormsStep]_formsVars => StatusInv'
  <2> SUFFICES ASSUME StatusInv, [FormsStep]_formsVars PROVE StatusInv'
    OBVIOUS
  <2>1. CASE UNCHANGED <<farmRows, decided>>
    BY <2>1 DEF StatusInv, IsTable
  <2>2. ArriveSave \/ AdministratorDecides \/ UNCHANGED <<farmRows, decided>>
    BY DEF FormsStep, formsVars, farmVars, OpenWizard, TypeField, handleLicenceChange, handleSaveDraft,
       handleContinueLater, handleNext, GoToStep, GoToIssue, Go, LeavePage, handleFinalSubmit, AnswerSave,
       ReloadFarms, OpenAdvanced, setAdvanced, handleSave, OpenStockForm, TypeStockField, ChooseCoa,
       handleCoaFile, handlePhotoFile, PhotoRead, RemovePhoto, handleSaveDraftStock, handleSubmit,
       SubmitAnswered, StockStep, Hand
  <2> QED
    BY <2>1, <2>2, ArriveSaveStatus, DecidesStatus
<1>3. StatusInv => StatusIsTheAdministrators
  BY DEF StatusInv, StatusIsTheAdministrators
<1> QED
  BY <1>1, <1>2, <1>3, PTL DEF FormsSpec


(* The application: a form that was filled in, step by step, from a draft. *)
IsApplication(f) ==
  /\ DOMAIN f = DOMAIN BLANK /\ f = [n \in DOMAIN f |-> f[n]]
  /\ f["qtyAvailableNow"] \in Figures

IsWizard(w) ==
  /\ w = [open |-> w.open, step |-> w.step, form |-> w.form, licence |-> w.licence,
          issues |-> w.issues, warningsSeen |-> w.warningsSeen]
  /\ IsApplication(w.form) /\ w.licence.type \in 0..6
  /\ w.licence = [type |-> w.licence.type, number |-> w.licence.number, doc |-> w.licence.doc]
  /\ w.warningsSeen \in BOOLEAN

(* What a farmer has acknowledged is the warning about the figures on the   *)
(* screen.                                                                  *)
ApplicationInv ==
  /\ draft # Empty => IsApplication(draft)
  /\ IsWizard(wizard)
  /\ wizard.warningsSeen => warnings(wizard.form) \subseteq warnedOf
  /\ SubmittedFarmIsSound

LEMMA BlankIsAnApplication ==
  /\ IsApplication(BLANK) /\ IsWizard(NoWizard) /\ NoWizard.warningsSeen = FALSE
  /\ {"email", "mobileNumber", "typicalThc", "typicalCbd", "qtyAvailableNow"} \subseteq DOMAIN BLANK
<1>1. IsApplication(BLANK)
  BY FormsAssumption DEF IsApplication, BLANK, Figures
<1>2. {"email", "mobileNumber", "typicalThc", "typicalCbd", "qtyAvailableNow"} \subseteq DOMAIN BLANK
  BY FormsAssumption DEF BLANK
<1> HIDE DEF BLANK
<1>3. NoWizard = [open |-> FALSE, step |-> 1, form |-> BLANK, licence |-> NoLicence,
                  issues |-> {}, warningsSeen |-> FALSE]
  BY DEF NoWizard
<1>4. NoLicence.type = 0 /\ NoLicence = [type |-> NoLicence.type, number |-> NoLicence.number, doc |-> NoLicence.doc]
  BY DEF NoLicence
<1>5. IsWizard(NoWizard) /\ NoWizard.warningsSeen = FALSE
  BY <1>1, <1>3, <1>4 DEF IsWizard
<1> QED
  BY <1>1, <1>2, <1>5

LEMMA EditKeepsWizard ==
  ASSUME NEW w, IsWizard(w), NEW n, NEW v, n = "qtyAvailableNow" => v \in Figures
  PROVE  IsWizard(set(w, n, v)) /\ set(w, n, v).warningsSeen = FALSE
<1>1. set(w, n, v) = [open |-> w.open, step |-> w.step, form |-> [w.form EXCEPT ![n] = v],
                      licence |-> w.licence, issues |-> w.issues, warningsSeen |-> FALSE]
  <2>1. w \in [open : {w.open}, step : {w.step}, form : {w.form}, licence : {w.licence},
               issues : {w.issues}, warningsSeen : {w.warningsSeen}]
    BY DEF IsWizard
  <2> DEFINE g == [w.form EXCEPT ![n] = v]
  <2>2. set(w, n, v) = [w EXCEPT !.form = g, !.warningsSeen = FALSE]
    BY <2>1 DEF set
  <2> HIDE DEF g
  <2>3. set(w, n, v) = [open |-> w.open, step |-> w.step, form |-> g, licence |-> w.licence,
                        issues |-> w.issues, warningsSeen |-> FALSE]
    BY <2>1, <2>2
  <2> QED
    BY <2>3 DEF g
<1>2. IsApplication([w.form EXCEPT ![n] = v])
  BY DEF IsWizard, IsApplication
<1> HIDE DEF set
<1>3. set(w, n, v).form = [w.form EXCEPT ![n] = v] /\ set(w, n, v).licence = w.licence
      /\ set(w, n, v).open = w.open /\ set(w, n, v).step = w.step
      /\ set(w, n, v).issues = w.issues /\ set(w, n, v).warningsSeen = FALSE
  BY <1>1
<1> QED
  BY <1>1, <1>2, <1>3 DEF IsWizard

(* 1. A form without a blocking issue, its warning seen if it has one, is   *)
(* one DDP can use.                                                         *)
LEMMA UnblockedIsSound ==
  ASSUME NEW f, IsApplication(f), blockingIssues(validateFarmProfile(f)) = {},
         validateFarmProfile(f) = {} \/ warnings(f) \subseteq warnedOf
  PROVE  /\ \A n \in {"tradingName", "province", "primaryContact"} : f[n] # Empty
         /\ \E n \in {"email", "mobileNumber", "lineId"} : f[n] # Empty
         /\ f["email"] \notin Odd /\ f["mobileNumber"] \notin Odd
         /\ \A n \in PERCENT_FIELDS : f[n] = Empty \/ f[n] \in 0..100
         /\ f["qtyAvailableNow"] = Empty \/ f["qtyAvailableNow"] >= 0
         /\ (\A n \in PERCENT_FIELDS : f[n] # Empty)
               => \/ f["typicalThc"] + f["typicalCbd"] <= 100
                  \/ <<f["typicalThc"], f["typicalCbd"]>> \in warnedOf
<1> DEFINE found == validateFarmProfile(f)
<1>1. \A i \in found : i.code = "cannabinoids-implausible"
  BY DEF blockingIssues, Warning
<1>2. \A n, code : issue(n, code).code = code
  BY DEF issue
<1>3. /\ \A n \in REQUIRED_FIELDS : ~filled(f, n) => issue(n, "required") \in found
      /\ (\A n \in CONTACT_FIELDS : ~filled(f, n)) => issue("email", "contact-required") \in found
      /\ \A n \in {"email", "mobileNumber"} : text(f, n) \in Odd => issue(n, "invalid") \in found
      /\ figureIssues(f) \subseteq found
      /\ (\A n \in PERCENT_FIELDS : isNumber(f, n)) /\ text(f, "typicalThc") + text(f, "typicalCbd") > 100
            => issue("typicalThc", "cannabinoids-implausible") \in found
  BY DEF validateFarmProfile
<1>4. /\ \A n \in NON_NEGATIVE_FIELDS \cup PERCENT_FIELDS :
            filled(f, n) /\ ~isNumber(f, n) => issue(n, "not-a-number") \in figureIssues(f)
      /\ \A n \in NON_NEGATIVE_FIELDS : isNumber(f, n) /\ text(f, n) < 0 => issue(n, "negative") \in figureIssues(f)
      /\ \A n \in PERCENT_FIELDS : isNumber(f, n) /\ text(f, n) \notin 0..100
            => issue(n, "percent-out-of-range") \in figureIssues(f)
  BY DEF figureIssues
<1> HIDE DEF found
<1>5. \A n : filled(f, n) => f[n] # Empty /\ text(f, n) = f[n]
  BY DEF filled, text
<1>6. \A n \in DOMAIN BLANK : text(f, n) = f[n] /\ (filled(f, n) <=> f[n] # Empty)
  BY DEF filled, text, IsApplication
<1>7. \A n \in {"tradingName", "province", "primaryContact"} : f[n] # Empty
  BY <1>1, <1>2, <1>3, <1>5 DEF REQUIRED_FIELDS
<1>8. \E n \in {"email", "mobileNumber", "lineId"} : f[n] # Empty
  BY <1>1, <1>2, <1>3, <1>5 DEF CONTACT_FIELDS
<1>9. f["email"] \notin Odd /\ f["mobileNumber"] \notin Odd
  BY <1>1, <1>2, <1>3, <1>6, BlankIsAnApplication
<1>10. \A n \in PERCENT_FIELDS : f[n] = Empty \/ (isNumber(f, n) /\ f[n] \in 0..100)
  <2>1. PERCENT_FIELDS \subseteq DOMAIN BLANK
    BY BlankIsAnApplication DEF PERCENT_FIELDS
  <2> QED
    BY <1>1, <1>2, <1>3, <1>4, <1>6, <2>1
<1>11. f["qtyAvailableNow"] = Empty \/ f["qtyAvailableNow"] >= 0
  <2>1. "qtyAvailableNow" \in NON_NEGATIVE_FIELDS /\ "qtyAvailableNow" \in DOMAIN BLANK
    BY BlankIsAnApplication DEF NON_NEGATIVE_FIELDS
  <2>2. f["qtyAvailableNow"] # Empty => isNumber(f, "qtyAvailableNow")
    BY <1>1, <1>2, <1>3, <1>4, <1>6, <2>1
  <2>3. f["qtyAvailableNow"] # Empty => f["qtyAvailableNow"] \in Int /\ ~(f["qtyAvailableNow"] < 0)
    BY <1>1, <1>2, <1>3, <1>4, <1>6, <2>1, <2>2 DEF isNumber, IsApplication, Figures
  <2> QED
    BY <2>3
<1>12. (\A n \in PERCENT_FIELDS : f[n] # Empty)
          => \/ f["typicalThc"] + f["typicalCbd"] <= 100
             \/ <<f["typicalThc"], f["typicalCbd"]>> \in warnedOf
  <2> SUFFICES ASSUME \A n \in PERCENT_FIELDS : f[n] # Empty, ~(f["typicalThc"] + f["typicalCbd"] <= 100)
               PROVE  <<f["typicalThc"], f["typicalCbd"]>> \in warnedOf
    OBVIOUS
  <2>1. /\ text(f, "typicalThc") = f["typicalThc"] /\ text(f, "typicalCbd") = f["typicalCbd"]
        /\ f["typicalThc"] \in 0..100 /\ f["typicalCbd"] \in 0..100
        /\ \A n \in PERCENT_FIELDS : isNumber(f, n)
    BY <1>6, <1>10, BlankIsAnApplication DEF PERCENT_FIELDS
  <2>2. found # {}
    BY <1>3, <2>1
  <2> QED
    BY <2>1, <2>2 DEF warnings, found
<1> QED
  BY <1>7, <1>8, <1>9, <1>10, <1>11, <1>12

LEMMA OpenWizardKeeps == ApplicationInv /\ OpenWizard => ApplicationInv'
<1> SUFFICES ASSUME ApplicationInv, OpenWizard PROVE ApplicationInv'
  OBVIOUS
<1> DEFINE saved == IF draft = Empty THEN BLANK ELSE draft
           start == prefilled(saved)
<1>1. IsApplication(start)
  <2>1. IsApplication(saved)
    BY BlankIsAnApplication DEF ApplicationInv
  <2> HIDE DEF saved
  <2> QED
    BY <2>1, FormsAssumption, BlankIsAnApplication DEF IsApplication, prefilled
<1>2. wizard' = [NoWizard EXCEPT !.open = TRUE, !.form = start, !.licence = licenceOf(start)]
      /\ UNCHANGED applicationVars
  BY DEF OpenWizard
<1>3. licenceOf(start).type \in 0..6
      /\ licenceOf(start) = [type |-> licenceOf(start).type, number |-> licenceOf(start).number,
                             doc |-> licenceOf(start).doc]
  <2> HIDE DEF start
  <2>1. detectLicenceType(start) \in 0..6
    <3> DEFINE S == {t \in DOMAIN LICENCE_TYPE_FIELDS : filled(start, LICENCE_TYPE_FIELDS[t])}
    <3>1. S \subseteq 1..6
      BY DEF LICENCE_TYPE_FIELDS
    <3> DEFINE c == CHOOSE t \in S : \A u \in S : t <= u
    <3>2. detectLicenceType(start) = IF S = {} THEN 0 ELSE c
      BY DEF detectLicenceType
    <3> HIDE DEF S
    <3>3. S # {} => \E t \in S : \A u \in S : t <= u
      <4>1. \A t \in S : t \in {1, 2, 3, 4, 5, 6}
        BY <3>1
      <4>2. CASE 1 \in S
        BY <4>1, <4>2
      <4>3. CASE 1 \notin S /\ 2 \in S
        BY <4>1, <4>3
      <4>4. CASE 1 \notin S /\ 2 \notin S /\ 3 \in S
        BY <4>1, <4>4
      <4>5. CASE 1 \notin S /\ 2 \notin S /\ 3 \notin S /\ 4 \in S
        BY <4>1, <4>5
      <4>6. CASE 1 \notin S /\ 2 \notin S /\ 3 \notin S /\ 4 \notin S
        BY <4>1, <4>6
      <4> QED
        BY <4>2, <4>3, <4>4, <4>5, <4>6
    <3>4. S # {} => c \in S
      BY <3>3, Zenon
    <3> HIDE DEF c
    <3>5. 1..6 \subseteq 0..6 /\ 0 \in 0..6
      OBVIOUS
    <3>6. CASE S = {}
      BY <3>2, <3>5, <3>6, Zenon
    <3>7. CASE S # {}
      BY <3>1, <3>2, <3>4, <3>5, <3>7, Zenon
    <3> QED
      BY <3>6, <3>7
  <2> QED
    BY <2>1 DEF licenceOf, NoLicence, splitLicenceValue
<1> HIDE DEF start
<1>4. IsWizard(wizard') /\ wizard'.warningsSeen = FALSE
  <2> DEFINE l == licenceOf(start)
  <2>1. wizard' = [open |-> TRUE, step |-> 1, form |-> start, licence |-> l, issues |-> {}, warningsSeen |-> FALSE]
    BY <1>2 DEF NoWizard
  <2> HIDE DEF l
  <2> QED
    BY <1>1, <1>3, <2>1 DEF IsWizard, l
<1> QED
  BY <1>2, <1>4 DEF ApplicationInv, applicationVars, SubmittedFarmIsSound, IsWizard


LEMMA EditsKeep == ApplicationInv /\ (TypeField \/ handleLicenceChange) => ApplicationInv'
<1> SUFFICES ASSUME ApplicationInv, TypeField \/ handleLicenceChange PROVE ApplicationInv'
  OBVIOUS
<1>1. UNCHANGED applicationVars
  BY DEF TypeField, handleLicenceChange
<1>2. ASSUME IsWizard(wizard'), wizard'.warningsSeen => wizard.warningsSeen /\ wizard'.form = wizard.form
      PROVE  ApplicationInv'
  BY <1>1, <1>2 DEF ApplicationInv, applicationVars, SubmittedFarmIsSound, warnings, text
<1>3. CASE TypeField
  <2>1. PICK n \in EarlyPanels(wizard.step) \cup LatePanels(wizard.step) :
          n \in DOMAIN Typed /\ \E v \in Typed[n] : wizard' = set(wizard, n, v)
    BY <1>3 DEF TypeField
  <2>2. PICK v \in Typed[n] : wizard' = set(wizard, n, v)
    BY <2>1
  <2>3. n = "qtyAvailableNow" => v \in Figures
    BY <2>2, FormsAssumption
  <2>4. IsWizard(wizard') /\ wizard'.warningsSeen = FALSE
    <3>1. IsWizard(wizard)
      BY DEF ApplicationInv
    <3>2. IsWizard(set(wizard, n, v)) /\ set(wizard, n, v).warningsSeen = FALSE
      BY <2>3, <3>1, EditKeepsWizard
    <3> QED
      BY <2>2, <3>2
  <2> QED
    BY <1>2, <2>4
<1>4. ASSUME NEW l, wizard' = commitLicence(wizard, l), l.type \in 0..6,
             l = [type |-> l.type, number |-> l.number, doc |-> l.doc]
      PROVE  ApplicationInv'
  <2> DEFINE w2 == [wizard EXCEPT !.licence = l]
  <2>1. wizard \in [open : {wizard.open}, step : {wizard.step}, form : {wizard.form}, licence : {wizard.licence},
                    issues : {wizard.issues}, warningsSeen : {wizard.warningsSeen}]
    BY DEF ApplicationInv, IsWizard
  <2>2. w2 = [open |-> wizard.open, step |-> wizard.step, form |-> wizard.form, licence |-> l,
              issues |-> wizard.issues, warningsSeen |-> wizard.warningsSeen]
    BY <2>1
  <2>3. IsWizard(w2) /\ w2.form = wizard.form /\ w2.warningsSeen = wizard.warningsSeen
    <3>1. IsApplication(wizard.form) /\ wizard.warningsSeen \in BOOLEAN
      BY DEF ApplicationInv, IsWizard
    <3> HIDE DEF w2
    <3> QED
      BY <1>4, <2>2, <3>1 DEF IsWizard
  <2>4. wizard' = IF l.type = 0 THEN w2
                  ELSE set(w2, LICENCE_TYPE_FIELDS[l.type], combineLicenceValue(l.number, l.doc))
    BY <1>4 DEF commitLicence
  <2> HIDE DEF w2
  <2>5. l.type # 0 => LICENCE_TYPE_FIELDS[l.type] # "qtyAvailableNow"
    BY <1>4 DEF LICENCE_TYPE_FIELDS
  <2> QED
    BY <1>2, <2>3, <2>4, <2>5, EditKeepsWizard
<1>5. CASE handleLicenceChange
  <2>1. wizard.licence \in [type : 0..6, number : {wizard.licence.number}, doc : {wizard.licence.doc}]
    BY DEF ApplicationInv, IsWizard
  <2>2. PICK l : /\ wizard' = commitLicence(wizard, l)
                 /\ \/ \E t \in {0, 1, 4} : l = [wizard.licence EXCEPT !.type = t]
                    \/ \E v \in Licences : \/ l = [wizard.licence EXCEPT !.number = v]
                                           \/ l = [wizard.licence EXCEPT !.doc = v]
    BY <1>5 DEF handleLicenceChange
  <2>3. l.type \in 0..6 /\ l = [type |-> l.type, number |-> l.number, doc |-> l.doc]
    BY <2>1, <2>2
  <2> QED
    BY <1>4, <2>2, <2>3
<1> QED
  BY <1>3, <1>5

(* Steps that keep the answers, or leave them. *)
LEMMA TurningKeeps ==
  ASSUME ApplicationInv, draft' \in {draft, wizard.form}, UNCHANGED <<warnedOf, handed>>,
         wizard' \in {wizard, NoWizard} \/ \E n : wizard' = [wizard EXCEPT !.step = n]
  PROVE  ApplicationInv'
<1>1. CASE wizard' \in {wizard, NoWizard}
  BY <1>1, BlankIsAnApplication DEF ApplicationInv, IsWizard, SubmittedFarmIsSound, warnings, text
<1>2. CASE \E n : wizard' = [wizard EXCEPT !.step = n]
  <2>1. PICK n : wizard' = [wizard EXCEPT !.step = n]
    BY <1>2
  <2>2. wizard \in [open : {wizard.open}, step : {wizard.step}, form : {wizard.form}, licence : {wizard.licence},
                    issues : {wizard.issues}, warningsSeen : {wizard.warningsSeen}]
    BY DEF ApplicationInv, IsWizard
  <2>3. wizard' = [open |-> wizard.open, step |-> n, form |-> wizard.form, licence |-> wizard.licence,
                   issues |-> wizard.issues, warningsSeen |-> wizard.warningsSeen]
    BY <2>1, <2>2
  <2>4. IsWizard(wizard') /\ wizard'.form = wizard.form /\ wizard'.warningsSeen = wizard.warningsSeen
    BY <2>3 DEF ApplicationInv, IsWizard
  <2> QED
    BY <2>4 DEF ApplicationInv, IsWizard, SubmittedFarmIsSound, warnings, text
<1> QED
  BY <1>1, <1>2

LEMMA SubmitKeeps == ApplicationInv /\ handleFinalSubmit => ApplicationInv'
<1> SUFFICES ASSUME ApplicationInv, handleFinalSubmit PROVE ApplicationInv'
  OBVIOUS
<1> DEFINE found == validateFarmProfile(wizard.form)
           w == [wizard EXCEPT !.issues = found]
           Seen == /\ draft' = draft /\ handed' = handed
                   /\ wizard' = w \/ (wizard' = [w EXCEPT !.warningsSeen = TRUE] /\ warnings(wizard.form) \subseteq warnedOf')
                   /\ warnedOf \subseteq warnedOf'
           Handed == /\ blockingIssues(found) = {} /\ (found = {} \/ wizard.warningsSeen)
                     /\ wizard' = w /\ draft' = Empty /\ warnedOf' = warnedOf
                     /\ \E id : handed' = handed \cup {[id |-> id, form |-> wizard.form]}
<1>1. Seen \/ Handed
  BY DEF handleFinalSubmit, applicationVars
<1>2. wizard \in [open : {wizard.open}, step : {wizard.step}, form : {wizard.form}, licence : {wizard.licence},
                  issues : {wizard.issues}, warningsSeen : {wizard.warningsSeen}]
  BY DEF ApplicationInv, IsWizard
<1>3. IsApplication(wizard.form)
  BY DEF ApplicationInv, IsWizard
<1> HIDE DEF found
<1>4. ASSUME NEW seen \in BOOLEAN, wizard' = [w EXCEPT !.warningsSeen = seen]
      PROVE  IsWizard(wizard') /\ wizard'.form = wizard.form /\ wizard'.warningsSeen = seen
  <2>1. wizard' = [open |-> wizard.open, step |-> wizard.step, form |-> wizard.form,
                   licence |-> wizard.licence, issues |-> found, warningsSeen |-> seen]
    BY <1>2, <1>4
  <2> QED
    BY <2>1 DEF ApplicationInv, IsWizard
<1>5. wizard' = w => IsWizard(wizard') /\ wizard'.form = wizard.form /\ wizard'.warningsSeen = wizard.warningsSeen
  <2> SUFFICES ASSUME wizard' = w
               PROVE  IsWizard(wizard') /\ wizard'.form = wizard.form /\ wizard'.warningsSeen = wizard.warningsSeen
    OBVIOUS
  <2>1. wizard' = [open |-> wizard.open, step |-> wizard.step, form |-> wizard.form,
                   licence |-> wizard.licence, issues |-> found, warningsSeen |-> wizard.warningsSeen]
    BY <1>2
  <2> QED
    BY <2>1 DEF ApplicationInv, IsWizard
<1> HIDE DEF w
<1>6. CASE Seen
  <2>1. IsWizard(wizard') /\ (wizard'.warningsSeen => warnings(wizard'.form) \subseteq warnedOf')
    <3>1. wizard' = [w EXCEPT !.warningsSeen = TRUE] => IsWizard(wizard') /\ wizard'.form = wizard.form
      BY <1>4
    <3> QED
      BY <1>5, <1>6, <3>1 DEF ApplicationInv, warnings, text
  <2>2. SubmittedFarmIsSound'
    BY <1>6 DEF ApplicationInv, SubmittedFarmIsSound
  <2> QED
    BY <1>6, <2>1, <2>2 DEF ApplicationInv
<1>7. CASE Handed
  <2>1. PICK id : handed' = handed \cup {[id |-> id, form |-> wizard.form]}
    BY <1>7
  <2>2. found = {} \/ warnings(wizard.form) \subseteq warnedOf
    BY <1>7 DEF ApplicationInv
  <2>3. SubmittedFarmIsSound'
    <3> DEFINE h == [id |-> id, form |-> wizard.form]
    <3>1. h.form = wizard.form
      OBVIOUS
    <3>2. handed' = handed \cup {h} /\ warnedOf' = warnedOf
      BY <1>7, <2>1
    <3> HIDE DEF h
    <3> DEFINE Sound(g) ==
           /\ \A f \in {"tradingName", "province", "primaryContact"} : g[f] # Empty
           /\ \E f \in {"email", "mobileNumber", "lineId"} : g[f] # Empty
           /\ g["email"] \notin Odd /\ g["mobileNumber"] \notin Odd
           /\ \A f \in PERCENT_FIELDS : g[f] = Empty \/ g[f] \in 0..100
           /\ g["qtyAvailableNow"] = Empty \/ g["qtyAvailableNow"] >= 0
           /\ (\A f \in PERCENT_FIELDS : g[f] # Empty)
                 => \/ g["typicalThc"] + g["typicalCbd"] <= 100
                    \/ <<g["typicalThc"], g["typicalCbd"]>> \in warnedOf
    <3>3. Sound(wizard.form)
      BY <1>3, <1>7, <2>2, UnblockedIsSound DEF found
    <3>4. \A x \in handed : Sound(x.form)
      BY DEF ApplicationInv, SubmittedFarmIsSound
    <3>5. (\A x \in handed' : Sound(x.form)) => SubmittedFarmIsSound'
      BY <3>2 DEF SubmittedFarmIsSound
    <3> HIDE DEF Sound
    <3> QED
      BY <3>1, <3>2, <3>3, <3>4, <3>5
  <2> QED
    BY <1>5, <1>7, <2>3 DEF ApplicationInv, warnings, text
<1> QED
  BY <1>1, <1>6, <1>7

(* FarmerOnboarding.tsx:245-284.  From any draft, every application handed  *)
(* over is one DDP can use, and was acknowledged with exactly the           *)
(* cannabinoids it claims.                                                  *)
THEOREM ApplicationsAreSound ==
  ASSUME NEW saved, NEW table, NEW bounds, saved # Empty => IsApplication(saved)
  PROVE  FormsSpec(saved, table, bounds) => []SubmittedFarmIsSound
<1>1. FormsStart(saved, table, bounds) => ApplicationInv
  BY BlankIsAnApplication DEF FormsStart, ApplicationInv, SubmittedFarmIsSound
<1>2. ApplicationInv /\ [FormsStep]_formsVars => ApplicationInv'
  <2> SUFFICES ASSUME ApplicationInv, [FormsStep]_formsVars PROVE ApplicationInv'
    OBVIOUS
  <2> DEFINE Turned == /\ draft' \in {draft, wizard.form} /\ UNCHANGED <<warnedOf, handed>>
                       /\ wizard' \in {wizard, NoWizard} \/ \E n : wizard' = [wizard EXCEPT !.step = n]
  <2>1. UNCHANGED <<wizard, applicationVars>> => Turned
    BY DEF applicationVars
  <2>2. handleSaveDraft \/ handleContinueLater \/ handleNext => Turned
    BY DEF handleSaveDraft, handleContinueLater, handleNext, saveFarmDraft, LeaveWizard
  <2>3. GoToStep \/ GoToIssue \/ LeavePage \/ AnswerSave \/ ReloadFarms => Turned
    BY DEF GoToStep, GoToIssue, Go, LeavePage, AnswerSave, ReloadFarms, applicationVars
  <2>4. \/ ArriveSave \/ AdministratorDecides \/ OpenAdvanced \/ setAdvanced \/ handleSave
        \/ OpenStockForm \/ TypeStockField \/ ChooseCoa \/ handleCoaFile \/ handlePhotoFile
        \/ PhotoRead \/ RemovePhoto \/ handleSaveDraftStock \/ handleSubmit \/ SubmitAnswered
        => UNCHANGED <<wizard, applicationVars>>
    BY DEF ArriveSave, AdministratorDecides, OpenAdvanced, setAdvanced, handleSave, OpenStockForm,
       TypeStockField, ChooseCoa, handleCoaFile, handlePhotoFile, PhotoRead, RemovePhoto,
       handleSaveDraftStock, handleSubmit, SubmitAnswered, StockStep
  <2>5. Turned => ApplicationInv'
    BY TurningKeeps
  <2> HIDE DEF Turned
  <2> QED
    BY <2>1, <2>2, <2>3, <2>4, <2>5, OpenWizardKeeps, EditsKeep, SubmitKeeps DEF FormsStep, formsVars
<1>3. ApplicationInv => SubmittedFarmIsSound
  BY DEF ApplicationInv
<1> QED
  BY <1>1, <1>2, <1>3, PTL DEF FormsSpec

-----------------------------------------------------------------------------
(* The photographs of the stock form.  Those the farmer added are shown     *)
(* once each, under their own picture, and were not taken off; one that is  *)
(* still being read is neither shown nor taken off.                         *)
PhotosHold(photos, reading, gone) ==
  /\ IsList(photos) /\ reading \cap gone = {}
  /\ \A i \in DOMAIN photos : photos[i].preview \notin reading
  /\ \A i \in DOMAIN photos : photos[i].file # Empty =>
        /\ photos[i].file = photos[i].preview /\ photos[i].preview \notin gone
        /\ \A j \in DOMAIN photos : photos[j].preview = photos[i].preview => j = i

StockInv ==
  /\ form.open => /\ {"open", "photos", "reading"} \subseteq DOMAIN form
                  /\ PhotosHold(form.photos, form.reading, dropped)
  /\ IsList(sent) /\ SentPhotosAreShown

LEMMA UploadedAreShown ==
  ASSUME NEW photos, NEW reading, NEW gone, PhotosHold(photos, reading, gone)
  PROVE  /\ ToSet(toUploadFiles(photos)) \cap gone = {}
         /\ ToSet(toUploadFiles(photos)) = {p.file : p \in ToSet(photos)} \ {Empty}
<1> DEFINE files == [i \in DOMAIN photos |-> photos[i].file]
           K == {i \in DOMAIN files : files[i] # Empty}
           own == Picked(files, K)
<1>1. PICK N \in Nat : DOMAIN photos = 1..N
  <2>1. PICK R : photos \in Seq(R)
    BY DEF PhotosHold, IsList
  <2> QED
    BY <2>1
<1>2. K \in SUBSET (1..N) /\ \A n \in K : n \in DOMAIN photos /\ files[n] = photos[n].file /\ files[n] # Empty
  BY <1>1
<1>3. \A n \in DOMAIN photos : photos[n].file # Empty => n \in K /\ files[n] = photos[n].file
  OBVIOUS
<1>4. toUploadFiles(photos) = own
  BY DEF toUploadFiles
<1> HIDE DEF files, K
<1>5. /\ \A k \in DOMAIN own : \E n \in K : own[k] = files[n]
      /\ \A n \in K : \E k \in DOMAIN own : own[k] = files[n]
  <2>1. N \in Nat /\ K \in SUBSET (1..N)
    BY <1>1, <1>2
  <2>2. PicksFrom(files, K, own)
    BY <2>1, PickedIs
  <2> HIDE DEF own
  <2> QED
    BY <2>2 DEF PicksFrom
<1> HIDE DEF own
<1>6. ToSet(own) = {p.file : p \in ToSet(photos)} \ {Empty}
  <2>1. ASSUME NEW x \in ToSet(own)
        PROVE  x \in {p.file : p \in ToSet(photos)} /\ x # Empty
    <3>1. PICK k \in DOMAIN own : x = own[k]
      BY DEF ToSet
    <3>2. PICK n \in K : x = files[n]
      BY <1>5, <3>1
    <3> QED
      BY <1>2, <3>2 DEF ToSet
  <2>2. ASSUME NEW p \in ToSet(photos), p.file # Empty
        PROVE  p.file \in ToSet(own)
    <3>1. PICK n \in DOMAIN photos : p = photos[n]
      BY DEF ToSet
    <3>2. PICK k \in DOMAIN own : own[k] = p.file
      BY <1>3, <1>5, <2>2, <3>1
    <3> QED
      BY <3>2 DEF ToSet
  <2> QED
    BY <2>1, <2>2
<1>7. ToSet(own) \cap gone = {}
  BY <1>2, <1>5 DEF ToSet, PhotosHold
<1> QED
  BY <1>4, <1>6, <1>7

(* A photograph that has been read goes to the front, and the fifth is left *)
(* out.                                                                     *)
LEMMA PhotoReadKeeps ==
  ASSUME NEW photos, NEW reading, NEW gone, NEW p \in reading, PhotosHold(photos, reading, gone)
  PROVE  PhotosHold(addPhoto(photos, p), reading \ {p}, gone)
<1> DEFINE new == picture(p, p)
           all == <<new>> \o photos
           many == IF Len(all) > MAX_PHOTOS_PER_BATCH THEN MAX_PHOTOS_PER_BATCH ELSE Len(all)
           first == SubSeq(all, 1, many)
<1>1. new.preview = p /\ new.file = p
  BY DEF picture
<1> HIDE DEF new
<1>2. PICK N \in Nat : Len(photos) = N /\ DOMAIN photos = 1..N
  <2>1. PICK R : photos \in Seq(R)
    BY DEF PhotosHold, IsList
  <2> QED
    BY <2>1
<1>3. /\ IsList(all) /\ Len(all) = N + 1 /\ all[1] = new
      /\ \A n \in 2..(N + 1) : all[n] = photos[n - 1]
  BY <1>2, ListWithFirst DEF PhotosHold
<1> HIDE DEF all
<1>4. many \in 0..(N + 1) /\ many \in Nat
  BY <1>2, <1>3 DEF MAX_PHOTOS_PER_BATCH
<1> HIDE DEF many
<1>5. IsList(first) /\ DOMAIN first = 1..many /\ \A n \in 1..many : first[n] = all[n]
  BY <1>3, <1>4, ListBegins
<1> HIDE DEF first
<1>6. \A n \in DOMAIN first : \/ (n = 1 /\ first[n] = new)
                               \/ (n - 1 \in DOMAIN photos /\ first[n] = photos[n - 1])
  <2> SUFFICES ASSUME NEW n \in DOMAIN first
               PROVE  \/ (n = 1 /\ first[n] = new)
                      \/ (n - 1 \in DOMAIN photos /\ first[n] = photos[n - 1])
    OBVIOUS
  <2>1. n \in 1..many /\ n \in 1..(N + 1) /\ first[n] = all[n]
    BY <1>2, <1>4, <1>5
  <2>2. n = 1 \/ (n \in 2..(N + 1) /\ n - 1 \in 1..N)
    BY <1>2, <2>1
  <2> QED
    BY <1>2, <1>3, <2>1, <2>2
<1>7. \A n \in DOMAIN photos : photos[n].preview # p
  BY DEF PhotosHold
<1>8. \A i, j \in DOMAIN first : first[i].preview = first[j].preview /\ first[i].file # Empty => i = j
  <2> SUFFICES ASSUME NEW i \in DOMAIN first, NEW j \in DOMAIN first, first[i].file # Empty,
                      first[i].preview = first[j].preview
               PROVE  i = j
    OBVIOUS
  <2>1. i \in Nat /\ j \in Nat
    BY <1>5
  <2>2. CASE i = 1 /\ first[i] = new
    BY <1>1, <1>6, <1>7, <2>2
  <2>3. CASE i - 1 \in DOMAIN photos /\ first[i] = photos[i - 1]
    <3>1. first[j] # new
      BY <1>1, <1>7, <2>3
    <3>2. j - 1 \in DOMAIN photos /\ first[j] = photos[j - 1]
      BY <1>6, <3>1
    <3>3. photos[i - 1].file # Empty /\ photos[i - 1].preview = photos[j - 1].preview
      BY <2>3, <3>2
    <3>4. i - 1 = j - 1
      BY <2>3, <3>2, <3>3 DEF PhotosHold
    <3> QED
      BY <2>1, <3>4
  <2> QED
    BY <1>6, <2>2, <2>3
<1>9. /\ \A i \in DOMAIN first : first[i].preview \notin reading \ {p}
      /\ \A i \in DOMAIN first : first[i].file # Empty =>
            first[i].file = first[i].preview /\ first[i].preview \notin gone
  BY <1>1, <1>6 DEF PhotosHold
<1>10. addPhoto(photos, p) = first
  BY DEF addPhoto, first, many, all, new
<1>11. (reading \ {p}) \cap gone = {}
  BY DEF PhotosHold
<1> QED
  BY <1>5, <1>8, <1>9, <1>10, <1>11 DEF PhotosHold

(* One that is taken off goes with its file. *)
LEMMA RemovePhotoKeeps ==
  ASSUME NEW photos, NEW reading, NEW gone, NEW i \in DOMAIN photos, PhotosHold(photos, reading, gone)
  PROVE  PhotosHold(removePhotoAt(photos, i), reading, gone \cup {photos[i].preview})
<1> DEFINE K == DOMAIN photos \ {i}
           rest == Picked(photos, K)
<1>1. PICK N \in Nat : DOMAIN photos = 1..N
  <2>1. PICK R : photos \in Seq(R)
    BY DEF PhotosHold, IsList
  <2> QED
    BY <2>1
<1>2. K \in SUBSET (1..N) /\ \A n \in K : n \in DOMAIN photos /\ n # i
  BY <1>1
<1>3. removePhotoAt(photos, i) = rest
  BY DEF removePhotoAt
<1> HIDE DEF K
<1>4. IsList(rest) /\ DOMAIN rest = 1..Cardinality(K)
  <2>1. IsList(rest) /\ PicksFrom(photos, K, rest)
    BY <1>1, <1>2, PickedIsList, PickedIs
  <2> QED
    BY <2>1 DEF PicksFrom
<1>5. /\ Cardinality(K) \in Nat
      /\ \A k \in 1..Cardinality(K) : NthOf(K, k) \in K
      /\ \A j, k \in 1..Cardinality(K) : j < k => NthOf(K, j) < NthOf(K, k)
  BY <1>1, <1>2, NthIsPicked
<1>6. \A k \in DOMAIN rest : rest[k] = photos[NthOf(K, k)] /\ NthOf(K, k) \in K
  BY <1>4, <1>5 DEF Picked
<1>7. \A j, k \in DOMAIN rest : NthOf(K, j) = NthOf(K, k) => j = k
  <2> SUFFICES ASSUME NEW j \in DOMAIN rest, NEW k \in DOMAIN rest, NthOf(K, j) = NthOf(K, k), j # k
               PROVE  FALSE
    OBVIOUS
  <2>1. j \in 1..Cardinality(K) /\ k \in 1..Cardinality(K) /\ (j < k \/ k < j)
    BY <1>4, <1>5
  <2>2. NthOf(K, j) \in Nat /\ NthOf(K, k) \in Nat
    <3>1. \A n \in K : n \in Nat
      BY <1>2
    <3> QED
      BY <1>5, <2>1, <3>1
  <2>3. NthOf(K, j) < NthOf(K, k) \/ NthOf(K, k) < NthOf(K, j)
    BY <1>5, <2>1
  <2> QED
    BY <2>2, <2>3
<1> HIDE DEF rest
<1>8. ASSUME NEW k \in DOMAIN rest, rest[k].file # Empty
      PROVE  /\ rest[k].file = rest[k].preview /\ rest[k].preview \notin gone \cup {photos[i].preview}
             /\ \A j \in DOMAIN rest : rest[j].preview = rest[k].preview => j = k
  <2>1. /\ NthOf(K, k) \in DOMAIN photos /\ NthOf(K, k) # i /\ rest[k] = photos[NthOf(K, k)]
        /\ \A j \in DOMAIN rest : NthOf(K, j) \in DOMAIN photos /\ rest[j] = photos[NthOf(K, j)]
    BY <1>2, <1>6
  <2> QED
    BY <1>7, <1>8, <2>1 DEF PhotosHold
<1>9. /\ \A k \in DOMAIN rest : rest[k].preview \notin reading
      /\ reading \cap (gone \cup {photos[i].preview}) = {}
  BY <1>2, <1>6 DEF PhotosHold
<1> QED
  BY <1>3, <1>4, <1>8, <1>9 DEF PhotosHold

(* A form opens with the previews the batch has on file, which carry no     *)
(* file.                                                                    *)
LEMMA FormOpens ==
  ASSUME NEW item \in Stock \cup {Empty}, NEW gone
  PROVE  LET f == initForm(item) IN
         /\ {"open", "photos", "reading"} \subseteq DOMAIN f
         /\ PhotosHold(f.photos, f.reading, gone)
<1> DEFINE f == initForm(item)
           shown == IF item = Empty THEN <<>> ELSE fromStoredPreviews(item.photoUrls)
<1>1. {"open", "photos", "reading"} \subseteq DOMAIN f /\ f.photos = shown /\ f.reading = {}
  BY DEF initForm
<1>2. IsList(shown) /\ \A i \in DOMAIN shown : shown[i].file = Empty
  <2>1. CASE item = Empty
    <3>1. shown = <<>> /\ DOMAIN shown = {} /\ shown \in Seq({})
      BY <2>1
    <3> QED
      BY <3>1 DEF IsList
  <2>2. CASE item # Empty
    <3> DEFINE N == Len(item.photoUrls)
    <3>1. N \in Nat /\ DOMAIN item.photoUrls = 1..N
      BY <2>2, FormsAssumption
    <3>2. shown = [i \in 1..N |-> picture(item.photoUrls[i], Empty)]
      BY <2>2, <3>1 DEF fromStoredPreviews
    <3>3. \A u : picture(u, Empty).file = Empty
      BY DEF picture
    <3> HIDE DEF N, shown
    <3>4. shown = [i \in 1..N |-> shown[i]] /\ DOMAIN shown = 1..N
      BY <3>2
    <3>5. IsList(shown)
      BY <3>1, <3>4, ListOfRange
    <3> QED
      BY <3>2, <3>3, <3>4, <3>5
  <2> QED
    BY <2>1, <2>2
<1> HIDE DEF f, shown
<1>3. PhotosHold(f.photos, f.reading, gone)
  BY <1>1, <1>2 DEF PhotosHold
<1> QED
  BY <1>1, <1>3 DEF f

(* Steps that keep the photographs, or close the form. *)
LEMMA FillingKeeps ==
  ASSUME StockInv, UNCHANGED sent,
         \/ form' = Closed
         \/ UNCHANGED <<form, dropped>>
         \/ /\ form.open /\ UNCHANGED dropped
            /\ \E field \in {"qty", "price", "unit", "name", "coaAvailable", "uploading"} : \E v :
                  form' = [form EXCEPT ![field] = v]
         \/ /\ form.open /\ UNCHANGED dropped
            /\ \E p : form' = [form EXCEPT !.coaFile = p, !.coaName = p]
  PROVE  StockInv'
<1>1. CASE form' = Closed
  BY <1>1 DEF StockInv, Closed, SentPhotosAreShown
<1>2. CASE UNCHANGED <<form, dropped>>
  BY <1>2 DEF StockInv, SentPhotosAreShown
<1>3. ASSUME form.open, UNCHANGED dropped, DOMAIN form' = DOMAIN form,
             form'.photos = form.photos, form'.reading = form.reading
      PROVE  StockInv'
  BY <1>3 DEF StockInv, SentPhotosAreShown
<1>4. CASE /\ form.open /\ UNCHANGED dropped
           /\ \E field \in {"qty", "price", "unit", "name", "coaAvailable", "uploading"} : \E v :
                 form' = [form EXCEPT ![field] = v]
  BY <1>3, <1>4 DEF StockInv
<1>5. CASE form.open /\ UNCHANGED dropped /\ \E p : form' = [form EXCEPT !.coaFile = p, !.coaName = p]
  BY <1>3, <1>5 DEF StockInv
<1> QED
  BY <1>1, <1>2, <1>4, <1>5

LEMMA PhotosChange ==
  StockInv /\ (OpenStockForm \/ handlePhotoFile \/ PhotoRead \/ RemovePhoto) => StockInv'
<1> SUFFICES ASSUME StockInv, OpenStockForm \/ handlePhotoFile \/ PhotoRead \/ RemovePhoto
             PROVE  StockInv'
  OBVIOUS
<1>1. UNCHANGED sent
  BY DEF OpenStockForm, handlePhotoFile, PhotoRead, RemovePhoto, StockStep
<1>2. ASSUME {"open", "photos", "reading"} \subseteq DOMAIN form',
             PhotosHold(form'.photos, form'.reading, dropped')
      PROVE  StockInv'
  BY <1>1, <1>2 DEF StockInv, SentPhotosAreShown
<1>3. CASE OpenStockForm
  <2>1. PICK item \in Stock \cup {Empty} : form' = initForm(item)
    BY <1>3 DEF OpenStockForm, StockStep
  <2> QED
    BY <1>2, <2>1, FormOpens
<1>4. CASE handlePhotoFile
  <2>1. PICK p : /\ p \notin form.reading \cup dropped
                 /\ \A i \in DOMAIN form.photos : form.photos[i].preview # p
                 /\ form' = [form EXCEPT !.reading = form.reading \cup {p}]
    BY <1>4 DEF handlePhotoFile, StockStep
  <2>2. form.open /\ UNCHANGED dropped
    BY <1>4 DEF handlePhotoFile, filling
  <2>3. /\ {"open", "photos", "reading"} \subseteq DOMAIN form
        /\ PhotosHold(form.photos, form.reading, dropped)
    BY <2>2 DEF StockInv
  <2>4. /\ DOMAIN form' = DOMAIN form /\ form'.photos = form.photos
        /\ form'.reading = form.reading \cup {p}
    BY <2>1, <2>3
  <2>5. PhotosHold(form.photos, form.reading \cup {p}, dropped)
    BY <2>1, <2>3 DEF PhotosHold
  <2> QED
    BY <1>2, <2>2, <2>3, <2>4, <2>5
<1>5. CASE PhotoRead
  <2>1. PICK p \in form.reading :
          form' = [form EXCEPT !.reading = form.reading \ {p}, !.photos = addPhoto(form.photos, p)]
    BY <1>5 DEF PhotoRead, StockStep
  <2>2. form.open /\ UNCHANGED dropped
    BY <1>5 DEF PhotoRead
  <2>3. /\ {"open", "photos", "reading"} \subseteq DOMAIN form
        /\ PhotosHold(form.photos, form.reading, dropped)
    BY <2>2 DEF StockInv
  <2>4. PhotosHold(addPhoto(form.photos, p), form.reading \ {p}, dropped)
    BY <2>3, PhotoReadKeeps
  <2>5. /\ DOMAIN form' = DOMAIN form /\ form'.photos = addPhoto(form.photos, p)
        /\ form'.reading = form.reading \ {p}
    BY <2>1, <2>3
  <2> QED
    BY <1>2, <2>2, <2>3, <2>4, <2>5
<1>6. CASE RemovePhoto
  <2>1. PICK i \in DOMAIN form.photos :
          /\ dropped' = dropped \cup {form.photos[i].preview}
          /\ form' = [form EXCEPT !.photos = removePhotoAt(form.photos, i)]
    BY <1>6 DEF RemovePhoto, StockStep
  <2>2. form.open
    BY <1>6 DEF RemovePhoto, filling
  <2>3. /\ {"open", "photos", "reading"} \subseteq DOMAIN form
        /\ PhotosHold(form.photos, form.reading, dropped)
    BY <2>2 DEF StockInv
  <2>4. PhotosHold(removePhotoAt(form.photos, i), form.reading, dropped')
    BY <2>1, <2>3, RemovePhotoKeeps
  <2>5. /\ DOMAIN form' = DOMAIN form /\ form'.photos = removePhotoAt(form.photos, i)
        /\ form'.reading = form.reading
    BY <2>1, <2>3
  <2> QED
    BY <1>2, <2>3, <2>4, <2>5
<1> QED
  BY <1>3, <1>4, <1>5, <1>6

LEMMA HandingKeeps == StockInv /\ (handleSaveDraftStock \/ handleSubmit) => StockInv'
<1> SUFFICES ASSUME StockInv, handleSaveDraftStock \/ handleSubmit PROVE StockInv'
  OBVIOUS
<1> DEFINE made(isDraft, coa, files) ==
             [item |-> buildItem(isDraft), coa |-> coa, files |-> files, shown |-> form.photos, dropped |-> dropped]
<1>1. PICK isDraft, coa, files :
         /\ isDraft \/ files = toUploadFiles(form.photos)
         /\ sent' = Append(sent, made(isDraft, coa, files))
  <2>1. handleSaveDraftStock => sent' = Append(sent, made(TRUE, Empty, <<>>))
    BY DEF handleSaveDraftStock, Hand
  <2>2. handleSubmit => sent' = Append(sent, made(FALSE, form.coaFile, toUploadFiles(form.photos)))
    BY DEF handleSubmit, Hand
  <2> QED
    BY <2>1, <2>2
<1> DEFINE new == made(isDraft, coa, files)
           AsShown(r) == ~r.item.draft =>
             /\ ToSet(r.files) \cap r.dropped = {}
             /\ ToSet(r.files) = {p.file : p \in ToSet(r.shown)} \ {Empty}
<1>2. new.item.draft = isDraft /\ new.files = files /\ new.shown = form.photos /\ new.dropped = dropped
  BY DEF buildItem
<1> HIDE DEF made
<1>3. form.open /\ UNCHANGED dropped
  BY DEF handleSaveDraftStock, handleSubmit, filling
<1>4. /\ {"open", "photos", "reading"} \subseteq DOMAIN form
      /\ PhotosHold(form.photos, form.reading, dropped)
  BY <1>3 DEF StockInv
<1>5. AsShown(new)
  BY <1>1, <1>2, <1>4, UploadedAreShown
<1> HIDE DEF new
<1>6. \A k \in DOMAIN sent : AsShown(sent[k])
  BY DEF StockInv, SentPhotosAreShown
<1>7. (\A k \in DOMAIN sent' : AsShown(sent'[k])) => SentPhotosAreShown'
  BY DEF SentPhotosAreShown
<1> HIDE DEF AsShown
<1>8. IsList(sent') /\ \A k \in DOMAIN sent' : AsShown(sent'[k])
  BY <1>1, <1>5, <1>6, ListGrows DEF StockInv, new
<1>9. form' = form \/ form' = [form EXCEPT !.uploading = TRUE]
  BY DEF handleSaveDraftStock, handleSubmit
<1>10. DOMAIN form' = DOMAIN form /\ form'.photos = form.photos /\ form'.reading = form.reading
  BY <1>4, <1>9
<1> QED
  BY <1>3, <1>4, <1>7, <1>8, <1>10 DEF StockInv

(* FarmerSubmitInventory.tsx:187-214, 286-305 and batchPhotoSelection.ts.   *)
(* Whatever photographs were chosen, read, taken off and left out, in any   *)
(* order and while any save is under way, a batch is uploaded with exactly  *)
(* the files the form shows and none the farmer took off.                   *)
THEOREM PhotosAreThoseShown ==
  ASSUME NEW saved, NEW table, NEW bounds
  PROVE  FormsSpec(saved, table, bounds) => []SentPhotosAreShown
<1>1. FormsStart(saved, table, bounds) => StockInv
  <2> SUFFICES ASSUME FormsStart(saved, table, bounds) PROVE StockInv
    OBVIOUS
  <2>1. form = Closed /\ sent = <<>> /\ DOMAIN sent = {} /\ sent \in Seq({})
    BY DEF FormsStart
  <2> QED
    BY <2>1 DEF StockInv, Closed, IsList, SentPhotosAreShown
<1>2. StockInv /\ [FormsStep]_formsVars => StockInv'
  <2> SUFFICES ASSUME StockInv, [FormsStep]_formsVars PROVE StockInv'
    OBVIOUS
  <2> DEFINE Filled == /\ UNCHANGED sent
                       /\ \/ form' = Closed
                          \/ UNCHANGED <<form, dropped>>
                          \/ /\ form.open /\ UNCHANGED dropped
                             /\ \E field \in {"qty", "price", "unit", "name", "coaAvailable", "uploading"} : \E v :
                                   form' = [form EXCEPT ![field] = v]
                          \/ /\ form.open /\ UNCHANGED dropped
                             /\ \E p : form' = [form EXCEPT !.coaFile = p, !.coaName = p]
  <2>1. UNCHANGED stockVars => Filled
    BY DEF stockVars
  <2>2. \/ OpenWizard \/ TypeField \/ handleLicenceChange \/ handleSaveDraft \/ handleContinueLater
        \/ handleNext \/ GoToStep \/ GoToIssue \/ handleFinalSubmit \/ ArriveSave
        \/ AdministratorDecides \/ OpenAdvanced \/ setAdvanced \/ handleSave
        => UNCHANGED stockVars
    BY DEF OpenWizard, TypeField, handleLicenceChange, handleSaveDraft, handleContinueLater, handleNext,
       GoToStep, GoToIssue, Go, handleFinalSubmit, ArriveSave, AdministratorDecides, OpenAdvanced,
       setAdvanced, handleSave
  <2>3. LeavePage \/ AnswerSave \/ ReloadFarms => Filled
    BY DEF LeavePage, AnswerSave, ReloadFarms
  <2>4. TypeStockField => Filled
    BY DEF TypeStockField, StockStep, filling
  <2>5. ChooseCoa => Filled
    BY DEF ChooseCoa, StockStep, filling
  <2>6. handleCoaFile => Filled
    BY DEF handleCoaFile, StockStep, filling
  <2>7. SubmitAnswered => Filled
    BY DEF SubmitAnswered, StockStep
  <2>8. Filled => StockInv'
    BY FillingKeeps
  <2> HIDE DEF Filled
  <2> QED
    BY <2>1, <2>2, <2>3, <2>4, <2>5, <2>6, <2>7, <2>8, PhotosChange, HandingKeeps DEF FormsStep, formsVars
<1>3. StockInv => SentPhotosAreShown
  BY DEF StockInv
<1> QED
  BY <1>1, <1>2, <1>3, PTL DEF FormsSpec

(* FarmerOnboarding.tsx:245-284 and FarmerSubmitInventory.tsx:286-305.      *)
(* From any draft, every form hands over what the farmer was shown and DDP  *)
(* can use.                                                                 *)
THEOREM FormsHandOverWhatIsShown ==
  ASSUME NEW saved, NEW table, NEW bounds, saved # Empty => IsApplication(saved)
  PROVE  FormsSpec(saved, table, bounds) => []HandedOverAsShown
BY ApplicationsAreSound, PhotosAreThoseShown, PTL DEF HandedOverAsShown
=============================================================================
