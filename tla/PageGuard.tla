----------------------------- MODULE PageGuard -----------------------------
(***************************************************************************)
(* Where a request for a page lands: the pure rules of navigationGuard,    *)
(* urlRouting, deepLinkIntent, postLoginRouting and reviewRequestScope, in *)
(* the build with an account service configured (not the demo build).      *)
(***************************************************************************)
EXTENDS FiniteSets

CONSTANTS Users, Role  \* Role[u] \in Roles: profiles.role of the account
Roles == {"ddp_admin", "farmer", "buyer", "pending"}
Nobody == "nobody"
ASSUME RoleAssumption == Role \in [Users -> Roles] /\ Nobody \notin Users

NoPage == "no page"

PUBLIC_AUTH_PAGES == {"login", "farmer-register", "set-password", "forgot-password"}
PUBLIC_CORPORATE_PAGES == {"about", "contact", "privacy", "terms", "governance", "de-buyer",
    "cs-buyer", "th-supplier", "regulatory-hub", "regulatory-entry"}
PUBLIC_PAGES == {"landing"} \cup PUBLIC_AUTH_PAGES \cup PUBLIC_CORPORATE_PAGES
FarmerOnlyPages == {"farmer-dashboard", "farmer-onboarding", "farmer-advanced-profile",
    "farmer-my-stock", "farmer-stock-form", "farmer-requests", "farmer-status", "farmer-evidence"}
BUYER_PAGES == PUBLIC_PAGES \cup {"buyer-dashboard"}
DDP_PAGES == {"ddp-overview", "ddp-farms", "ddp-farm-review", "ddp-inventory",
    "ddp-inventory-review", "ddp-master", "ddp-buyer", "ddp-missing-documents",
    "ddp-coa-intelligence", "ddp-risk-register", "ddp-compliance-watchtower",
    "ddp-operations-desk", "ddp-access-requests", "ddp-buyer-provisioning", "ddp-document-review"}
Pages == PUBLIC_PAGES \cup FarmerOnlyPages \cup BUYER_PAGES \cup DDP_PAGES

RoleOf(p) == IF p = Nobody THEN "none" ELSE Role[p]

resolveNavigationTarget(requested, r) ==
    CASE r = "none" /\ requested \notin PUBLIC_PAGES -> "login"
      [] r = "buyer" /\ requested \notin BUYER_PAGES -> "buyer-dashboard"
      [] r = "ddp_admin" /\ requested \in {"buyer-dashboard"} \cup FarmerOnlyPages -> "ddp-overview"
      [] r \in {"farmer", "pending"} /\ requested = "buyer-dashboard" -> "farmer-dashboard"
      [] r = "farmer" /\ requested \in DDP_PAGES -> "farmer-status"
      [] r = "pending" /\ requested \in DDP_PAGES -> "landing"
      [] OTHER -> requested

\* The pages with an address of their own; every other page is shown at "/".
Addressed == {"farmer-register"} \cup PUBLIC_CORPORATE_PAGES \cup DDP_PAGES
getInitialPageFromPath(path) == IF path \in Addressed THEN path ELSE NoPage

\* A console address is not opened on a cold load: the page is held until the
\* first answer about the session.
decideColdLoad(path) ==
    LET mapped == getInitialPageFromPath(path) IN
    CASE mapped = NoPage -> [page |-> "landing", held |-> NoPage]
      [] mapped \in PUBLIC_PAGES -> [page |-> mapped, held |-> NoPage]
      [] OTHER -> [page |-> "landing", held |-> mapped]
consumeDeepLinkIntent(held, r, page) ==
    IF held = NoPage THEN page ELSE resolveNavigationTarget(held, r)

\* "denied" for an account nobody approved yet.
resolvePostLoginDecision(r) ==
    CASE r = "ddp_admin" -> "ddp-overview"
      [] r = "farmer" -> "farmer-dashboard"
      [] r = "buyer" -> "buyer-dashboard"
      [] OTHER -> "denied"

\* The first answer about the session routes it or revokes it; none does while
\* a set-password link is being used.
resolveAuthResolutionAction(alreadyRouted, r, passwordSetupPending) ==
    LET home == resolvePostLoginDecision(r) IN
    CASE passwordSetupPending \/ alreadyRouted \/ r = "none" -> [kind |-> "none", page |-> NoPage]
      [] home = "denied" -> [kind |-> "revoke-session", page |-> NoPage]
      [] OTHER -> [kind |-> "route", page |-> home]

\* What the shell and the page in it link to: the public header, the farmer's
\* bars, the administrator's bars; a page outside both offers the way home.
FarmerNav == FarmerOnlyPages \ {"farmer-advanced-profile", "farmer-stock-form"}
CONSOLE_NAV_ITEMS == DDP_PAGES \ {"ddp-farm-review", "ddp-inventory-review"}
PublicNav == {"landing", "login", "farmer-register"} \cup (PUBLIC_CORPORATE_PAGES \ {"regulatory-entry"})
LinksOn(p, r) ==
    CASE p = "login" -> {"farmer-register", "forgot-password"}
      [] p = "set-password" -> {"forgot-password"}
      [] p = "forgot-password" -> {"login"}
      [] p = "farmer-register" -> {"landing"}
      [] p \in PUBLIC_PAGES -> PublicNav
      [] p = "buyer-dashboard" -> {}
      [] p \in DDP_PAGES /\ r # "ddp_admin" -> {IF r = "farmer" THEN "farmer-status" ELSE "landing"}
      [] r = "ddp_admin" -> CONSOLE_NAV_ITEMS \cup {"ddp-farm-review", "ddp-inventory-review"}
      [] r = "farmer" -> FarmerNav \cup {"farmer-advanced-profile", "farmer-stock-form", "landing"}
      [] OTHER -> {"landing", "login"} \cup FarmerOnlyPages
=============================================================================
