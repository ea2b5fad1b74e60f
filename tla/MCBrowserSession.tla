-------------------------- MODULE MCBrowserSession --------------------------
(* Small instances of the session and of the farmer's forms. *)
EXTENDS BrowserSession, FarmerForms

VARIABLE scene  \* "session" or "forms": which of the two a behaviour is about
vars == <<scene, sessionVars, formsVars>>

CONSTANTS adm, fa, fb, buy, pen
SmallUsers == {adm, fa, fb, buy, pen}
SmallRole == (adm :> "ddp_admin") @@ (fa :> "farmer") @@ (fb :> "farmer")
             @@ (buy :> "buyer") @@ (pen :> "pending")
SmallVisited == {"/", "login", "ddp-operations-desk", "farmer-onboarding"}

One == {CHOOSE e \in Events : TRUE}

\* A cold load, with or without a session, at the home page or the console.
ColdLoad ==
    /\ session \in Users \cup {Nobody}
    /\ \E path \in {"/", "ddp-operations-desk"} : Opened(path, NoLink)
    /\ AppInit(<<OtherTabs, One>>)
\* A set-password link, live or dead, opened where somebody may be signed in.
LinkLoad ==
    /\ session \in {Nobody, adm}
    /\ \E l \in {fa, DeadLink} : Opened("/", l)
    /\ AppInit(<<0, One>>)
\* A farmer or an administrator at work; another tab may interfere.
AtWork ==
    /\ session \in {fa, adm}
    /\ profile = session /\ scopeKey = session /\ load = session /\ routed = TRUE
    /\ authLoading = FALSE /\ boot = "done" /\ link = NoLink /\ held = NoPage /\ setpw = NoForm
    /\ page = resolvePostLoginDecision(RoleOf(session))
    /\ reqLoad = IF session = adm THEN adm ELSE Nobody
    /\ \/ foreign = 0 /\ event = [e \in Events |-> IF e \in One THEN Over ELSE Unused]
       \/ /\ foreign = OtherTabs /\ session = fa
          /\ event = [e \in Events |-> IF e \in One THEN [user |-> fa, step |-> "asked"] ELSE Unused]
    /\ data = NoData /\ scope = NoScope /\ available = {} /\ crossed = {}
    /\ saving = Nobody /\ login = "no" /\ leaving = "no"
SignedOut ==
    /\ session = Nobody /\ Opened("/", NoLink) /\ AppInit(<<OtherTabs, Events>>)

---------------------------------------------------------------------------
(* The forms. *)
CONSTANTS Word, Garbled, farm1, farm2
MCTyped == ("tradingName" :> {Empty}) @@ ("email" :> {Garbled, Word})
    @@ ("typicalThc" :> {30, 70}) @@ ("typicalCbd" :> {60}) @@ ("qtyAvailableNow" :> {-1, 5})
    @@ ("province" :> {Word}) @@ ("primaryContact" :> {Word})
    @@ ("mobileNumber" :> {Empty}) @@ ("lineId" :> {Word})
MCContact == ("primaryContact" :> Word) @@ ("province" :> Word)
MCStock == {[grams |-> 2000, unit |-> "kg", perKg |-> 5, certFileName |-> Empty,
             coaAvailable |-> FALSE, photoUrls |-> <<"u1", "u2", "u3">>],
            [grams |-> 2000, unit |-> "g", perKg |-> 5, certFileName |-> "coa1",
             coaAvailable |-> TRUE, photoUrls |-> <<>>]}
Filled == [f \in DOMAIN BLANK |-> IF f \in DOMAIN Typed /\ f \notin PERCENT_FIELDS \cup NON_NEGATIVE_FIELDS THEN Word ELSE Empty]
Full == [Filled EXCEPT !.typicalThc = 60, !.typicalCbd = 60]

NoBounds == [wizard |-> 0, stock |-> 0, advanced |-> 0, edits |-> 0, decisions |-> 0, reloads |-> 0,
             jumps |-> 0, hands |-> 0]
OnTable == farm1 :> [status |-> "Submitted to DDP", name |-> Word]

\* A draft that was all but finished, left once or reloaded; a first visit.
Applying ==
    \/ FormsStart(Full, <<>>, [NoBounds EXCEPT !.wizard = 1, !.edits = 1, !.jumps = 3, !.hands = 1])
    \/ FormsStart(Filled, <<>>, [NoBounds EXCEPT !.wizard = 2, !.edits = 1, !.jumps = 1, !.hands = 2, !.reloads = 1])
    \/ FormsStart(Empty, <<>>, [NoBounds EXCEPT !.wizard = 1, !.edits = 3, !.jumps = 1])
\* A farm on file: its profile is saved while an administrator decides.
Decided == FormsStart(Empty, OnTable,
              [NoBounds EXCEPT !.advanced = 2, !.edits = 1, !.decisions = 2, !.reloads = 1])
\* Stock with certificates and photographs.
Stocking == FormsStart(Empty, OnTable, [NoBounds EXCEPT !.stock = 1, !.edits = 4])

MCInit ==
    \/ scene = "session" /\ (AtWork \/ ColdLoad \/ LinkLoad) 
        /\ FormsStart(Empty, <<>>, NoBounds)
    \/ scene = "forms" /\ SignedOut /\ (Applying \/ Decided \/ Stocking)
Next ==
    /\ UNCHANGED scene
    /\ \/ scene = "session" /\ SessionStep /\ UNCHANGED formsVars
       \/ scene = "forms" /\ FormsStep /\ UNCHANGED sessionVars
MCSpec == MCInit /\ [][Next]_vars
=============================================================================
