SPECIFICATION OverviewSpec
CONSTANTS
    Admins <- MCAdmins
    Decisions <- MCDecisions
    Failures <- MCFailures
    None = "none-given"
    Visits = {v1, v2}
    Emails = {a}
    People = {a}
    Calls = {c1, c2}
    Orgs = {o1, o2}
    MaxTime = 1
    Triage = {"declined"}
    Addresses <- SmallAddresses
    Rules <- SmallRules
    DeskFarms <- MCDeskFarms
    DeskBatches <- MCDeskBatches
    Stranger = "elsewhere"
    GrownBy <- MCGrownBy
CHECK_DEADLOCK FALSE
INVARIANT HealthyIsNotAMissingFeed
