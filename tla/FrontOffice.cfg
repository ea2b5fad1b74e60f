SPECIFICATION OfficeSpec
CONSTANTS
    Admins <- MCAdmins
    Decisions <- MCDecisions
    Failures <- MCFailures
    None = "none-given"
    Visits = {v1, v2}
    Emails = {a}
    People = {a}
    Calls = {c1, c2}
    Orgs = {o1, o2}
    MaxTime = 1
    Triage = {"declined"}
    Addresses <- SmallAddresses
    Rules <- SmallRules
    DeskFarms <- MCDeskFarms
    DeskBatches <- MCDeskBatches
    Stranger = "elsewhere"
    GrownBy <- MCGrownBy
    p1 = p1
    p2 = p2
    NoRuleset = NoRuleset
    NoPermit = NoPermit
    NoAnswer = NoAnswer
    NotMeasured = NotMeasured
    NoCeiling = NoCeiling
    Consignments = {"c1"}
    Rulesets <- GateRules
    Contaminants <- MCContaminants
    Permits = {p1, p2}
    PermitRows <- FewPermitRows
    CoaFiles <- FewCoaFiles
    ScreeningFiles <- FewScreeningFiles
    Dates = {1}
    Kilograms = 2
    MaxChanges = 1
    Administrators = {ann, ben, cat}
    BackOffice = BackOffice
    EvaluationIds = {e1}
    OverrideIds = {w1, w2}
    ConditionNames = {"screening_clear"}
    Times = {1, 2}
    Nobody = Nobody
    NoTime = NoTime
    Sessions = {s1, s2}
    Versions = {1, 2}
    Days = {0, 1}
    OpenEnd = OpenEnd
    Absent = Absent
CHECK_DEADLOCK FALSE
INVARIANTS IssuedOnStandingDecision OutputWasCleared
INVARIANTS ConfirmedIsQueued AnswerIsTrue MembersAreBuyers
INVARIANTS DeskTellsWhatWaits
INVARIANTS QuietPassLacksOnlyNeverAsked SignaturesSurvive AmbiguousOnlyByRace
