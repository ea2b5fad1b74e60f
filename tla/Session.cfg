SPECIFICATION MCSpec
CONSTANTS
    adm = adm
    fa = fa
    fb = fb
    buy = buy
    pen = pen
    Users <- SmallUsers
    Role <- SmallRole
    Visited <- SmallVisited
    Events = {e1, e2}
    OtherTabs = 1
    MaxPolls = 2
    Empty = Empty
    Word = Word
    Garbled = Garbled
    Typed <- MCTyped
    Contact <- MCContact
    Odd = {Garbled}
    Licences = {Empty, Word}
    Pictures = {p1, p2, p3}
    Unfit = {p3}
    Papers = {coa1, scan}
    Pdfs = {coa1}
    Stock <- MCStock
    Amounts = {2000}
    Decisions = {"Approved"}
    farm1 = farm1
    farm2 = farm2
    FarmIds = {farm1, farm2}
    MaxSends = 1
INVARIANTS OnlyOwnRows DeskIsFresh PasswordSetForSubject HandedOverAsShown StatusIsTheAdministrators
PROPERTIES ArrivalsAdmitted
CHECK_DEADLOCK FALSE
