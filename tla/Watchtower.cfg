SPECIFICATION MCSpec
CONSTANTS
  Workers <- MCWorkers
  SourceOrder <- MCSourceOrder
  Editions <- MCEditions
  Admins <- MCAdmins
  Items <- MCItems
  SourceOf <- MCSourceOf
  Decisions <- MCDecisions
  Calls <- MCCalls
  Callers <- MCAdmins
  Hosts <- MCHosts
  Public <- MCPublic
  Rules <- MCRules
  MaxRedirects = 1
  Reviewers <- MCAdmins
  Recorded <- MCRecorded
  Quoted <- MCQuoted
  Replies <- MCReplies
  MaxScopeTokens = 8
  MaxReferences = 2
  Permission = "unverified"
  Tabs <- MCAdmins
  AddressBook <- MCAddressBook
  FeedEditions <- MCFeedEditions
  Pastes <- MCPastes
  Entered <- MCEntered
  Unset = unset
  None = none
  Absent = absent
  Nil = nil
  Void = void
CHECK_DEADLOCK FALSE
INVARIANTS
  CleanRunMissesNothing
  ClosedRunAccountsForItsCandidates
  SavedMeansAudited
  
  CallsWithinCeiling
  ShownDraftIsGuarded
  KnownWasProposed
  ResultIsOfItsAddress
PROPERTIES
  UndoneOnlyByOverlap
