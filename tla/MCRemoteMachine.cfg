SPECIFICATION Spec
CONSTANTS
  Retries = 2
  Listing <- MCListing
  Requests <- MCRequests
INVARIANTS
  TypeOK
  PassedTestRan
  PassedOnNewBuild
  ExtensionsMatch
PROPERTIES
  PanicIsReverted
  SessionEnds
