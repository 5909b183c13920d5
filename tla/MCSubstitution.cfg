SPECIFICATION Spec
CONSTANTS
  Tests <- MCTests
  Stored <- MCStored
  Value <- MCValue
INVARIANTS
  TypeOK
  RecursionFollowsText
  ReadsWhatWasSet
