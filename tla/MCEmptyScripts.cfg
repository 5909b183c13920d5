CONSTANTS
  Sessions <- EmptySessions
  Origin <- MCOrigin
SPECIFICATION Spec
INVARIANT EmptyIsAccepted
