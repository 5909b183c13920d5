CONSTANTS
  Sessions <- CommentSessions
  Origin <- MCOrigin
SPECIFICATION Spec
INVARIANT CommentsAreSkipped
