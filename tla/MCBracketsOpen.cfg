CONSTANT MaxLen = 5
SPECIFICATION FairSpec
INVARIANT UnterminatedIsReported
