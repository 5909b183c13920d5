CONSTANTS
  Parsed <- MCParsed
  Sources <- MCSources
  Expression <- MCExpression
  List <- MCList
  ArgumentList <- MCArgumentList
  Opaque = "?"
SPECIFICATION FairSpec
INVARIANTS TypeOK FailureHasReason AcceptedIsClean NoBodySkipped AcceptedCallsAreKnown
           DeclaredIsKnown RecheckAgrees ExecutionFailsDynamically
PROPERTIES ImplementsTwoPass ProceduresStay Terminates
