CONSTANTS
  Parsed <- MCParsed
  Sources <- LateSources
  Expression <- MCExpression
  List <- MCList
  ArgumentList <- MCArgumentList
  Opaque = "?"
SPECIFICATION Spec
INVARIANT DeclaredAnywhereIsKnown
