SPECIFICATION Spec
CONSTANTS
  Primitives <- MCPrimitives
  OtherNames <- MCOtherNames
  Inputs <- MCInputs
  ShortLength = 4
  ShortTokens = {"inc", "x", "int", "bool", "space", "newline", "[", "]", "(", ")", "parameters"}
  EditTokens = {"inc", "x", "int", "bool", "Int", "space", "newline", "[", "]", "(", ")", "{", "}", "_", "fanout", "parameters", "invalid_byte", "malformed_literal"}
INVARIANTS
  RoundTrip
  AcceptsTheGrammar
PROPERTY
  Terminates
CHECK_DEADLOCK FALSE
