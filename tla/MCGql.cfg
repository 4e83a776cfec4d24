SPECIFICATION FrontSpec
CONSTANTS
  Sources <- MCSources
  Seeds <- MCSeeds
  Tokens <- MCTokens
  MaxTokens = 3
  MaxClosers = 2
  Definitions <- MCDefinitions
  SchemaSource <- MCSchemaSource
\* A source that was read to its end stays as it is.
CHECK_DEADLOCK FALSE
INVARIANTS TokensExact CaretAtError
INVARIANTS ArenaSound RoundTrip SdlRoundTrip ConstMirrors VariableRulesExact AcceptedIsTyped
