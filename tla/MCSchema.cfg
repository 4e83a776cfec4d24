SPECIFICATION SchemaSpec
CONSTANTS
  Migrations <- MCMigrations
  Configurations <- MCConfigurations
  Extensions <- MCExtensions
  Singular <- MCSingular
\* A schema that was built, or a build that failed, is the end.
CHECK_DEADLOCK FALSE
INVARIANTS HiddenUnreachable RelationsJoin BuildSucceeds RegistryAgrees ExtensionsKept
