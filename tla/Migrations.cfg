CONSTANTS
  Slug <- MCSlug
  LegacyData <- MCLegacyData
  Commands <- MCCommands
SPECIFICATION Spec
INVARIANT HeadMatchesModels
INVARIANT SchemaByRevision
INVARIANT HeadReachable
PROPERTY ConfigurationSurvives
