CONSTANTS
  Slug <- MCSlug
  LegacyData <- MCLegacyData
  Commands <- MCCommands
SPECIFICATION Spec
PROPERTY DowngradeRefusesOnlyEvents
