\* Texts of up to two characters, every data type, items renamed and deactivated.
CONSTANTS
  Items = {1, 2}
  Codes <- MCCodes
  IsoDates <- MCIsoDates
  Null = Null
  NoRow = NoRow
  Refused = Refused
  Failed = Failed
  MaxLen = 2
SPECIFICATION Spec
INVARIANTS
  StoredIsPresent
  ChosenItemKept
PROPERTIES
  SavedIsCanonical
