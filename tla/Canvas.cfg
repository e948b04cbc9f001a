SPECIFICATION Spec
CONSTANTS
  Size <- MCSize
  DefaultSize = 1
  MaxCode = 1
  Fine = 2
  NoDoc = NoDoc
  MaxLayers = 2
  MaxTouched = 1
INVARIANTS
  ExportIsShown
  SavedUnderItsSize
  UntouchedKept
  PageIsDoc
PROPERTIES
  PaintsUnderFinger
