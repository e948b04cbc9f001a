SPECIFICATION Spec
CONSTANTS
  a1 = a1
  a2 = a2
  Account <- MCAccount
  Size <- MCSize
  DefaultSize <- MCDefaultSize
  Nobody = Nobody
  NoRow = NoRow
  NoAttempt = NoAttempt
  MaxRestarts = 2
INVARIANTS
  StoredIsSession
  ChoiceIsStored
PROPERTIES
  AutoOnlyIfChosen
  Remembered
  Reenabled
CHECK_DEADLOCK FALSE
