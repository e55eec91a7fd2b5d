\* The owner and another account, a second port and a value to type; two edits are enough to
\* change a field behind a form, or to change a field and a port.
SPECIFICATION SettingsSpec
CONSTANTS
  Pages = {owner, guest}
  Owner = owner
  Ports = {p1}
  Texts = {t1}
  Empty = empty
  v1 = v1
  v2 = v2
  Variables = {v1, v2}
  TypedEnvironments <- MCTypedEnvironments
  ApiEnvironments <- MCApiEnvironments
  None = none
  MaxEdits = 2
  MaxReads = 2
INVARIANTS SavedValuesKept ReinstallApplies
CHECK_DEADLOCK FALSE
