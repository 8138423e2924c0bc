SPECIFICATION Spec
CONSTANTS
  Starts <- MCStarts
  Rows <- MCRow
  NoRow = "-"
  FormNames <- MCForms
  Kept <- MCKept
  Pages <- MCPages
  Accounts <- MCOwner
  MaxWrites = 1
  Slots <- MCSlots
INVARIANTS
  TypeOK
  OwnWriteShown
  ReplyFindsItsDialog
