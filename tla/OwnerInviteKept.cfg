SPECIFICATION Spec
CONSTANTS
  Starts <- MCStarts
  Rows <- MCTwoRows
  NoRow = "-"
  FormNames <- MCInvite
  Kept <- MCInvite
  Pages <- MCActivities
  Accounts <- MCAdmin
  MaxWrites = 1
  Slots <- MCSlots
PROPERTIES
  InvitationReset
