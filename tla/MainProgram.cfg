SPECIFICATION MainSpec
CONSTANTS
  Words <- MCWords
  Numbers <- MCNumbers
  NumberOf <- MCNumberOf
  Addresses <- MCAddresses
  MaxArgs = 5
  MaxSide = 1
  MaxPoints = 2
  MaxDigits = 1
  MaxPort = 1
  MaxLines = 3
  MaxOutages = 1
CONSTRAINT MCBounded
INVARIANTS
  MainTypeOK
  ProperCallsAccepted
  ServesWhatWasAsked
  VerboseObeyed
  FileFollowsScreen
  AbortIsOnRecord
CHECK_DEADLOCK FALSE
