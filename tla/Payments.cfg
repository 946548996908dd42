CONSTANTS
  Clients = {c1, c2}
  MaxInt = 99999
  CheckoutIds <- MCCheckoutIds
  Scenes <- MCScenes

SPECIFICATION Spec
CHECK_DEADLOCK FALSE

INVARIANTS
  RowsFollowCharges
  RepeatsAreAccepted

PROPERTIES
  PaidIsRecorded
