CONSTANTS
  Sessions = {s1}
  MaxQueries = 3
  MaxInbox = 2
  MaxCancels = 2
  NoToken = NoToken
SPECIFICATION CustomFairSpec
INVARIANTS CancelOwnQuery SlotIsQuery ToldIsStatus FailedRejected AwaitedIsPending
PROPERTIES CustomHangupEnds
