CONSTANTS
  RX_BUFFER = 20
  TEMP = 6
  Messages <- Tricky
  Noise <- Quiet
  MaxItems = 2
SPECIFICATION FairSpec
INVARIANTS TypeOK NoOverflow BytesInOrder NothingParsableWhileWaiting
PROPERTIES DecodesStream DeliversInOrder PollsLeavePort ReadReturns EventuallyDelivered
