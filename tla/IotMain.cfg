SPECIFICATION FairSpec
CONSTANTS
  Block = {b1, b2, b3, b4}
  Reporter = {demo}
  Paho = paho
  Main = main
  None = None
  QueueLen <- Slots
  MaxReplies <- OneReply
INVARIANTS TypeOK MessagesOwned SessionResources
PROPERTIES ChannelSafe LostSessionIsClosed QueuedIsTaken ChannelLive
