SPECIFICATION SysFairSpec
CONSTANTS
  Block = {b1, b2}
  Reporter = {demo}
  Paho = paho
  Main = main
  None = None
  QueueLen <- Slots
  MaxReplies <- OneReply
  Demo = demo
  Handler = handler
  Faults <- OnlyLosses
PROPERTIES ComesBackOnline ServiceIsRestored
