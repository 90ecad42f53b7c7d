SPECIFICATION FairSpec
CHECK_DEADLOCK FALSE
CONSTANTS
  w = w
  NoCallId = NoCallId
  CallIds = {w}
  Blocks = {0, 1}
  Tools = {0, 1}
  MessagesFrames <- MCMessagesFrames
  ChatFrames <- MCChatFrames
  MessagesBodies <- MCMessagesBodies
  ChatBodies <- MCChatBodies
  MaxFrames = 3
INVARIANTS
  CallsReported
PROPERTIES
  ClientSeesItems
  StreamEnds
