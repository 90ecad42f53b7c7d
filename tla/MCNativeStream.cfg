SPECIFICATION Spec
CHECK_DEADLOCK FALSE
CONSTANTS
  Calls = {0, 1}
  Demanding = {1}
  Blocks = {0, 1}
  ChatFrames <- MCChatFrames
  MessagesFrames <- MCMessagesFrames
  ChatBodies <- MCChatBodies
  MessagesBodies <- MCMessagesBodies
  MaxFrames = 5
INVARIANTS
  BlocksInOrder
  CallsReported
  EndStands
PROPERTIES
  ClientSeesOneStream
