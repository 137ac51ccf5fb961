SPECIFICATION LiveSpec
CONSTANTS
  a = a
  b = b
  c = c
  Bye = Bye
  NoMsg = NoMsg
  Msgs2 <- MCMsgs2
  Msgs3 <- MCMsgs3
  PubMax = 2
  EvMax = 3
  PublishMax = 2
  StartMax = 1
INVARIANTS
  SendTypeOK
  OnePlace
  AttemptsAddUp
  InOrder
PROPERTY
  Settles
