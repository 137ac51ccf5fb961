SPECIFICATION Spec
CONSTANTS
  a = a
  b = b
  c = c
  Bye = Bye
  NoMsg = NoMsg
  Msgs2 <- MCMsgs2
  Msgs3 <- MCMsgs3
  PubMax = 1
  EvMax = 3
  PublishMax = 2
  StartMax = 1
INVARIANT
  ReceiptBrought
