SPECIFICATION Spec
CHECK_DEADLOCK FALSE
CONSTANTS
  w1 = w1
  w2 = w2
  s1 = s1
  s2 = s2
  s3 = s3
  s4 = s4
  NoWsi = NoWsi
  NoSession = NoSession
  Absent = Absent
  Wsi <- MCWsi
  SessionId <- MCSessionId
  Message <- Kind
PROPERTY
  CallbackReturns
