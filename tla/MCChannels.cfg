SPECIFICATION Spec
CONSTANTS
  a = a
  b = b
  c = c
  d = d
  e = e
  f = f
  q1 = q1
  q2 = q2
  r1 = r1
  own = own
  friend = friend
  u1 = u1
  u2 = u2
  Sends = {a, b, c}
  Requests = {q1, q2}
  RequestOf <- RequestOfSend
  PolicyOf <- PolicyOfSend
  RecipientsOf <- RecipientsOfSend
  MaxGateCrashes = 1
  MaxTaps = 3
  TgMsgs = {a, b, c, d, e, f}
  SenderOf <- SenderOfMsg
  TierOf <- TierOfSender
  Media = {c}
  Shortcuts = {f}
  MaxDeliveries = 3
  MaxTgFaults = 1
  MaxReplies = 1
  SendTexts <- Texts
  ChunkMax = 5
  MaxAttempts = 3
  Contacts = {s1, s2}
  Window = 3
  PerWindow = 2
  MaxClock = 5
  Recordings = {q1, q2}
  Notices = {n1}
  VoiceClients = {c1, c2}
  MaxSwitches = 2
  MaxClientOps = 4
PROPERTIES   SendIsFaithful LimitsHold 
CHECK_DEADLOCK FALSE
