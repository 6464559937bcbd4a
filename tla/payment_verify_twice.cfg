CONSTANTS
  Intents = {legacy}
  Legacy = legacy
  Others = {}
  Subscriptions = {}
  NoIntent = NoIntent
  Sessions = {s1, s2}
  NoRequest = NoRequest
  NoEvent = NoEvent
SPECIFICATION Spec
PROPERTY VerifyIsIdempotent
