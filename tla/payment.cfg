CONSTANTS
  Intents = {legacy, i1, i2}
  Legacy = legacy
  Others = {sub}
  Subscriptions = {sub}
  NoIntent = NoIntent
  Sessions = {s1, s2}
  NoRequest = NoRequest
  NoEvent = NoEvent
SPECIFICATION Spec
INVARIANT TypeOK
INVARIANT ConfirmationNeedsCharge
INVARIANT RecordedIntentWasConfirmed
PROPERTY PaidIsNotForgotten
PROPERTY ChargeIsHonoured
