CONSTANTS
  Subs = {s1}
  Emails = {"ann@example.com"}
  EmailOf <- OneAddress
  NoEmail = NoEmail
  NoMail = NoMail
  Prices = {"pro price", "old price"}
  PriceTier <- OnePrice
  NoTier = NoTier
  Workers = {r1, r2}
  NoRow = NoRow
  NoSession = NoSession
  MaxEvents = 3
  MaxOverlap = 2
  Addresses = {a1, a2}
  Tokens = {t1, t2, t3}
  Requests = {r1, r2}
  NoToken = NoToken
  NoRequest = NoRequest
  Apps = {a1, a2}
  Slots <- TwoSlots
  Desks = {r1, r2}
  NoSlot = NoSlot
  Free = Free
  Invitees = {"bob@example.com"}
  Handlers = {r1, r2}
  NoMeeting = NoMeeting
  NoEvent = NoEvent
  Idle = Idle
  MaxMeetings = 2
  MaxLinks = 1
SYMMETRY Symmetry
SPECIFICATION PartsSpec
INVARIANT PartsTypeOK
INVARIANT RowFollowsStripe
INVARIANT AnsweredIsAnnounced
INVARIANT OneLiveLink
INVARIANT CallsDoNotOverlap
INVARIANT CalledWhileMeetingStands
PROPERTY AddressIsKept
PROPERTY LinkWorksOnce
CHECK_DEADLOCK FALSE
