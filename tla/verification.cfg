CONSTANTS
  Forms = {f1, f2}
  Errors = {e1}
  Null = Null
  Keep = Keep
  Workers = {w1, w2}
  NoSession = NoSession
SPECIFICATION Spec
INVARIANT TypeOK
INVARIANT VerdictIsAboutForm
INVARIANT InProgressIsWorkedOn
PROPERTY ReviewedFormWasVerified
PROPERTY VerificationEnds
PROPERTY PendingFormIsJudged
