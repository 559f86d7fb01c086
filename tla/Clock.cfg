SPECIFICATION Spec
CONSTANTS
  Period = 4
  MaxCarries = 3
  NoTime = NoTime
INVARIANTS
  BehindByWholeTurns
PROPERTY
  AgreementIsExact
