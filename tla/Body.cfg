SPECIFICATION Spec
CONSTANTS
  MaxBody = 2
  Sizes <- MCSizes
  MaxSent = 6
  MaxReads = 4
INVARIANTS
  TypeOK
  BodyBounded
  AnsweredOnce
