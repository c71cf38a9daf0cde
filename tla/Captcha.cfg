\* One template, one captcha, two processes with one handler each, fair.
SPECIFICATION FairSpec
CONSTANTS
  Template = {t1}
  NoTemplate = NoTemplate
  CaptchaId = {c1}
  NoCaptcha = NoCaptcha
  MaxAttempts = 2
  n1 = n1
  n2 = n2
  r1 = r1
  r2 = r2
  Node = {n1, n2}
  Request = {r1, r2}
  NodeOf <- TwoNodes
INVARIANTS
  TypeOK
  NoOrphans
  AttemptsCounted
  SolvedOnce
PROPERTIES
  CopiesSettle
  ImplementsLives
  TemplateUpdateIsWhole
  SettledForGood
