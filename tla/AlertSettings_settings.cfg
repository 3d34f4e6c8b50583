SPECIFICATION Spec
CONSTANTS
  Pages = {p1}
  Clients = {c1}
  u1 = u1
  e1 = e1
  Urls = {u1, e1}
  Secrets = {}
  Envs <- MCEnvs
  Bodies <- MCBodies
  InFlight = 2
  None = None
  Keep = Keep
  Error = Error
INVARIANTS IInv AnswerStands
PROPERTIES OnlyNamedChange UneditedKept
