SPECIFICATION FairSpec
CONSTANTS
  N = 3
  System = 2
  Clients = {c1}
  c1 = c1
  MayExit = FALSE
  Prompt = TRUE
INVARIANTS TypeOK RegistryIsTrue TimesOutOnlyIfEarly
PROPERTIES OnlyTheNamed ReportIsTrue CallsReturn
