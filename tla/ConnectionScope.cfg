\* Two concurrent requests and a rotation, with a model-details endpoint and a
\* mapped usage endpoint configured, under the fairness of clocks and timeouts.
SPECIFICATION FairSpec
CONSTANTS
  Accounts = {a, b}
  Handlers = {h1, h2}
  None = None
  MaxEpoch = 2
  CredentialsReturn = FALSE
  DetailsEndpoint = TRUE
  UsageEndpoint = TRUE
INVARIANTS
  CatalogOfActiveAccount
  DetailsOfCatalogAccount
  UsageOfActiveAccount
  AnswersAreNotOlder
PROPERTIES
  KeepsPromise
  RotationTakesEffect
  CatalogWaitEnds
