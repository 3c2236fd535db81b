SPECIFICATION FairSpec
CONSTANTS
  Requests = {r1, r2}
  Domains = {"api", "bad url"}
  Malformed = {"bad url"}
  NoClient = NoClient
  MaxInflight = 1
  Inputs <- MCInputs
INVARIANTS
  TypeOK
  UpstreamBounded
  CallsAreCounted
  OneClientPerDomain
  CallsRestOnLookup
PROPERTIES
  AnsweredOnce
  EveryRequestEnds
  DomainRecovers
