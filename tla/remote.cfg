CONSTANTS
  uri = uri
  deployment = deployment
  service = service
  name = name
  test = test
  stest = stest
  job = job
  jobs = jobs
  cr = cr
  Uris = {uri}
  Kinds = {deployment, service}
  Names = {name}
  Namespaces = {test, stest}
  ApiVers = {job, jobs}
  Crs = {cr}
  MaxTime = 3
  Empty = Empty
  Failure = Failure
  Callers = {c1, c2}
  Asked <- AllAsked
  Joined <- Spelling
  Short = 1
  Long = 2
  Latency = 1
  MaxFetches = 2
  None = None
SPECIFICATION TopicSpec
INVARIANT AnswersAreData
INVARIANT BoundedStaleness
INVARIANT FreshWhenSaidSo
SYMMETRY Alike
CHECK_DEADLOCK TRUE
