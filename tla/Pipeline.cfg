SPECIFICATION PatientSpec
CONSTANTS
  Half = 131072
  Second = 10
  Longest = 13107
  MaxOllama = 3600
  MaxConnect = 300
  DefaultS3 = 10
  DefaultOllama = 120
  DefaultConnect = 10
  Answers <- SomeAnswers
  Characters <- SomeCharacters
  Summaries <- SomeSummaries
  Responses <- SomeResponses
  Environments <- SomeEnvironments
  Texts <- SomeTexts
INVARIANTS
  PipelineTypeOK
  KeyNamesOneStock
  TimeoutsAreExact
  PrefetchIsExact
  ResultIsTruthful
  RightTextIsPosted
  AudienceIsRespected
PROPERTIES
  RewriteFailsOpen
  HandlingEnds
  ShutdownEndsHandling
