SPECIFICATION PipelineSpec
CONSTANTS
  Half = 131072
  Second = 10
  Longest = 13107
  MaxOllama = 3600
  MaxConnect = 300
  DefaultS3 = 10
  DefaultOllama = 120
  DefaultConnect = 10
  Answers <- SomeAnswers
  Characters <- SomeCharacters
  Summaries <- SomeSummaries
  Responses <- SomeResponses
  Environments <- FewEnvironments
  Texts <- FewTexts
INVARIANTS
  EveryReadHasDeadline
