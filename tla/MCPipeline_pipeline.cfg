SPECIFICATION PipelineSpec
CONSTANTS
  Clients = {tab1}
  Creator = tab1
  Mirrored = TRUE
  MayCrash = TRUE
  MaxEvents = 1
  MaxDrops = 1
  MaxStops = 2
  MaxTrouble = 2
  MaxMissed = 1
INVARIANTS
  TypeOK LastWord ExactlyOnce NeverTwice ToldTheTruth TranscriptTrue
  QuestionRouted AnswerAccounted FindingsWeighed
  SourcesAgree SeriesHonest ForecastsSound EconomicsGrounded
PROPERTIES NothingBegunAfterStop KeepsPromise
CHECK_DEADLOCK FALSE
