SPECIFICATION Spec
CONSTANTS
  w1 = w1
  w2 = w2
  w3 = w3
  f1 = f1
  f2 = f2
  m1 = m1
  m2 = m2
  m3 = m3
  err = err
  LogStories <- MCLogStories
  MaxEntries = 5
  MaxTears = 2
  SavedStories <- MCStories
  PathOf <- MCPathOf
  MaxSaves = 4
  Versions <- MCVersions
  Statements = 2
  MaxStops = 2
  StateFiles <- MCFiles
  MaxBackups = 2
  MaxSeconds = 3
  MaxChanges = 2
  Contents <- MCContents
  ContentsOf <- MCContentsOf
  Similar <- MCSimilar
  ErrorPrints <- MCErrorPrints
  Cap = 3
  MaxMemories = 4
  MaxDecays = 1
  MaxRestarts = 1
  MaxFailures = 4
  MaxShortSaves = 2
  MaxLives = 3
INVARIANTS LossIsBounded RecoversWhatWasAcked LoadsLatest OneOutOfStep CopiesAreWhole
           RulesHaveTheirSource
PROPERTY GoesOnlyForBetter
CHECK_DEADLOCK FALSE
