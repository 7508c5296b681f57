SPECIFICATION StartSpec
CONSTANTS
  Unset = Unset
  NotScalar = NotScalar
  Broken = Broken
  NoOption = NoOption
  Abbreviations <- MCAbbreviations
  Numbers <- MCNumbers
  JobsLimit = 16
  CommandLines <- MCCommandLines
  Contents <- MCContents
  Files <- MCFiles
  Concurrency <- MCConcurrency
INVARIANTS
  TypeOK
  AnswersTheQuestion
  PassesAgree
  PatternValuesChosen
  EveryWordCounts
  JobsAsAsked
  TreeIsFile
  PatternsAsDeclared
  RefusedForAReason
  MostSpecificWins
