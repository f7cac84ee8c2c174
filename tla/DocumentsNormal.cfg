CONSTANTS
  Characters <- MCCharacters
  Uploads <- MCUploads
  Recognised <- MCRecognised
  Answers <- MCAnswers
  MinQuoteChars = 2
  MinStrippedChars = 3
  CountLimit = 2
  MinWords = 4
  RowTolerance = 1
  MinSideShare = 25
  MinPageChars = 2
  OcrPages = 1
  MaxAsked = 2
  MaxRuns = 2
SPECIFICATION DocSpec
INVARIANTS TextIsNormal
CHECK_DEADLOCK FALSE
