SPECIFICATION WritersSpec
CONSTANTS
  Calls <- MCTextCalls
  Unprintable <- MCUnprintable
  Wide <- MCWide
INVARIANTS
  NumberIsWritten
  WidthIsKept
  DecodesWellFormedOnly
  CutAndPaddedInCharacters
  DebugReadsBack
  TextIsTheRoundedValue
  DigitsAreTheOnesAskedFor
  ShortestReadsBack
  GivenDigitsAreRounded
  ValuesAreRight
  DrawnAsAsked
