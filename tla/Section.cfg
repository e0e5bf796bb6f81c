SPECIFICATION SectionSpec
CONSTANTS
  Chars <- MCChars
  Opts <- MCOpts
  Values <- MCValues
  Files <- AnyFile
INVARIANT TextIsTrue
PROPERTY DeleteKeepsOthers
CHECK_DEADLOCK FALSE
