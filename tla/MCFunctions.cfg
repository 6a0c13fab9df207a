SPECIFICATION MCSpec
CONSTANTS
  NULL = NULL
  Byte <- MCByte
  UlongMax = 190
  CodeLength = 2
  LineSize = 4
  MinLength = 1
  HeaderSize = 3
  EntrySize = 2
INVARIANTS ExtractFindsMember EscapeDecodes TokenPassesThrough HeaderEndFound InputTextsJudged PatchOnce
CHECK_DEADLOCK FALSE
