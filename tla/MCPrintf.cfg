\* One directive of every kind, and two or three, the end of the buffer anywhere.
SPECIFICATION FSpec
CONSTANTS
  MaxBits = 6
  RankBits <- MCRankBits
  PointerBits = 5
  Characters <- MCCharacters
  Arguments <- MCArguments
  Directives <- MCDirectives
  Formats <- MCFormats
  Sizes = {0, 1, 4, 6, 20}
  Slack = 4
INVARIANTS WithinBuffer Rendered ReadsBack
PROPERTY Advances
