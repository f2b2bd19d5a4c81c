SPECIFICATION StrSpec
CONSTANTS
  Names = {s1, s2, s3}
  Alphabet <- MCAlphabet
  MaxText <- MCMaxText
  WorkTexts <- MCWorkTexts
  MaxLength = 4
  MaxBuffers = 4
SYMMETRY AnyNames
INVARIANTS
  Utf8LengthOfValid
CHECK_DEADLOCK FALSE
