\* All dependency declarations over four names, known and unknown; mappings
\* and kinds on up to three of them.
CONSTANTS
  a = a
  b = b
  c = c
  d = d
  Names <- MCNames
  Keys = {"x"}
  Designs <- MCDesigns
SPECIFICATION MCSpec
INVARIANTS LevelsRespectDeps VerdictIsRight InputsAccounted
