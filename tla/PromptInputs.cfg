\* Windows of 0 to 3 tokens and outputs of up to 18 characters.
SPECIFICATION Spec
CONSTANTS
  Windows = {0, 1, 2, 3}
  MaxChars = 18
  Rules <- MCRules
  Limits <- MCLimits
  MaxWords = 6
  Sizes <- MCSizes
  Overlaps <- MCOverlaps
  DefaultSize = 4
  DefaultOverlap = 2
  Templates <- MCTemplates
  None = None
INVARIANTS WindowHeld ChunksCover TemplatesUsable
