\* Both workers at once and one kill; no edits, no refusals.
CONSTANTS
  pdf = pdf
  docx = docx
  None = None
  Files <- MCFiles
  Edited <- MCNothing
  MaxVersion = 2
  ImageOnly <- MCImageOnly
  Blank <- MCNothing
  Unreadable <- MCNothing
  OcrThrows <- MCNothing
  Refused <- MCNothing
  BatchMax = 2
  Staggered = FALSE
  MaxCrashes = 1
SPECIFICATION Spec
INVARIANT NeverStranded
