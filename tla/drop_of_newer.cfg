\* A scan that re-queues an edited PDF while the OCR worker is running; no kills.
CONSTANTS
  pdf = pdf
  docx = docx
  None = None
  Files <- MCFiles
  Edited <- MCEdited
  MaxVersion = 2
  ImageOnly <- MCImageOnly
  Blank <- MCNothing
  Unreadable <- MCNothing
  OcrThrows <- MCNothing
  Refused <- MCNothing
  BatchMax = 2
  Staggered = TRUE
  MaxCrashes = 0
SPECIFICATION Spec
INVARIANT Settled
