\* A PDF that is edited under a busy OCR worker, two kills, lost answers; no entry that is
\* newer than the worker's own is dropped, and no kill tears the books.
CONSTANTS
  pdf = pdf
  docx = docx
  None = None
  Files <- MCFiles
  Edited <- MCEdited
  MaxVersion = 4
  ImageOnly <- MCImageOnly
  Blank <- MCBlank
  Unreadable <- MCUnreadable
  OcrThrows <- MCOcrThrows
  Refused <- MCNothing
  BatchMax = 2
  Staggered = TRUE
  MaxCrashes = 2
SPECIFICATION CarefulSpec
INVARIANT Settled
