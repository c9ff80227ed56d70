\* A scanned PDF with versions on which OCR throws or that cannot be read, and a DOCX the
\* server refuses to extract; one kill, lost answers.
CONSTANTS
  pdf = pdf
  docx = docx
  None = None
  Files <- MCFiles
  Edited <- MCEdited
  MaxVersion = 3
  ImageOnly <- MCImageOnly
  Blank <- MCBlank
  Unreadable <- MCUnreadable
  OcrThrows <- MCOcrThrows
  Refused <- MCRefused
  BatchMax = 2
  Staggered = TRUE
  MaxCrashes = 1
SPECIFICATION Spec
INVARIANTS
  TypeOK
  ManifestConfirmed
  NeverStranded
PROPERTIES
  CaughtUp
  Drained
