CONSTANTS
  MaxVersion = 4
  EditsInWindow = FALSE
SPECIFICATION Spec
INVARIANT OwnFileRecognised ReadyNamesReport
PROPERTY UserFileKept
