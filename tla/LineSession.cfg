\* "\r\n" and text in all cuttings of up to seven bytes.
CONSTANTS
  r = r  n = n  x = x
  Byte = {r, n, x}
  separator <- CRLF
  MaxBytes = 7
SPECIFICATION Spec
INVARIANTS
  Conservation
  WholeLines
  OnlyShorterSkipped
  PacedLineByLine
