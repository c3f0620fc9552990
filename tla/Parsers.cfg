SPECIFICATION Spec
CONSTANTS
  Chars = {"L", "l", "H", "T", "P", "0", "1", "-", ".", ":", "/", " ", "tab", "cr", "lf", "8bit"}
  MaxInt = 58
  MaxSize = 10
  MaxLength = 1
  MaxDigits = 3
  MaxValue = 2
  MaxHeaders = 1
  MaxLws = 2
  Plain = {"L", "1", " "}
  MaxOdd = 1
INVARIANTS RoundTrip Agree
CHECK_DEADLOCK FALSE
