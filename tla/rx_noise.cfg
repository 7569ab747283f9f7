CONSTANTS
  RX_BUFFER = 18
  TEMP = 4
  Messages <- Plain
  Noise <- Loud
  MaxItems = 5
SPECIFICATION Spec
INVARIANTS Resynchronises
PROPERTIES DecodesStream
