CONSTANTS
  Keys <- KeysTyped
  MaxInputs = 2
  Pasted = {"q"}
  MaxPaste = 1
  Longest = 2
SPECIFICATION Spec
INVARIANT PasteNeverStops
CHECK_DEADLOCK FALSE
