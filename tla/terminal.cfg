SPECIFICATION Spec
CONSTANTS
  Chars <- MCChars
  Finals <- MCFinals
  Messages <- MCMessages
  Menus = {"webserial", "ports"}
  Root = "webserial"
  MaxMessages = 5
INVARIANTS TypeOK ReadOnce Redirected LineShown UpDown
\* MaxMessages ends the run
CHECK_DEADLOCK FALSE
