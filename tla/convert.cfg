CONSTANTS
  hello = hello
  Texts = {hello}
  Hello = hello
  None = None
  MaxItems = 4
SPECIFICATION Spec
INVARIANT PanelShowsConversion
INVARIANT DerivedResults
INVARIANT ShallowFresh
CHECK_DEADLOCK TRUE
