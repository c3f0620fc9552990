SPECIFICATION Spec
CONSTANTS
  Files <- AllFiles
  MaxDeferred = 2
INVARIANTS TypeOK SameMachine AsCommented ExitsAreLeft
PROPERTIES InterruptFreezes PlayIsRemembered Resumes
VIEW View
