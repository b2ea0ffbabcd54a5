CONSTANT Files <- MCFiles
SPECIFICATION Spec
INVARIANTS
  TypeOK
  LoadsWhatTheFileSays
  UndefinedOnlyIfMalformed
