SPECIFICATION Spec
CONSTANTS
  Upper <- MCUpper
  Contents <- MCContents
  Reads <- MCReads
  Writes <- MCWrites
  Keys = {key}
  Characters <- MCCharacters
  Absent = Absent
  None = None
  S = S
  s = s
  T = T
  key = key
  MaxTime = 4
  MaxEdits = 3
  MaxCrashes = 1
INVARIANTS
  TypeOK
  SavedReadsBack
PROPERTIES
  ReadsWhatTheFileSays
