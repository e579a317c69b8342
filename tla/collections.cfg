CONSTANTS
  root = root
  template = template
  Collections = {root, c1, c2}
  Resources = {r1, r2}
  Texts = {v1, v2}
  sample = v1
  None = None
  MaxTouched = 3
SPECIFICATION OnceSpec
INVARIANT TypeOK
INVARIANT TabsAreOfNodes
INVARIANT Sequential
INVARIANT CleanIsSaved
PROPERTY ReloadShowsFiles
SYMMETRY Alike
VIEW Merged
CONSTRAINT Bounded
CHECK_DEADLOCK TRUE
