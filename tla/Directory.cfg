\* A tree under all operations, in each of five settings.
SPECIFICATION Spec
CONSTANTS
  Requests = {r1, r2}
  FilePaths <- MCFiles
  DirPaths <- MCDirs
  None = None
  Settings <- MCSettings
SYMMETRY Symmetry
INVARIANTS TypeOK FilesHaveObjects TreeConnected 
\* Without requests the system rests.
CHECK_DEADLOCK FALSE
