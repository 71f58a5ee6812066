SPECIFICATION Spec
CONSTANTS
  Python = Python
  SQL = SQL
  Thesis = Thesis
  s1 = s1
  Technology = {Python, SQL}
  Projects <- MCProjects
  Imported <- MCImported
  Savers = {s1, s2}
  TagSets = {{}, {Python}}
  FormStatuses = {"staffed"}
  MaxSaves = 3
  MaxDecisions = 1
  Containers = {c1}
  Uploads = {u1}
  Files <- MCFiles
  AllowMissing = TRUE
  FailOnErrors = TRUE
  Commands = {"start", "force", "import"}
  MaxStarts = 2
  MaxDeaths = 1
CONSTRAINT SavesOrImports
INVARIANTS
  TypeOK
  RowsAreWhole
  StatsAddUp
  CleanImportsAreComplete
  DirectoryHolds
CHECK_DEADLOCK FALSE
