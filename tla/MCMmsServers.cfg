CONSTANTS
  Assocs = {a1, a2}
  Leaves <- MCLeaves
  Vals = {0, 1}
  Wrong = wrong
  Path <- MCPath
  Fault <- MCFault
  Writable <- MCWritable
  Triggers <- MCTriggers
  Reports <- MCReports
  Names <- MCNames
  NoList = nolist
  StartValue <- MCStartValue
  StartLists <- MCStartLists
  Requests <- MCRequests
  PageMax = 1
  MaxRequests = 3
  Users = {"u1", "u2"}
  StartDir <- MCStartDir
  StartBytes <- MCStartBytes
  ClientFiles <- MCClientFiles
  Plans <- MCPlans
  Chunk = 1
  MaxUpsets = 2
SPECIFICATION Spec
INVARIANTS WalkComplete FilesWhole
PROPERTIES StoreSpec AllAnswered
CHECK_DEADLOCK FALSE
