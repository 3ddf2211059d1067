SPECIFICATION Spec
CONSTANTS
  d1 = d1
  d2 = d2
  d3 = d3
  e1 = e1
  e2 = e2
  e3 = e3
  e4 = e4
  e5 = e5
  e6 = e6
  u1 = u1
  createRef = createRef
  create1 = create1
  create3 = create3
  update1 = update1
  update1again = update1again
  update3 = update3
  update3again = update3again
  name1 = name1
  name2 = name2
  refer1 = refer1
  refer2 = refer2
  delete1 = delete1
  deleteDoc = deleteDoc
  undelete1 = undelete1
  undeleteDoc = undeleteDoc
  relink1 = relink1
  relink2 = relink2
  refer6 = refer6
  Nothing = Nothing
  Docs <- MCDocs
  Entities <- MCEntities
  Urls = {u1}
  Existing <- MCExisting
  InitialRefs <- MCInitialRefs
  InitialUrls <- MCInitialUrls
  Asks <- MCAsks
  p1 = p1
  p2 = p2
  Procs = {p1, p2}
  Requests = {createRef, create3, update1, update1again, name1, name2, refer1, refer2, delete1, deleteDoc, undelete1, undeleteDoc, relink1}
  MaxRequests = 3
  Snapshot = FALSE
  WriteAttempts = 3
  RelinkBatch = 2
SYMMETRY Alike
PROPERTIES
  EditsAreNotLost
  AnnouncedVersions
CHECK_DEADLOCK FALSE
