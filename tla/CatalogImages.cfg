CONSTANTS
  e1 = e1
  e2 = e2
  f1 = f1
  f2 = f2
  f3 = f3
  Editors = {e1, e2}
  Lemma <- MCLemma
  Files = {f1, f2, f3}
  NoFile = NoFile
  UploadStatus = "200"
  MaxDeletes = 1
SPECIFICATION FairSpec
INVARIANTS TypeOK AttachedImagesAreWhole NothingDangles NoMixUp
PROPERTIES StoredIsAttached
