CONSTANTS
  e1 = e1
  e2 = e2
  f1 = f1
  f2 = f2
  f3 = f3
  Editors = {e1}
  Lemma <- MCLemma
  Files = {f1, f2}
  NoFile = NoFile
  UploadStatus = "201"
  MaxDeletes = 1
SPECIFICATION FairSpec
PROPERTY StoredIsAttached
