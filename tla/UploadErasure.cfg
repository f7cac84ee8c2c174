CONSTANTS
  u1 = u1
  u2 = u2
  c1 = c1
  c2 = c2
  NoKey = NoKey
  Windows <- Pairs
  Contents = {c1, c2}
  Names = {"cv.pdf", ".pdf"}
  Uploads = {u1, u2}
SPECIFICATION UploadSpec
INVARIANTS RowHasItsBlob BlobHasItsRow OneCreated
SYMMETRY UploadSymmetry
CHECK_DEADLOCK FALSE
