SPECIFICATION MCSpec

CONSTANTS
  Base = 4
  IntegerLength = 2
  DigestLength = 1
  MaxLength = 7
  Blobs <- MCBlobs
  Directories <- MCDirectories
  Digests <- MCDigests
  Texts <- MCTexts
  TextDigestSize = 2

INVARIANTS
  TextIdentifiesDigest
  ParsesExactlyDigests
  CursorInBlob
  DecodesWhatWasEncoded
  AcceptsOnlyEncodings

CHECK_DEADLOCK FALSE
