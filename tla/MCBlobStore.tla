---------------------------- MODULE MCBlobStore ----------------------------
(***************************************************************************)
(* Blobs for BlobStore: the empty one, short ones, one that is too large   *)
(* for int, and in MCLossy one that LZ4 cannot take.                       *)
(***************************************************************************)
EXTENDS BlobStore

MCByte == {0, 1}

MCContent == {<<>>, <<1, 0>>, <<1, 1, 1, 1, 1>>}
MCLossy == {<<>>, <<1, 0>>, <<1, 1, 1>>}
=============================================================================
