-------------------------- MODULE MCParallelImport --------------------------
(***************************************************************************)
(* Small files of pieces of two bytes for ParallelImport.  The contents    *)
(* have equal pieces next to different ones, lengths with and without a    *)
(* remainder, and enough pieces for two or three threads.                  *)
(***************************************************************************)
EXTENDS ParallelImport

CONSTANTS a, b

MCByte == {a, b}

\* A file of six pieces with its equal pieces apart, one of five pieces and a
\* remainder that differs in several pieces, one truncated to four pieces, one
\* too short for a piece, and the empty file.
MCContents ==
  { <<a, a, a, b, a, a, a, b, b, b, b, b>>,
    <<a, a, b, b, b, b, b, b, a, b, a>>,
    <<a, b, b, a, a, b, b, a>>,
    <<b>>,
    <<>> }
=============================================================================
