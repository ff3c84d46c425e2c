----------------------------- MODULE MCSendChunks -----------------------------
(***************************************************************************)
(* Instances of SendChunks for TLC.                                        *)
(***************************************************************************)
EXTENDS SendChunks

SomeLengths == 0 .. 4 * ChunkSize + 1
=============================================================================
