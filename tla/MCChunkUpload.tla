--------------------------- MODULE MCChunkUpload ---------------------------
(* Instances of ChunkUpload for TLC.                                        *)
EXTENDS ChunkUpload, TLC

Symmetry == Permutations(Requests) \union Permutations(Uploads)
=============================================================================
