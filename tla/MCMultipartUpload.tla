-------------------------- MODULE MCMultipartUpload --------------------------
(* Small instances of MultipartUpload for TLC.                             *)
EXTENDS MultipartUpload, TLC

Symmetry == Permutations(Paths) \cup Permutations(Requests)
            \cup Permutations(Uploads) \cup Permutations(Bodies)

\* The key is new, or holds an object of one part.
PlainObjects == {None} \cup [path : Paths, etag : [{1} -> Bodies]]
=============================================================================
