------------------------------- MODULE MCUploads -------------------------------
(* Instances of Uploads for TLC.                                           *)
EXTENDS Uploads, TLC

\* Identifiers and contents are interchangeable.
Interchangeable == Permutations(Uploads) \cup Permutations(Jobs)
    \cup Permutations(Clients) \cup Permutations(Keys) \cup Permutations(Bytes)
===============================================================================
