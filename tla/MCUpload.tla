------------------------------ MODULE MCUpload ------------------------------
(* Instances of Upload for TLC: clients, files and upload ids are            *)
(* interchangeable.                                                          *)
EXTENDS Upload, TLC
Symmetry == Permutations(Clients) \cup Permutations(Filenames)
            \cup Permutations(UploadIds)
=============================================================================
