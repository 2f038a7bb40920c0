------------------------------ MODULE MCUpload ------------------------------
(* Three units of ciphertext; the file may be edited in place, then truncated. *)
EXTENDS Upload
MCSizes == <<3, 3, 2>>
=============================================================================
