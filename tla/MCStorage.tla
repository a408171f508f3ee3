------------------------------- MODULE MCStorage -------------------------------
(* The storage actor for TLC: Storage.cfg checks what it promises,         *)
(* StorageSearch.cfg that the search for the end of the log does not end.  *)
EXTENDS StorageManager
=============================================================================
