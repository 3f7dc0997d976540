---------------------------- MODULE MCEncodedCache ----------------------------
(* EncodedCache on small instances: two trainers, a dataset edited back and forth. *)
EXTENDS EncodedCache
===============================================================================
