---------------------------- MODULE MCKeyedLock ----------------------------
(* Three callers and two ids: an entry can be freed and allocated again    *)
(* while another caller waits on the same id, and two ids are in use at    *)
(* once.  Three entries, since an entry in use has a caller.               *)
EXTENDS KeyedLock
=============================================================================
