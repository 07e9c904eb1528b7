------------------------------ MODULE MCEtcdLock ------------------------------
(* Instances of EtcdLock for TLC. *)
EXTENDS EtcdLock, TLC

CONSTANTS c1, c2, l1, l2, l3

Connected == {"ctx", "rpc", "crash"}
OnlyContext == {"ctx"}
===============================================================================
