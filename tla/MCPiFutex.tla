------------------------------ MODULE MCPiFutex ------------------------------
(* Small instances of PiFutex: three threads that share one lock.            *)
EXTENDS PiFutex
=============================================================================
