------------------------------- MODULE MCFutex -------------------------------
(* Small instances of Futex: two threads and two words, a condition          *)
(* variable's and a mutex's.                                                 *)
EXTENDS Futex
=============================================================================
