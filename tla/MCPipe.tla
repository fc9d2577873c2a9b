------------------------------- MODULE MCPipe -------------------------------
(* Instances of Pipe for TLC: a process with two threads, and its child.     *)
EXTENDS Pipe

MCProcess == [t \in Threads |-> IF t = 3 THEN 2 ELSE 1]
=============================================================================
