----------------------------- MODULE AtomicStore -----------------------------
(***************************************************************************)
(* What a file system with a journal promises: a power loss leaves the      *)
(* state of the last commit or, if it falls into a commit, possibly the     *)
(* state that was being committed, and never anything else.                 *)
(***************************************************************************)
CONSTANT States      \* the states of the file system

VARIABLES working,   \* the state that the mounted file system shows
          stable     \* the states that a power loss may leave behind

store == <<working, stable>>

Init == \E s \in States : working = s /\ stable = {s}

\* An operation changes what is shown; nothing of it is stable yet.
Change == /\ \E s \in stable : stable = {s}
          /\ working' \in States
          /\ UNCHANGED stable

\* The commit record is on its way to the device.
Begin == /\ stable' = stable \cup {working}
         /\ UNCHANGED working

\* The commit record has reached it.
Finish == /\ working \in stable
          /\ stable' = {working}
          /\ UNCHANGED working

PowerLoss == \E s \in stable : working' = s /\ stable' = {s}

Next == Change \/ Begin \/ Finish \/ PowerLoss

Spec == Init /\ [][Next]_store
=============================================================================
