-------------------------------- MODULE Feed --------------------------------
(***************************************************************************)
(* What the change feed of an account promises: one log of changes that    *)
(* only grows, and readers that have each read a beginning of it.  Nothing *)
(* is ever put in front of what a reader has read.                         *)
(***************************************************************************)
EXTENDS Naturals, Sequences

CONSTANT Reader

VARIABLES
  log,  \* the changes of the account, in the order they were made known
  seen  \* how many of them each reader has been given

vars == <<log, seen>>

Init == log = <<>> /\ seen = [r \in Reader |-> 0]

Publish ==
  /\ Len(log') > Len(log)
  /\ \A i \in 1..Len(log) : log'[i] = log[i]
  /\ UNCHANGED seen

Read(r) ==
  /\ \E n \in (seen[r] + 1)..Len(log) : seen' = [seen EXCEPT ![r] = n]
  /\ UNCHANGED log

Next == Publish \/ \E r \in Reader : Read(r)

Spec == Init /\ [][Next]_vars
=============================================================================
