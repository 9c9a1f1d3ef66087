------------------------------ MODULE WorkPool ------------------------------
(***************************************************************************)
(* What a launch of a persistent-queue kernel promises its caller: every   *)
(* task the operation accepts is carried out exactly once, in any order,   *)
(* and the launch is over only when all of them have been.                 *)
(***************************************************************************)
EXTENDS Naturals

CONSTANTS
  Accepted   (* the tasks to be carried out *)

VARIABLES
  executed,  (* how often each task has been carried out *)
  over       (* the kernel has returned                  *)

vars == <<executed, over>>

Init ==
  /\ executed = [n \in Accepted |-> 0]
  /\ over = FALSE

Execute(n) ==
  /\ executed[n] = 0
  /\ executed' = [executed EXCEPT ![n] = 1]
  /\ UNCHANGED over

Finish ==
  /\ \A n \in Accepted : executed[n] = 1
  /\ ~over
  /\ over' = TRUE
  /\ UNCHANGED executed

Next == Finish \/ \E n \in Accepted : Execute(n)

Spec == Init /\ [][Next]_vars /\ WF_vars(Next)
=============================================================================
