--------------------------- MODULE AtomicExchange ---------------------------
(***************************************************************************)
(* What a coupled run promises: accepted states follow each other window   *)
(* by window, each window moves an amount from the gas to the solid as a   *)
(* whole or not at all, radiation brings in what its budget says, and a    *)
(* run resumes only from a state that had been accepted and saved.         *)
(***************************************************************************)
EXTENDS Integers

CONSTANTS
  Interval,  (* length of a coupling window *)
  EndTime    (* where the run ends          *)

VARIABLES
  accepted,  (* the accepted state            *)
  saved      (* accepted states on disk       *)

vars == <<accepted, saved>>

Smaller(a, b) == IF a =< b THEN a ELSE b

Init ==
  /\ accepted.time = 0 /\ accepted.commits = 0
  /\ accepted.gas + accepted.solid = accepted.budget
  /\ saved = {}

Exchange ==
  /\ accepted.time < EndTime
  /\ accepted'.time = Smaller(EndTime, accepted.time + Interval)
  /\ accepted'.commits = accepted.commits + 1
  /\ (accepted'.gas - accepted.gas) + (accepted'.solid - accepted.solid)
       = accepted'.budget - accepted.budget
  /\ UNCHANGED saved

Save ==
  /\ saved' = saved \cup {accepted}
  /\ UNCHANGED accepted

Resume ==
  /\ accepted' \in saved
  /\ UNCHANGED saved

Next == Exchange \/ Save \/ Resume

Spec == Init /\ [][Next]_vars
=============================================================================
