--------------------------- MODULE DurableRegister ---------------------------
(***************************************************************************)
(* What a directory with a checkpoint promises its users: a register that  *)
(* holds one written value at a time, whole.  A value that has been        *)
(* published but not yet settled may be there or not after a crash, and    *)
(* then for good; a settled value is all a crash can leave.                *)
(***************************************************************************)
EXTENDS Naturals

CONSTANTS
  Values,   (* what is ever written  *)
  Nothing   (* there is no value yet *)

VARIABLES
  current,  (* what a reader finds now                 *)
  possible  (* what a reader may find after a crash now *)

vars == <<current, possible>>

Init ==
  /\ current = Nothing
  /\ possible = {Nothing}

Publish(v) ==
  /\ v \notin possible
  /\ current' = v
  /\ possible' = possible \cup {v}

Settle ==
  /\ possible' = {current}
  /\ UNCHANGED current

Crash ==
  /\ current' \in possible
  /\ possible' = {current'}

Next == Settle \/ Crash \/ \E v \in Values : Publish(v)

Spec == Init /\ [][Next]_vars
=============================================================================
