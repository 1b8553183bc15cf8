---------------------------- MODULE UserRegistry ----------------------------
(***************************************************************************)
(* What a user registry promises (spec, sections 3 and 8): a set of users *)
(* that Add grows and Delete shrinks, and an authentication lookup that   *)
(* finds exactly the users in the set.  lastOp names the call of the      *)
(* last step, so that a call which changes nothing is still a step that   *)
(* must do what the call promises.                                        *)
(***************************************************************************)
CONSTANT Users

VARIABLES registered, lastOp

Init == registered = {} /\ lastOp = <<"none">>

Add(u) == registered' = registered \cup {u} /\ lastOp' = <<"add", u>>

Delete(u) == registered' = registered \ {u} /\ lastOp' = <<"del", u>>

Load(us) == registered' = registered \cup us /\ lastOp' = <<"load", us>>

Next == \/ \E u \in Users : Add(u) \/ Delete(u)
        \/ \E us \in SUBSET Users : Load(us)

Spec == Init /\ [][Next]_<<registered, lastOp>>
=============================================================================
