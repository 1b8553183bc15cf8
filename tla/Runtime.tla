------------------------------- MODULE Runtime -------------------------------
(***************************************************************************)
(* The two holders of servers and listeners in one verysimple process:    *)
(* the machine that the GUI and the API drive (Machine), and the          *)
(* interactive mode's own lists (Interactive).  They share no variable,   *)
(* so their steps interleave freely.                                       *)
(***************************************************************************)
EXTENDS Machine, Interactive

RuntimeNext == \/ Next /\ UNCHANGED ivars
               \/ INext /\ UNCHANGED vars

RuntimeSpec == Init /\ IInit /\ [][RuntimeNext]_<<vars, ivars>>

(* Both holders keep their handles sound: LifecycleSound of the machine   *)
(* and InteractiveSound of the interactive mode.                          *)
RuntimeSound == LifecycleSound /\ InteractiveSound
=============================================================================
