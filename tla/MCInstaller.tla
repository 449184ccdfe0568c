---------------------------- MODULE MCInstaller ----------------------------
(* Instances of Installer for TLC: who runs, and which commands.  Without   *)
(* the schedule command a check-in is only ever scheduled by an install;    *)
(* unschedule is the first step of a removal, disable the last of an        *)
(* installation.                                                            *)
EXTENDS Installer

CONSTANT p1

OneProcess == {p1}

Cycle == Command \ {"schedule", "unschedule", "disable"}

=============================================================================
