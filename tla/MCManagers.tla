------------------------------ MODULE MCManagers ------------------------------
(* The managers for TLC: Managers.cfg, with events that arrive or vanish;  *)
(* ManagersCable.cfg and ManagersRelease.cfg, with events that arrive: two *)
(* statements of the sources that do not hold.                             *)
EXTENDS Managers
=============================================================================
