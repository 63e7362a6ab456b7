------------------------------ MODULE MCReaper ------------------------------
(* Reaper with one process PID1 waits for and two orphans.                 *)
EXTENDS Reaper

MCKids == {"k0s"}
MCOrphans == {"shim", "pause"}
=============================================================================
