----------------------------- MODULE MCCleanUp -----------------------------
(* Instances of the registries for TLC.                                     *)
EXTENDS CleanUp

CONSTANTS x, y

\* one hook for the run of a program under doit, one for a stand-alone program
Hooks == x :> {"AtInit", "AtInitFn"} @@ y :> {"AtInitFn", "AtShutdown", "AtExit"}

\* before CML runs, everything but clean may be called
SetupOps == Operations \ {"clean"}

\* every operation that takes the lock once or not at all
FlatOps == Operations \ {"log", "export"}

=============================================================================
