------------------------- MODULE MCManagedInstaller -------------------------
(* An instance of ManagedInstaller for TLC.                                *)
EXTENDS ManagedInstaller

\* The first and the last attempt install the same version.
MCPathOf == [t \in Tree |-> IF t = 4 THEN 1 ELSE t]
=============================================================================
