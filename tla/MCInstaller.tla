----------------------------- MODULE MCInstaller -----------------------------
(***************************************************************************)
(* Installer on small instances: requests, names and databases are         *)
(* interchangeable.                                                        *)
(***************************************************************************)
EXTENDS Installer, TLC

InstallSymmetry == Permutations(Posts) \cup Permutations(Names) \cup Permutations(Databases)
=============================================================================
