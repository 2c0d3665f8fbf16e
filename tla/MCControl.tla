----------------------------- MODULE MCControl -----------------------------
(* Instances of Control: one app with two processes, a uid shared by three    *)
(* packages, and two apps.                                                    *)
EXTENDS Control, TLC

CONSTANTS p1, p2, p3, app, other

OnePackage == [p \in Procs |-> 1]
PackageEach == [p \in Procs |-> CASE p = p1 -> 1 [] p = p2 -> 2 [] OTHER -> 3]
TwoPackages == [p \in Procs |-> IF p = p1 THEN 1 ELSE 2]
OneUid == [k \in Packages |-> app]
TwoUids == [k \in Packages |-> IF k = 1 THEN app ELSE other]
=============================================================================
