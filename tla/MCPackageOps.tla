---------------------------- MODULE MCPackageOps ----------------------------
(* Instances of PackageOps for TLC: processes, projects, configurations and *)
(* sources are interchangeable, as no property is about liveness.           *)
EXTENDS PackageOps, TLC

Symmetry == UNION {Permutations(x) : x \in {Process, Project, Config, Source}}

=============================================================================
