----------------------- MODULE MCDependencyValidation -----------------------
(* Pitfiles for the runs of DependencyValidation: every graph of three      *)
(* components a, b, c that may name one undeclared id x, and every graph of *)
(* three components that share the ids a and b.  A dependsOn is any list of *)
(* up to two ids, the same one twice included, or all of them in a row.     *)
EXTENDS DependencyValidation

CONSTANTS a, b, c, x

Lists(names) == {<<a, b, c, x>>} \cup BoundedSeq(names, 2)

Graphs(ids, names) == [id : ids, dependsOn : [1 .. 3 -> Lists(names)]]

AllPitfiles == Graphs({<<a, b, c>>}, {a, b, c, x}) \cup Graphs([1 .. 3 -> {a, b}], {a, b, x})
=============================================================================
