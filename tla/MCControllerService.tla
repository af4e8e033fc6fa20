------------------------ MODULE MCControllerService ------------------------
(* Instances of ControllerService for TLC. *)
EXTENDS ControllerService, TLC

CONSTANTS
    n1, n2, n3, u1, u2, ns1, ns2, v1, v2, v3, c1, c2

\* n3 has no "pvc-" prefix.
MCUidOf == [n \in Names |-> CASE n = n1 -> u1 [] n = n2 -> u2 [] OTHER -> NULL]

Note(node, nodeNs, mount) ==
    [node |-> node, nodeNs |-> nodeNs, pod |-> "p", podNs |-> NULL, mount |-> mount]

\* Complete, without and with a namespace of its own.
MCAnnotations == {Note("d", NULL, "cached"), Note("d", ns2, "fuse")}

\* One complete set of annotations and one that lacks a required key.
FewAnnotations == {Note("d", NULL, "cached"), Note("d", NULL, NULL)}

Symmetry == Permutations({v1, v2, v3}) \cup Permutations({c1, c2})
=============================================================================
