--------------------------- MODULE MCEvidenceChain ---------------------------
(* Nothing tells the prefixes apart, so one order of using them is enough. *)
EXTENDS EvidenceChain

SomePrefixes == Permutations(Prefixes)

=============================================================================
