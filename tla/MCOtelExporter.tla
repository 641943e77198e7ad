--------------------------- MODULE MCOtelExporter ---------------------------
(* Small instances of the exporter: interchangeable clients and reports.   *)
EXTENDS OtelExporter, TLC

Symmetry == Permutations(Reports) \cup Permutations(Clients) \cup Permutations(Threads)
=============================================================================
