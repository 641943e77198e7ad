------------------------------ MODULE MCReports ------------------------------
EXTENDS Reports

CONSTANTS w1, w2, h1, r1, r2, r3

(* Each adapter, each answer to where it runs, and channels of each audience. *)
Deployed(adapter, explicit, config, asked) ==
  [adapter |-> adapter, explicit |-> explicit, config |-> config, asked |-> asked]
Here == {
  Deployed("asgi", "development", "unsaid", {"sidecar", "ssr", "otel"}),
  Deployed("asgi", "unsaid", "unsaid", {"sidecar", "timing"}),
  Deployed("asgi", "unsaid", "unsaid", {"timing"}),
  Deployed("wsgi", "unsaid", "production", {"envelope", "sidecar", "otel"}),
  Deployed("wsgi", "unsaid", "unsaid", {}),
  Deployed("django", "development", "unsaid", {"sidecar", "envelope"}),
  Deployed("django", "production", "unsaid", {"ssr", "timing"})}

(* Requests are alike, and so are workers.                                   *)
Alike == Permutations(Workers) \cup Permutations(Requests)
==============================================================================
