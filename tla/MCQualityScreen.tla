-------------------------- MODULE MCQualityScreen --------------------------
(***************************************************************************)
(* A small instance of QualityScreen for TLC: three shown plans of three   *)
(* models, the first without a GGUF file of its own, so that it is         *)
(* measured through p1 of the pool, and two of them at most in a batch.    *)
(***************************************************************************)
EXTENDS QualityScreen

P(model, gguf, digest) ==
    [model |-> model, gguf |-> gguf, single |-> TRUE, confirmed |-> TRUE, digest |-> digest]

MCPlan == [t1 |-> P("m1", FALSE, "none"), p1 |-> P("m1", TRUE, "d1"),
           p2 |-> P("m2", TRUE, "d2"),    c2 |-> P("m2", TRUE, "none"),
           p3 |-> P("m3", TRUE, "d3")]

MCShown == <<"t1", "p2", "p3">>
MCPool == <<"t1", "c2", "p2", "p1", "p3">>
MCLadders == << <<"t1", "p1">>, <<"c2", "p2">>, <<"p3">> >>

MCContextOf == [smoke |-> 2, ifeval |-> 4]

Good == [confirmed |-> TRUE, resident |-> TRUE, device |-> "gpu", complete |-> TRUE]
OnCpu == [Good EXCEPT !.device = "cpu"]
Fine == [sameArtifact |-> TRUE, limit |-> 8, listedOnce |-> TRUE, workloadFits |-> TRUE,
         onDevice |-> Good, onCpu |-> OnCpu]

\* The first model takes the context of HellaSwag and not of IFEval, so that the suites
\* measure different plans; or nothing is resolved.
MCReadings ==
    {[p \in DOMAIN MCPlan |-> IF p = "p1" THEN [Fine EXCEPT !.limit = 3] ELSE Fine],
     [p \in DOMAIN MCPlan |-> [Fine EXCEPT !.sameArtifact = FALSE]]}

Image == [exactGguf : {TRUE}, observable : BOOLEAN, chat : BOOLEAN]
MCEvaluators ==
    [docker : BOOLEAN, images : {{}, {i \in Image : i.chat}, Image}, server : {TRUE},
     checkout : {TRUE}, dataset : BOOLEAN, verified : BOOLEAN]

MCMachines ==
    {[selected |-> "cuda", available |-> {"cpu", "cuda", "vulkan"}, alternatives |-> {"vulkan"},
      cards |-> 1, twins |-> FALSE],
     [selected |-> "vulkan", available |-> {"cpu", "vulkan"}, alternatives |-> {},
      cards |-> 2, twins |-> TRUE]}
=============================================================================
