-------------------------- MODULE MCStagePipeline --------------------------
(* Two stages, three names to swap and rename them by, one application.    *)
(* The name "Rejected" is a stage's and an archetype's.                    *)
EXTENDS StageViews, TLC

CONSTANTS s1, s2, A, B, C, a1, a2, w1, r1
=============================================================================
