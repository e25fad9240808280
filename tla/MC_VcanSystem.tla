---------------------------- MODULE MC_VcanSystem ----------------------------
(* Values for model checking VcanSystem.                                    *)
EXTENDS VcanSystem

MCFeedback == WireMin .. WireMax

\* What docs/superpowers/specs/2026-07-17-vcan-diffbot-demo-design.md says of
\* the plugin: feedback of a wheel that is older than the timeout is an error.
\* The code counts the age of a frame from the moment it leaves the queue.
OldFeedbackIsAnError ==
    [][\A w \in Wheels :
           pc = "reading" /\ pc' = "idle" /\ shown_age[w] > FeedbackTimeout + 1
               => fault_latched']_system_vars
=============================================================================
