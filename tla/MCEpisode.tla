------------------------------- MODULE MCEpisode -------------------------------
(* Instances of DispatchEpisode: every target, with and without retries, the   *)
(* unlimited retry included; two rounds and up to two review attempts.        *)
EXTENDS DispatchEpisode

Plain == [target |-> "speccing", retries |-> 0, rounds |-> 1, reviews |-> 0,
          stopComplete |-> TRUE, stopUnchanged |-> TRUE,
          contract |-> FALSE, approval |-> FALSE, postReview |-> FALSE]

StructuredConfigs ==
    {[Plain EXCEPT !.target = t, !.retries = n] : t \in Structured, n \in {-1, 1}}

RefiningConfigs ==
    {[Plain EXCEPT !.target = "refining", !.retries = n, !.rounds = 2, !.reviews = 2,
                   !.approval = (n = 1)] : n \in {-1, 0, 1}}

ExecutingConfigs ==
    {[Plain EXCEPT !.target = "executing", !.retries = 1]}
        \cup {[Plain EXCEPT !.target = "executing", !.retries = n, !.contract = TRUE, !.postReview = n = 1] :
                  n \in {-1, 1}}

AllConfigs == StructuredConfigs \cup RefiningConfigs \cup ExecutingConfigs
=============================================================================
