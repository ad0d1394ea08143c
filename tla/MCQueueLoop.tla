------------------------------ MODULE MCQueueLoop ------------------------------
(* Instances of QueueLoop.  "Pipeline": a feature f is decomposed into the      *)
(* ordered tasks a, b and waits for a task d.  "Tasks": an aggregate task f    *)
(* with the child a waits for the task d.                                     *)
EXTENDS QueueLoop, TLC

CONSTANTS f, a, b, d, none, r1, r2

PipelineOrbs == {f, a, b, d}
PipelineParent == (f :> none) @@ (d :> none) @@ (a :> f) @@ (b :> f)
PipelineDeps == {<<f, d>>, <<b, a>>}

TaskOrbs == {f, a, d}
TaskParent == (f :> none) @@ (d :> none) @@ (a :> f)
TaskDeps == {<<f, d>>}

\* Runners are interchangeable.
RunnerSymmetry == Permutations(Runners)
=============================================================================
