---------------------------- MODULE MCWorkflowRun ----------------------------
(* A small drawing for the workflow engine: an agent, a condition, an agent   *)
(* that asks first and an approval, with arrows back to what ran already.    *)
EXTENDS WorkflowRun

CONSTANTS agent, check, second, ask

On(success, failure) == [success |-> success, failure |-> failure]

Drawn ==
  [n \in Nodes |-> CASE n = agent  -> On(<<second>>, <<check>>)
                    [] n = check  -> On(<<second>>, <<ask>>)
                    [] n = second -> On(<<ask>>, <<second, ask>>)
                    [] n = ask    -> On(<<second>>, <<>>)]

DrawnStarts == {<<agent>>}
=============================================================================
