----------------------- MODULE MCExecutionFinalization -----------------------
EXTENDS ExecutionFinalization, TLC

\* One fault, or a sample and its review.
MCBudgets == {[samples |-> FALSE, faults |-> 1], [samples |-> TRUE, faults |-> 0]}
=============================================================================
