---- MODULE NodeBlocks ----
\* The Terra node a task asks, as the handlers of src/client see it: blocks
\* numbered from 1, the last of which does not move while a task runs.

EXTENDS Naturals

CONSTANT Top      \* height of the node's latest block
CONSTANT NumTxs   \* how many transactions each block holds

ASSUME ChainAssumption ==
    /\ Top \in Nat \ {0}
    /\ NumTxs \in [1..Top -> Nat]

\* What an answer is made of: <<h, 0>> is the block of height h, <<h, i>> with
\* i > 0 its i-th transaction.
Items == UNION {{h} \X (0..NumTxs[h]) : h \in 1..Top}
====
