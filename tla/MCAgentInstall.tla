--------------------------- MODULE MCAgentInstall ---------------------------
\* An instance of AgentInstall for TLC.
EXTENDS AgentInstall, TLC

CONSTANTS p1, p2

\* A validator with its default mode and a receiver of its operator, with
\* another receiver, and with none.
Own    == [mode |-> "", operator |-> "own", checkpointer |-> FALSE, data_dir |-> "d1"]
Other  == [mode |-> "push", operator |-> "other", checkpointer |-> TRUE, data_dir |-> "d1"]
Single == [mode |-> "push", operator |-> None, checkpointer |-> FALSE, data_dir |-> "d1"]

\* The observer's default is off; its data moves to a directory in use.
InUse  == [mode |-> "push", operator |-> "own", checkpointer |-> FALSE, data_dir |-> "d2"]

MCEnvs == [validator |-> {Own, Other, Single}, observer |-> {Own, Other, InUse}]

Symmetry == Permutations(Commands)
=============================================================================
