---------------------------- MODULE MCPodStreams ----------------------------
EXTENDS PodStreams

\* Every container runs twice.
MCMaxRuns == [c \in Containers |-> 2]
=============================================================================
