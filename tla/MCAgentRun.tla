------------------------------ MODULE MCAgentRun ------------------------------
\* One goal of each kind that takes another path.
EXTENDS AgentRun

=============================================================================
