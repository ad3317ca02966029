---------------------------- MODULE MCAgentSessions ----------------------------
\* Two sessions and room for one, two owners, one strategy and three requests.
EXTENDS AgentSessions, TLC

CONSTANTS s1, s2, r1, r2, r3, o1, o2, d1

MCSymmetry == Permutations({s1, s2}) \cup Permutations({r1, r2, r3})
              \cup Permutations({o1, o2})

=============================================================================
