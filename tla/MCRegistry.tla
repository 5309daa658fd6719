----------------------------- MODULE MCRegistry ------------------------------
\* Instances of Registry for TLC: two connections, one name or two and a reserved
\* one, two places in memory.
EXTENDS Registry, TLC
==============================================================================
