---------------------------- MODULE MCHeartbeats -----------------------------
\* Instance of Heartbeats for TLC: two words (DurabilityProofs has the safety
\* properties for any words).
EXTENDS Heartbeats, TLC
==============================================================================
