------------------------- MODULE MCAgentBusMessages -------------------------
EXTENDS AgentBusMessages

CONSTANTS t1, a1, a2, i1, i2
=============================================================================
