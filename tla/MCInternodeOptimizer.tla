------------------------ MODULE MCInternodeOptimizer ------------------------
EXTENDS InternodeOptimizer
=============================================================================
