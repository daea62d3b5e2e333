---------------------------- MODULE MCWorkItems ----------------------------
EXTENDS WorkItems

\* A loop that is split once, and one after it that is split twice.
OneTwo == <<1, 2>>
==============================================================================
