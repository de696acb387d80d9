---------------------------- MODULE MCModelCalls ----------------------------
\* Two calls of two users; ids and actors are numbers, 0 is no one.
EXTENDS ModelCalls
=============================================================================
