------------------------------ MODULE MCEvents ------------------------------
\* Two messages of the user, one page, and a gateway that may still hold its last stream.
EXTENDS Events
=============================================================================
