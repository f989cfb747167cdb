------------------------------ MODULE MCClient ------------------------------
\* Unset, small and excessive retry settings, and response bodies around the
\* limit.
EXTENDS Client

MCRawAttempts == {-1, 1, 6}
MCRawBackoffs == {0, 9}
=============================================================================
