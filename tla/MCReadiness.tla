----------------------------- MODULE MCReadiness -----------------------------
\* Readiness for TLC: the default TTL and a disabled cache.
EXTENDS Readiness

SmallTTLs == {0, -1}
=============================================================================
