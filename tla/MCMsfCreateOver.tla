--------------------------- MODULE MCMsfCreateOver ---------------------------
EXTENDS MsfCreateOver

CONSTANTS d1, d2

Contents2 == {d1, d2}
=============================================================================
