---------------------------- MODULE MCTraceBatch ----------------------------
\* TraceBatch on a small instance; the constants are set in MCTraceBatch.cfg.
EXTENDS TraceBatch
=============================================================================
