----------------------------- MODULE MCRivaRpc -----------------------------
\* Values for RivaRpc.
EXTENDS RivaRpc
=============================================================================
