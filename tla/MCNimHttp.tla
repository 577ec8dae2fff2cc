----------------------------- MODULE MCNimHttp -----------------------------
\* Values for NimHttp.
EXTENDS NimHttp

McLengths == {8, 99}
=============================================================================
