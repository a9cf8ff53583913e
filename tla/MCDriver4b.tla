----------------------------- MODULE MCDriver4b -----------------------------
EXTENDS Driver4b

CONSTANTS d1, d2, d3
MCDriver == {d1, d2, d3}
=============================================================================
