----------------------------- MODULE MCLocalPty -----------------------------
EXTENDS LocalPty
=============================================================================
