----------------------------- MODULE MCLibrary -----------------------------
EXTENDS Library
=============================================================================
