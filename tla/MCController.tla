----------------------------- MODULE MCController -----------------------------
\* The ownership model with the bounds of the MCController*.cfg files.
EXTENDS Controller
=============================================================================
