--------------------------- MODULE MC_Applications ---------------------------
EXTENDS Applications
=============================================================================
