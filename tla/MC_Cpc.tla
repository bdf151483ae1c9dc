------------------------------- MODULE MC_Cpc -------------------------------
EXTENDS Cpc
=============================================================================
