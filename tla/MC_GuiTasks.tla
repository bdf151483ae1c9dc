----------------------------- MODULE MC_GuiTasks -----------------------------
EXTENDS GuiTasks
=============================================================================
