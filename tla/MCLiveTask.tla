----------------------------- MODULE MCLiveTask -----------------------------
EXTENDS LiveTask, TLC
=============================================================================
