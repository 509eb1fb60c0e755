----------------------------- MODULE MCEarnPage -----------------------------
EXTENDS EarnPage
CONSTANTS a, b
=============================================================================
