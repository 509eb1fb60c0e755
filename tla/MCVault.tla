------------------------------ MODULE MCVault ------------------------------
EXTENDS VaultSystem
CONSTANTS a, b
LpSymmetry == Permutations(LPs)
=============================================================================
