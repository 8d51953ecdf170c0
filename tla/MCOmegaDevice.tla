--------------------------- MODULE MCOmegaDevice ---------------------------
EXTENDS OmegaDevice, TLC

\* The two links run the same code, and a mode is only ever compared.
Symmetry == Permutations(Links) \cup Permutations(Modes)
=============================================================================
