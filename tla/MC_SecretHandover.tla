------------------------- MODULE MC_SecretHandover -------------------------
\* SecretHandover for TLC: see MC_SecretHandover.cfg for the bounds.
EXTENDS SecretHandover
=============================================================================
