------------------------------- MODULE MCEvolve -------------------------------
EXTENDS Evolve
=============================================================================
