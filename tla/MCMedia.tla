------------------------------ MODULE MCMedia ------------------------------
EXTENDS Media, TLC

HandlerSymmetry == Permutations(Handlers)
============================================================================
