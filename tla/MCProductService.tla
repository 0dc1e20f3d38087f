-------------------------- MODULE MCProductService --------------------------
EXTENDS ProductService, TLC
CONSTANTS a1, a2
Symmetry == Permutations({a1, a2})
=============================================================================
