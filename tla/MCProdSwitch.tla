---------------------------- MODULE MCProdSwitch ----------------------------
EXTENDS ProdSwitch, TLC

Symmetry == Permutations(Users) \cup Permutations(Versions)
              \cup Permutations(Asks)
==============================================================================
