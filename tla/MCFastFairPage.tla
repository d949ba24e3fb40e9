--------------------------- MODULE MCFastFairPage ---------------------------
EXTENDS FastFairPage

MCKeys == 1..4
MCRemovable == {1, 3}
=============================================================================
