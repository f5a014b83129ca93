------------------------------ MODULE MCPages ------------------------------
EXTENDS PageViews, TLC

CONSTANTS w1, w2, a1, a2, b1

Home(a) == IF a = b1 THEN w2 ELSE w1

SymTabs == Permutations(Tabs)
=============================================================================
