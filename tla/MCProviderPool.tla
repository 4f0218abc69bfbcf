---------------------------- MODULE MCProviderPool ----------------------------
(* ProviderPool with the documents as model values, any of which may take    *)
(* the place of any other: no action and no property names one.              *)
EXTENDS ProviderPool, TLC

DocSymmetry == Permutations(Doc)
=============================================================================
