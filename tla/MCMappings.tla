------------------------------- MODULE MCMappings -------------------------------
(* Two tabs; a targets.yml with one repo, under a key with a capital.        *)
EXTENDS Mappings, TLC

CONSTANTS k1, k2, kC, g1, g2, t1, t2

TabKeySymmetry == Permutations(Tabs) \cup Permutations(LowerKeys)

SeedFile == (kC :> g1) @@ (k1 :> "none") @@ (k2 :> "none")
=============================================================================
