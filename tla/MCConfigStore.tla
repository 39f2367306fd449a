----------------------------- MODULE MCConfigStore -----------------------------
(* A credential, a setting with a default and one without.                   *)
EXTENDS ConfigStore, TLC

CONSTANTS token, memory, model, v1, v2, t1, t2

Catalog   == (memory :> v1) @@ (model :> "unset") @@ (token :> "unset")
FirstBoot == (memory :> v2) @@ (model :> "unset") @@ (token :> v1)

TabSymmetry == Permutations(Tabs)
=============================================================================
