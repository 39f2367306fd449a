--------------------------- MODULE ConfigStoreProofs ---------------------------
(***************************************************************************)
(* Proofs about ConfigStore for any catalog of fields, any defaults and    *)
(* environment, any number of pages and any bounds.                        *)
(*                                                                         *)
(* EnteredIsKept is inductive given the types. BundleRestores needs        *)
(* RestoreInv: what a bundle holds determines what it was worth, and an    *)
(* instance is `fresh` or `bundle` only while its tables say so.           *)
(***************************************************************************)
EXTENDS ConfigStore, TLAPS

(* What a console page holds.                                              *)
Pages == [stage : {"closed", "view", "saving"},
          box : [Fields -> Stored \cup {"none"}], left : SUBSET Fields]

(* A secret's box always has text in it, and no bundle holds an empty      *)
(* secret.                                                                 *)
SecretInv ==
  /\ \A t \in Tabs, f \in Secrets : tab[t].box[f] # "none"
  /\ \A f \in Secrets : bundle.data[f] # "empty"

TypeInv == TypeOK /\ SecretInv

(* What rows resolve to.                                                   *)
Worth(data) ==
  [f \in Fields |-> IF data[f] = "unset" THEN Default[f] ELSE data[f]]

(* A bundle's rows resolve to its worth, a fresh instance has nothing to   *)
(* seed itself from, and one that had the bundle has its rows.             *)
RestoreInv ==
  /\ bundle.there => bundle.worth = Worth(bundle.data)
  /\ restored = "fresh" => rows = Nothing /\ env = Nothing
  /\ restored = "bundle" => bundle.there /\ rows = bundle.data
-----------------------------------------------------------------------------
(* The empty tables are well formed.                                       *)
LEMMA NothingType == Nothing \in [Fields -> Stored]
  BY DEF Nothing, Stored

(* So are the resolved values (resolved).                                  *)
LEMMA ResolvedType ==
  rows \in [Fields -> Stored] => Resolved \in [Fields -> Stored]
  BY ConfigAssumption DEF ConfigAssumption, Resolved, Stored

(* So is a page that is closed.                                            *)
LEMMA NoPageType == NoPage \in Pages
  BY NothingType DEF NoPage, Pages

(* A counted event stays within its bound.                                 *)
LEMMA EventType ==
  ASSUME count \in [saves : 0 .. MaxSaves, exports : 0 .. MaxExports,
                    boots : 0 .. MaxBoots],
         \/ Event("saves", MaxSaves) \/ Event("exports", MaxExports)
         \/ Event("boots", MaxBoots)
  PROVE  count' \in [saves : 0 .. MaxSaves, exports : 0 .. MaxExports,
                     boots : 0 .. MaxBoots]
<1> USE ConfigAssumption DEF ConfigAssumption, Event
<1>1. CASE Event("saves", MaxSaves)
  <2>1. count.saves + 1 \in 0 .. MaxSaves
    BY <1>1
  <2> QED
    BY <1>1, <2>1
<1>2. CASE Event("exports", MaxExports)
  <2>1. count.exports + 1 \in 0 .. MaxExports
    BY <1>2
  <2> QED
    BY <1>2, <2>1
<1>3. CASE Event("boots", MaxBoots)
  <2>1. count.boots + 1 \in 0 .. MaxBoots
    BY <1>3
  <2> QED
    BY <1>3, <2>1
<1> QED
  BY <1>1, <1>2, <1>3

(* Every call of the store, every console page and every restart keeps the *)
(* tables and files well formed, and no secret is stored empty.            *)
LEMMA TypeStep == TypeInv /\ [Next]_vars => TypeInv'
<1> SUFFICES ASSUME TypeInv, [Next]_vars PROVE TypeInv'
  OBVIOUS
<1> USE DEF TypeInv, TypeOK, SecretInv, files
<1>1. CASE Boot
  <2>1. rows' \in [Fields -> Stored]
    BY <1>1 DEF Boot, Stored
  <2>2. \A f \in Secrets : rows'[f] # "empty"
    BY <1>1, ConfigAssumption DEF ConfigAssumption, Boot, Fields
  <2>3. restored' \in {"no", "fresh", "bundle"}
    BY <1>1 DEF Boot
  <2> QED
    BY <1>1, <2>1, <2>2, <2>3 DEF Boot, Fields
<1>2. ASSUME NEW t \in Tabs, OpenPage(t) PROVE TypeInv'
  <2> DEFINE b == [f \in Fields |-> IF f \in Secrets \/ Resolved[f] = "unset"
                                    THEN "empty" ELSE Resolved[f]]
  <2>1. /\ b \in [Fields -> Stored \cup {"none"}]
        /\ \A f \in Secrets : b[f] # "none"
    BY ResolvedType DEF Stored, Fields
  <2>2. tab' = [tab EXCEPT ![t] = [stage |-> "view", left |-> {}, box |-> b]]
    BY <1>2 DEF OpenPage
  <2> HIDE DEF b
  <2>3. [stage |-> "view", left |-> {}, box |-> b] \in Pages
    BY <2>1 DEF Pages
  <2>4. /\ tab' \in [Tabs -> Pages]
        /\ \A u \in Tabs, f \in Secrets : tab'[u].box[f] # "none"
    BY <2>1, <2>2, <2>3 DEF Pages
  <2> QED
    BY <1>2, <2>4 DEF OpenPage, Pages
<1>3. ASSUME NEW t \in Tabs, SaveSection(t) PROVE TypeInv'
  <2>1. PICK f \in Fields, v \in Values \cup {"empty", "none"} :
          /\ f \in Secrets => v # "none"
          /\ tab' = [tab EXCEPT ![t] = [stage |-> "saving", left |-> Fields,
                                        box |-> [tab[t].box EXCEPT ![f] = v]]]
    BY <1>3 DEF SaveSection
  <2> DEFINE b == [tab[t].box EXCEPT ![f] = v]
  <2>2. /\ b \in [Fields -> Stored \cup {"none"}]
        /\ \A g \in Secrets : b[g] # "none"
    BY <2>1 DEF Stored, Fields
  <2> HIDE DEF b
  <2>3. tab' = [tab EXCEPT ![t] = [stage |-> "saving", left |-> Fields, box |-> b]]
    BY <2>1 DEF b
  <2>4. [stage |-> "saving", left |-> Fields, box |-> b] \in Pages
    BY <2>2 DEF Pages
  <2>5. /\ tab' \in [Tabs -> Pages]
        /\ \A u \in Tabs, g \in Secrets : tab'[u].box[g] # "none"
    BY <2>2, <2>3, <2>4 DEF Pages
  <2> QED
    BY <1>3, <2>5, EventType DEF SaveSection, Pages
<1>4. ASSUME NEW t \in Tabs, SaveField(t) PROVE TypeInv'
  <2>1. PICK f \in tab[t].left :
          /\ tab' = [tab EXCEPT ![t] = IF tab[t].left = {f} THEN NoPage
                       ELSE [tab[t] EXCEPT !.left = tab[t].left \ {f}]]
          /\ rows' = IF Skips(f, tab[t].box[f]) THEN rows
                     ELSE [rows EXCEPT ![f] = Written(tab[t].box[f])]
          /\ human' = IF f \in Secrets /\ tab[t].box[f] = "empty" THEN human
                      ELSE [human EXCEPT ![f] = IF tab[t].box[f] = "none"
                              THEN "empty" ELSE tab[t].box[f]]
    BY <1>4 DEF SaveField
  <2>2. f \in Fields /\ tab[t].box[f] \in Stored \cup {"none"}
    OBVIOUS
  <2>3. rows' \in [Fields -> Stored] /\ human' \in [Fields -> Stored]
    BY <2>1, <2>2 DEF Written, Stored
  <2>4. \A g \in Secrets : rows'[g] # "empty"
    BY <2>1, <2>2 DEF Written, Skips, Fields
  <2>5. /\ tab' \in [Tabs -> Pages]
        /\ \A u \in Tabs, g \in Secrets : tab'[u].box[g] # "none"
    <3>1. CASE tab[t].left = {f}
      BY <2>1, <3>1, NoPageType DEF Pages, NoPage, Nothing, Fields
    <3>2. CASE tab[t].left # {f}
      <4>1. tab \in [Tabs -> Pages]
        BY DEF Pages
      <4>2. [tab[t] EXCEPT !.left = tab[t].left \ {f}] \in Pages
        BY ONLY <4>1 DEF Pages
      <4>3. tab' \in [Tabs -> Pages]
        BY <2>1, <3>2, <4>1, <4>2
      <4> QED
        BY <2>1, <3>2, <4>3 DEF Pages
    <3> QED
      BY <3>1, <3>2
  <2> QED
    BY <1>4, <2>3, <2>4, <2>5 DEF SaveField, Pages
<1>5. CASE DownloadBundle
  <2>1. bundle' = [there |-> TRUE, data |-> rows, worth |-> Resolved]
    BY <1>5 DEF DownloadBundle, Exported
  <2> QED
    BY <1>5, <2>1, EventType, ResolvedType DEF DownloadBundle
<1>6. CASE DownloadEnv
  <2>1. [f \in Fields |-> IF Resolved[f] = "empty" THEN "unset" ELSE Resolved[f]]
          \in [Fields -> Values \cup {"unset"}]
    BY ResolvedType DEF Stored
  <2> QED
    BY <1>6, <2>1, EventType DEF DownloadEnv
<1>7. CASE UploadBundle
  <2>1. rows' \in [Fields -> Stored] /\ human' \in [Fields -> Stored]
    BY <1>7 DEF UploadBundle
  <2>2. \A f \in Secrets : rows'[f] # "empty"
    BY <1>7 DEF UploadBundle, Fields
  <2> QED
    BY <1>7, <2>1, <2>2, EventType DEF UploadBundle
<1>8. CASE Restart
  <2>1. /\ tab' \in [Tabs -> Pages]
        /\ \A u \in Tabs, g \in Secrets : tab'[u].box[g] # "none"
    BY <1>8, NoPageType DEF Restart, Pages, NoPage, Nothing, Fields
  <2> QED
    BY <1>8, <2>1, EventType DEF Restart, Pages
<1>9. CASE Rebuild
  <2>1. /\ tab' \in [Tabs -> Pages]
        /\ \A u \in Tabs, g \in Secrets : tab'[u].box[g] # "none"
    BY <1>9, NoPageType DEF Rebuild, Pages, NoPage, Nothing, Fields
  <2>2. /\ env' \in [Fields -> Values \cup {"unset"}]
        /\ \A f \in Secrets : rows'[f] # "empty"
    BY <1>9 DEF Rebuild, Nothing, Fields
  <2> QED
    BY <1>9, <2>1, <2>2, NothingType, EventType DEF Rebuild, Pages
<1>10. CASE UNCHANGED vars
  BY <1>10 DEF vars
<1> QED
  BY <1>1, <1>2, <1>3, <1>4, <1>5, <1>6, <1>7, <1>8, <1>9, <1>10 DEF Next

(* No step stores for a field anything but what a human entered last:      *)
(* seeding leaves a row that exists, and a save or an import is a human's  *)
(* entry.                                                                  *)
LEMMA EnteredStep ==
  TypeInv /\ EnteredIsKept /\ [Next]_vars => EnteredIsKept'
<1> SUFFICES ASSUME TypeInv, EnteredIsKept, [Next]_vars, ~Reseed,
                    NEW f \in Fields, human'[f] # "unset"
             PROVE  rows'[f] = human'[f]
  BY DEF EnteredIsKept
<1> USE DEF TypeInv, TypeOK, EnteredIsKept, files
<1>1. CASE UNCHANGED <<rows, human>>
  BY <1>1
<1>2. CASE Boot
  BY <1>2 DEF Boot, ToSeed
<1>3. ASSUME NEW t \in Tabs, SaveField(t) PROVE rows'[f] = human'[f]
  <2>1. PICK g \in tab[t].left :
          /\ rows' = IF Skips(g, tab[t].box[g]) THEN rows
                     ELSE [rows EXCEPT ![g] = Written(tab[t].box[g])]
          /\ human' = IF g \in Secrets /\ tab[t].box[g] = "empty" THEN human
                      ELSE [human EXCEPT ![g] = IF tab[t].box[g] = "none"
                              THEN "empty" ELSE tab[t].box[g]]
    BY <1>3 DEF SaveField
  <2> QED
    BY <2>1 DEF Skips, Written
<1>4. CASE UploadBundle
  BY <1>4 DEF UploadBundle
<1>5. CASE Rebuild
  BY <1>5 DEF Rebuild, Nothing
<1> QED
  BY <1>1, <1>2, <1>3, <1>4, <1>5
  DEF Next, vars, OpenPage, SaveSection, DownloadBundle, DownloadEnv, Restart

(* A bundle is exported as the tables are, and imported into empty tables  *)
(* it makes them what they were.                                           *)
LEMMA RestoreStep == TypeInv /\ RestoreInv /\ [Next]_vars => RestoreInv'
<1> SUFFICES ASSUME TypeInv, RestoreInv, [Next]_vars PROVE RestoreInv'
  OBVIOUS
<1> USE DEF RestoreInv, files
<1>1. CASE UNCHANGED <<rows, env, bundle, restored>>
  BY <1>1
<1>2. CASE Boot
  <2>1. env = Nothing => rows' = rows
    BY <1>2 DEF Boot, ToSeed, Nothing, TypeInv, TypeOK
  <2> QED
    BY <1>2, <2>1 DEF Boot
<1>3. CASE DownloadBundle
  <2>1. bundle' = [there |-> TRUE, data |-> rows, worth |-> Resolved]
    BY <1>3 DEF DownloadBundle, Exported
  <2>2. Resolved = Worth(rows)
    BY DEF Resolved, Worth
  <2> QED
    BY <1>3, <2>1, <2>2 DEF DownloadBundle
<1>4. CASE UploadBundle
  <2>1. rows = Nothing => rows' = bundle.data
    BY <1>4 DEF UploadBundle, Nothing, TypeInv, TypeOK
  <2> QED
    BY <1>4, <2>1 DEF UploadBundle
<1>5. ASSUME NEW t \in Tabs, SaveField(t) PROVE RestoreInv'
  BY <1>5 DEF SaveField
<1>6. CASE Restart
  BY <1>6 DEF Restart
<1>7. CASE Rebuild
  BY <1>7 DEF Rebuild
<1> QED
  BY <1>1, <1>2, <1>3, <1>4, <1>5, <1>6, <1>7
  DEF Next, vars, OpenPage, SaveSection, DownloadEnv
-----------------------------------------------------------------------------
(* The invariants hold in the initial state.                               *)
LEMMA InitHolds == Init => TypeInv /\ EnteredIsKept /\ RestoreInv
<1> SUFFICES ASSUME Init PROVE TypeInv /\ EnteredIsKept /\ RestoreInv
  OBVIOUS
<1>1. TypeOK
  <2>1. /\ bundle \in [there : BOOLEAN, data : [Fields -> Stored],
                       worth : [Fields -> Stored]]
        /\ envFile \in [there : BOOLEAN, data : [Fields -> Values \cup {"unset"}]]
    BY NothingType DEF Init, NoBundle, NoEnv, Nothing
  <2> QED
    BY <2>1, ConfigAssumption, NothingType, NoPageType
    DEF ConfigAssumption, Init, TypeOK, Nothing, Fields, Pages
<1>2. SecretInv /\ EnteredIsKept /\ RestoreInv
  BY DEF Init, SecretInv, EnteredIsKept, RestoreInv, NoPage, NoBundle, Nothing,
     Fields
<1> QED
  BY <1>1, <1>2 DEF TypeInv

(* The type invariant with the secrets holds throughout.                   *)
LEMMA TypeInvHolds == Spec => []TypeInv
  BY InitHolds, TypeStep, PTL DEF Spec

(* Type correctness of the configuration tables, the pages and the         *)
(* downloaded files, no stored secret being empty (store.py).              *)
THEOREM TypeCorrect == Spec => []TypeOK
<1>1. TypeInv => TypeOK
  BY DEF TypeInv
<1> QED
  BY <1>1, TypeInvHolds, PTL

(* What a human entered is what is stored, whatever any later boot seeds   *)
(* and however stale pages and crashes cut saves off (seed_from_env,       *)
(* Section.save).                                                          *)
THEOREM EnteredStays == Spec => []EnteredIsKept
  BY InitHolds, EnteredStep, TypeInvHolds, PTL DEF Spec

(* A bundle imported on a fresh instance restores every setting and        *)
(* secret, for any catalog and any defaults (export_bundle,                *)
(* import_bundle).                                                         *)
THEOREM BundleIsEnough == Spec => []BundleRestores
<1>1. RestoreInv => BundleRestores
  BY DEF RestoreInv, BundleRestores, Resolved, Worth
<1> QED
  BY <1>1, InitHolds, RestoreStep, TypeInvHolds, PTL DEF Spec
=============================================================================
