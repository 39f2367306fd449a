------------------------------ MODULE ConfigStore ------------------------------
(***************************************************************************)
(* The application's configuration (store.py): a row per field over the     *)
(* defaults of catalog.py, seeded from the environment at boot, saved       *)
(* section by section from console pages that loaded it earlier, exported   *)
(* to a bundle or an .env file and brought to a rebuilt instance.  Every    *)
(* call of the store is one transaction; a section save is several.         *)
(* Encryption is the identity on what the right key decrypts.               *)
(***************************************************************************)
EXTENDS Naturals

CONSTANTS
  Secrets, Settings,  (* the two kinds of catalog fields                   *)
  Values,             (* non-empty values                                  *)
  Default,            (* of each field: a value, or "unset"                *)
  Deployed,           (* the environment of the first boot                 *)
  Reseed,             (* RESEED_FROM_ENV                                   *)
  Tabs,               (* console pages                                     *)
  MaxSaves,           (* sections saved and bundles uploaded (bound)       *)
  MaxExports,         (* downloads (bound)                                 *)
  MaxBoots            (* restarts and rebuilds (bound)                     *)

Fields == Secrets \cup Settings
Stored == Values \cup {"empty", "unset"}   (* "unset": there is no row     *)

ASSUME ConfigAssumption ==
  /\ Secrets \cap Settings = {}
  /\ {"empty", "unset", "none"} \cap Values = {}
  /\ Default \in [Fields -> Values \cup {"unset"}]
  /\ \A f \in Secrets : Default[f] = "unset"
  /\ Deployed \in [Fields -> Values \cup {"unset"}]
  /\ Reseed \in BOOLEAN
  /\ MaxSaves \in Nat /\ MaxExports \in Nat /\ MaxBoots \in Nat

VARIABLES
  rows,      (* the settings and secrets tables                             *)
  env,       (* what the next boot finds in the environment                 *)
  up,        (* "booting" or "serving"                                      *)
  tab,       (* each page: its boxes, and the fields a save has left        *)
  bundle,    (* the last bundle downloaded, and what it was worth then      *)
  envFile,   (* the last .env file downloaded                               *)
  human,     (* history: what a human last gave a field, "unset" if nothing *)
  restored,  (* history: "fresh", a new instance without an environment;    *)
             (* "bundle", it has had the bundle and nothing else; or "no"   *)
  count      (* how often each bounded event happened                       *)

files == <<bundle, envFile>>
vars  == <<rows, env, up, tab, files, human, restored, count>>
-----------------------------------------------------------------------------
Nothing  == [f \in Fields |-> "unset"]
NoBundle == [there |-> FALSE, data |-> Nothing, worth |-> Nothing]
NoEnv    == [there |-> FALSE, data |-> Nothing]
NoPage   == [stage |-> "closed", box |-> Nothing, left |-> {}]

(* resolved(): the defaults overlaid with the rows.                         *)
Resolved == [f \in Fields |-> IF rows[f] = "unset" THEN Default[f] ELSE rows[f]]

Event(e, max) == count[e] < max /\ count' = [count EXCEPT ![e] = @ + 1]

(* Mutant of ToSeed: a field saved empty counts as missing.                 *)
EmptyIsMissing(f) ==
  env[f] # "unset" /\ (rows[f] \in {"unset", "empty"} \/ Reseed)

ToSeed(f) == env[f] # "unset" /\ (rows[f] = "unset" \/ Reseed)

(* seed_from_env, one transaction; then the console is served.              *)
Boot ==
  /\ up = "booting"
  /\ up' = "serving"
  /\ rows' = [f \in Fields |-> IF ToSeed(f) THEN env[f] ELSE rows[f]]
  /\ restored' = IF restored = "bundle" /\ rows' # rows THEN "no" ELSE restored
  /\ UNCHANGED <<env, tab, files, human, count>>
-----------------------------------------------------------------------------
(* list_config: a secret's box is empty, a setting's shows what is worth.   *)
OpenPage(t) ==
  /\ up = "serving" /\ tab[t].stage # "saving"
  /\ tab' = [tab EXCEPT ![t] =
       [stage |-> "view", left |-> {},
        box |-> [f \in Fields |-> IF f \in Secrets \/ Resolved[f] = "unset"
                                  THEN "empty" ELSE Resolved[f]]]]
  /\ UNCHANGED <<rows, env, up, files, human, restored, count>>

(* A human edits one box ("none": a dropdown without a choice) and saves.   *)
SaveSection(t) ==
  /\ tab[t].stage = "view" /\ Event("saves", MaxSaves)
  /\ \E f \in Fields, v \in Values \cup {"empty", "none"} :
       /\ f \in Secrets => v # "none"
       /\ tab' = [tab EXCEPT ![t] =
            [stage |-> "saving", left |-> Fields,
             box |-> [tab[t].box EXCEPT ![f] = v]]]
  /\ UNCHANGED <<rows, env, up, files, human, restored>>

(* Mutant of Written: the box as it is.                                     *)
AsItIs(box) == box

(* str(box.value or "")                                                     *)
Written(box) == IF box = "none" THEN "empty" ELSE box

(* Secrets are only written when a new value is typed.                      *)
Skips(f, box) == f \in Secrets /\ box = "empty"

(* One field of Section.save: a transaction of its own.                     *)
SaveField(t) ==
  /\ tab[t].stage = "saving"
  /\ \E f \in tab[t].left :
       LET box == tab[t].box[f] IN
       /\ tab' = [tab EXCEPT ![t] = IF tab[t].left = {f} THEN NoPage
                                    ELSE [tab[t] EXCEPT !.left = @ \ {f}]]
       /\ rows' = IF Skips(f, box) THEN rows
                  ELSE [rows EXCEPT ![f] = Written(box)]
       /\ human' = IF f \in Secrets /\ box = "empty" THEN human
                   ELSE [human EXCEPT ![f] = IF box = "none" THEN "empty" ELSE box]
  /\ restored' = "no"
  /\ UNCHANGED <<env, up, files, count>>
-----------------------------------------------------------------------------
(* Mutant of Exported: only what is worth something.                        *)
ExportedNonEmpty ==
  [f \in Fields |-> IF rows[f] = "empty" THEN "unset" ELSE rows[f]]

Exported == rows

(* export_bundle: the rows of both tables.                                  *)
DownloadBundle ==
  /\ up = "serving" /\ Event("exports", MaxExports)
  /\ bundle' = [there |-> TRUE, data |-> Exported, worth |-> Resolved]
  /\ UNCHANGED <<rows, env, up, tab, envFile, human, restored>>

(* export_env: a line for each field that resolves to something.            *)
DownloadEnv ==
  /\ up = "serving" /\ Event("exports", MaxExports)
  /\ envFile' = [there |-> TRUE,
                 data |-> [f \in Fields |-> IF Resolved[f] = "empty" THEN "unset"
                                            ELSE Resolved[f]]]
  /\ UNCHANGED <<rows, env, up, tab, bundle, human, restored>>

(* import_bundle: one transaction over every row of the bundle.             *)
UploadBundle ==
  /\ up = "serving" /\ bundle.there /\ Event("saves", MaxSaves)
  /\ LET new(f) == bundle.data[f] # "unset" IN
     /\ rows' = [f \in Fields |-> IF new(f) THEN bundle.data[f] ELSE rows[f]]
     /\ human' = [f \in Fields |-> IF new(f) THEN bundle.data[f] ELSE human[f]]
  /\ restored' = IF restored = "fresh" THEN "bundle" ELSE "no"
  /\ UNCHANGED <<env, up, tab, files>>

(* The process dies in the middle of its saves; the deployment may change   *)
(* its environment to the .env file meanwhile.                              *)
Restart ==
  /\ Event("boots", MaxBoots)
  /\ up' = "booting" /\ tab' = [t \in Tabs |-> NoPage]
  /\ env' \in {env} \cup (IF envFile.there THEN {envFile.data} ELSE {})
  /\ restored' = "no"
  /\ UNCHANGED <<rows, files, human>>

(* A new instance, with the .env file or with nothing in its environment.   *)
Rebuild ==
  /\ Event("boots", MaxBoots)
  /\ up' = "booting" /\ tab' = [t \in Tabs |-> NoPage]
  /\ rows' = Nothing /\ human' = Nothing
  /\ \/ env' = Nothing /\ restored' = "fresh"
     \/ envFile.there /\ env' = envFile.data /\ restored' = "no"
  /\ UNCHANGED files

Init ==
  /\ rows = Nothing /\ env = Deployed /\ up = "booting"
  /\ tab = [t \in Tabs |-> NoPage]
  /\ bundle = NoBundle /\ envFile = NoEnv
  /\ human = Nothing /\ restored = "no"
  /\ count = [saves |-> 0, exports |-> 0, boots |-> 0]

Next ==
  \/ Boot \/ DownloadBundle \/ DownloadEnv \/ UploadBundle \/ Restart \/ Rebuild
  \/ \E t \in Tabs : OpenPage(t) \/ SaveSection(t) \/ SaveField(t)

Spec == Init /\ [][Next]_vars
-----------------------------------------------------------------------------
(* Every variable has its type; what the tables hold is a value or empty,   *)
(* and no secret is ever stored empty (models.Setting, models.Secret).      *)
TypeOK ==
  /\ rows \in [Fields -> Stored] /\ \A f \in Secrets : rows[f] # "empty"
  /\ env \in [Fields -> Values \cup {"unset"}]
  /\ up \in {"booting", "serving"}
  /\ tab \in [Tabs -> [stage : {"closed", "view", "saving"},
                       box : [Fields -> Stored \cup {"none"}], left : SUBSET Fields]]
  /\ bundle \in [there : BOOLEAN, data : [Fields -> Stored], worth : [Fields -> Stored]]
  /\ envFile \in [there : BOOLEAN, data : [Fields -> Values \cup {"unset"}]]
  /\ human \in [Fields -> Stored]
  /\ restored \in {"no", "fresh", "bundle"}
  /\ count \in [saves : 0 .. MaxSaves, exports : 0 .. MaxExports, boots : 0 .. MaxBoots]

(* "The DB is the source of truth; env/yml only seed it (once, unless       *)
(* reseed)": what a human last entered, a cleared setting included, is what *)
(* is stored, whatever the environment of later boots says and however      *)
(* saves of several stale pages and crashes cut each other off; and a page  *)
(* on which no secret was typed changes none (store.py, widgets.Section).   *)
EnteredIsKept ==
  ~Reseed => \A f \in Fields : human[f] # "unset" => rows[f] = human[f]

(* README.md:104: a bundle imported on a fresh instance restores every      *)
(* setting and secret, what was cleared or left at its default included.    *)
BundleRestores == restored = "bundle" => Resolved = bundle.worth
=============================================================================
