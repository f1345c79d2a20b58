-------------------------- MODULE MCAdministration --------------------------
(* Settings, AdminLogin and TypeConfig for TLC, in one run.  They share no  *)
(* state: a behaviour moves one part and leaves the others where they start.*)
EXTENDS Settings, AdminLogin, TypeConfig, TLC

VARIABLE part
adminVars == <<settingsVars, loginVars, configVars, part>>

-----------------------------------------------------------------------------
(* Configurations to start from.  `Lineage` has a field that refers to      *)
(* another, and a child type; `Twins` has fields of the same name in both   *)
(* types; `Hybrid` has a field with a hybrid search.                        *)

CONSTANTS default, t1, t2, f1, f2, f3, r1, n1, n2, x1, k1

Field(t, id, n, uses) ==
  [type |-> t, base |-> id, name |-> n, adv |-> uses # {}, hybrid |-> FALSE,
   uses |-> uses, depend |-> uses, at |-> 1]
Plain == [template |-> FALSE, parent |-> None, project |-> None]

Lineage ==
  [types |-> (default :> Plain) @@ (t1 :> Plain) @@ (t2 :> [Plain EXCEPT !.parent = t1]),
   fields |-> (f1 :> Field(t1, f1, n1, {})) @@ (f2 :> Field(t1, f2, n2, {f1})),
   rules |-> (r1 :> [type |-> t1, base |-> r1, name |-> n1, at |-> 1]),
   params |-> {<<t1, k1>>}, files |-> (x1 :> t1), projects |-> {}]
Twins ==
  [Lineage EXCEPT !.fields = @ @@ (f3 :> [Field(t2, f3, n1, {}) EXCEPT !.adv = TRUE])]
Bare ==
  [Lineage EXCEPT !.fields = (f1 :> Field(t1, f1, n1, {})), !.files = <<>>]
Hybrid == [Lineage EXCEPT !.fields[f2].hybrid = TRUE]

Scoped(start, kinds) == [k \in DOMAIN start \union {"scope"} |-> IF k = "scope" THEN kinds ELSE start[k]]

Empty ==
  [types |-> (default :> Plain), fields |-> <<>>, rules |-> <<>>, params |-> {},
   files |-> <<>>, projects |-> {}]

MCStart ==
  {Scoped(Empty, {}), Scoped(Lineage, {"fields", "copies"}), Scoped(Lineage, {"fields", "imports"}),
   Scoped(Lineage, {"types", "copies", "projects"}), Scoped(Bare, {"types", "params", "copies"}),
   Scoped(Lineage, {"pages", "fields", "rules", "types"}),
   Scoped(Twins, {"imports", "copies", "types"})}
MCHybridStart == {Scoped(Empty, {}), Scoped(Hybrid, {"copies"})}

Content(id, n, adv, hybrid, uses) ==
  [type |-> t1, id |-> id, name |-> n, adv |-> adv, hybrid |-> hybrid, uses |-> uses]
MCContents ==
  {Content(f1, n1, TRUE, FALSE, {}), Content(f1, n1, TRUE, FALSE, {f1}),
   Content(f1, n2, FALSE, FALSE, {}), Content(f2, n2, TRUE, TRUE, {f1}),
   Content(f2, n2, FALSE, FALSE, {}), Content(f3, n2, TRUE, FALSE, {f1}),
   Content(f3, n2, TRUE, FALSE, {f2}), [Content(f3, n2, FALSE, FALSE, {}) EXCEPT !.type = t2]}

ActorSymmetry == Permutations(Editors) \union Permutations(Clients)

-----------------------------------------------------------------------------

AdminInit ==
  /\ part \in {"settings", "login", "types"}
  /\ SettingsInit /\ LoginInit /\ ConfigInit
  /\ part # "settings" => disk.limit = CHOOSE l \in Limits : TRUE
  /\ part # "login" => cred = CHOOSE p \in Passwords : TRUE
  /\ part # "types" => scope = {}

AdminNext ==
  \/ part = "settings" /\ SettingsNext /\ UNCHANGED <<loginVars, configVars, part>>
  \/ part = "login" /\ LoginNext /\ UNCHANGED <<settingsVars, configVars, part>>
  \/ part = "types" /\ ConfigNext /\ UNCHANGED <<settingsVars, loginVars, part>>

AdminSpec == AdminInit /\ [][AdminNext]_adminVars

(* The variables of every part have their types. *)
AdminTypeOK == SettingsTypeOK /\ LoginTypeOK /\ ConfigTypeOK
=============================================================================
