----------------------------- MODULE TypeConfig -----------------------------
(***************************************************************************)
(* Document types and what is configured for them                           *)
(* (blue_print/doctype_router.py, the configuration half of                 *)
(* extraction_router.py and analysis_router.py): fields, rules and input    *)
(* parameters by type, the lineage of types that were copied, and projects. *)
(*                                                                         *)
(* A request is one transaction.  Saving and deleting a field are the two   *)
(* whose checks hold the references between fields together, so they are    *)
(* taken in two steps: the checks on a snapshot, and the commit.  Ids are   *)
(* opaque: the id of a copy has the id it comes from as its base, and any   *)
(* id not in use may be the next.  What a rule depends on is left out, as   *)
(* no request keeps it sound.                                               *)
(***************************************************************************)
EXTENDS Naturals, FiniteSetsExt, Functions

CONSTANTS TypeIds, Default,  \* types; the type that is always there
          FieldIds, RuleIds, Names, Keys, Projects, FileIds,
          Editors,           \* requests that save or delete a field
          Start,             \* configurations to start from
          Contents,          \* bound: what a field may be saved as
          MaxSteps,          \* bound: steps
          MaxNow             \* bound: seconds

ASSUME DefaultIsType == Default \in TypeIds
ASSUME IdsFinite == IsFiniteSet(TypeIds) /\ IsFiniteSet(FieldIds) /\ IsFiniteSet(RuleIds)
ASSUME ConfigBounds == MaxSteps \in Nat /\ MaxNow \in Nat \ {0}

VARIABLES types,    \* doc_type: whether a template, parent, project
          fields,   \* extraction_field
          rules,    \* analysis_rule
          params,   \* type_param: pairs of type and key
          files,    \* files: the type of each
          projects, \* project
          draft,    \* a field request between its checks and its commit
          payload,  \* the configuration exported last
          page,     \* what a page shows of a type: its content and version
          second,   \* the clock of the database
          steps,    \* steps so far
          told,     \* references that were reported to lead nowhere
          known,    \* those that no check keeps sound: see Gap
          scope     \* bound: the kinds of request that are made

configVars == <<types, fields, rules, params, files, projects, draft, payload,
                page, second, steps, told, known, scope>>

None == "none"
ASSUME NoneIsNoType == None \notin TypeIds

TypeRow == [template: BOOLEAN, parent: TypeIds \union {None}, project: Projects \union {None}]
FieldRow ==
  [type: TypeIds, base: FieldIds, name: Names \union FieldIds, adv: BOOLEAN, hybrid: BOOLEAN,
   uses: SUBSET FieldIds, depend: SUBSET FieldIds, at: 0..MaxNow]
RuleRow == [type: TypeIds, base: RuleIds, name: Names \union RuleIds, at: 0..MaxNow]

FieldsOf(t) == {f \in DOMAIN fields : fields[f].type = t}
RulesOf(t) == {r \in DOMAIN rules : rules[r].type = t}
KeysOf(t) == {k \in Keys : <<t, k>> \in params}
Merge(f, g) == [x \in DOMAIN f \union DOMAIN g |-> IF x \in DOMAIN g THEN g[x] ELSE f[x]]
Drop(f, S) == Restrict(f, DOMAIN f \ S)

ConfigInit ==
  /\ \E s \in Start :
       /\ types = s.types /\ fields = s.fields /\ rules = s.rules
       /\ params = s.params /\ files = s.files /\ projects = s.projects
       /\ scope = s.scope
  /\ draft = [e \in Editors |-> {}]
  /\ payload = {}
  /\ page = {}
  /\ second = 1
  /\ steps = 0
  /\ told = {}
  /\ known = {}

-----------------------------------------------------------------------------
(* References between fields *)

(* An advanced field may refer to an ordinary field of its own type.        *)
Leads(fs, f, r) ==
  r \in DOMAIN fs /\ fs[r].type = fs[f].type /\ ~ fs[r].adv

Unsound(fs) ==
  {p \in {f \in DOMAIN fs : fs[f].adv} \X FieldIds :
     p[2] \in fs[p[1]].depend /\ ~ Leads(fs, p[1], p[2])}

(* What there is to start from was saved before, and every reference in it  *)
(* leads somewhere.                                                         *)
ASSUME StartSound ==
  \A s \in Start :
    /\ DOMAIN s.types \subseteq TypeIds /\ \A t \in DOMAIN s.types : s.types[t] \in TypeRow
    /\ Default \in DOMAIN s.types
    /\ s.types[Default].project = None /\ s.types[Default].parent = None
    /\ DOMAIN s.fields \subseteq FieldIds
    /\ \A f \in DOMAIN s.fields : s.fields[f] \in FieldRow /\ s.fields[f].at <= 1
    /\ DOMAIN s.rules \subseteq RuleIds
    /\ \A r \in DOMAIN s.rules : s.rules[r] \in RuleRow /\ s.rules[r].at <= 1
    /\ s.params \subseteq TypeIds \X Keys /\ s.projects \subseteq Projects
    /\ s.files \in UNION {[S -> DOMAIN s.types] : S \in SUBSET FileIds}
    /\ Unsound(s.fields) = {}

(* _referencing_advanced_fields *)
Referrers(t, r) == {f \in FieldsOf(t) : fields[f].adv /\ r \in fields[f].depend}

Step == steps < MaxSteps /\ steps' = steps + 1

(* A commit, by the editors E if it is one of theirs.  Of the references    *)
(* that lead nowhere, these are reported by it, and those come of a gap.    *)
Commit(E, reported, gap) ==
  /\ Step
  /\ draft' = [e \in Editors |->
       IF e \in E THEN {} ELSE {[d EXCEPT !.stale = TRUE] : d \in draft[e]}]
  /\ told' = (told \union reported) \intersect Unsound(fields')
  /\ known' = (known \union gap) \intersect Unsound(fields')
  /\ UNCHANGED <<payload, page, second, scope>>

Edit == Commit({}, {}, {})

-----------------------------------------------------------------------------
(* Saving and deleting a field *)

ASSUME ContentsSound ==
  \A c \in Contents :
    /\ c \in [type: TypeIds, id: FieldIds, name: Names, adv: BOOLEAN,
              hybrid: BOOLEAN, uses: SUBSET FieldIds]
    /\ ~ c.adv => c.uses = {} /\ ~ c.hybrid

(* Mutant of Accepts: a field that others refer to may become advanced. *)
MutAcceptsReferred(c) ==
  /\ c.adv => \A r \in c.uses : r \in FieldsOf(c.type) /\ ~ fields[r].adv
  /\ c.id \in DOMAIN fields => fields[c.id].type = c.type

(* The checks of upsert_field: what an advanced field refers to is an       *)
(* ordinary field of the type; a field that others refer to does not become *)
(* advanced; a field of another type is not touched.                        *)
Accepts(c) ==
  /\ c.adv => \A r \in c.uses : r \in FieldsOf(c.type) /\ ~ fields[r].adv
  /\ c.id \in DOMAIN fields /\ c.adv /\ ~ fields[c.id].adv => Referrers(c.type, c.id) = {}
  /\ c.id \in DOMAIN fields => fields[c.id].type = c.type

(* upsert_field up to the commit, with the row as it was read.  The type    *)
(* need not exist.                                                          *)
CheckSave(e) ==
  /\ Step
  /\ draft[e] = {}
  /\ \E c \in Contents :
       /\ Accepts(c)
       /\ draft' = [draft EXCEPT ![e] =
            {[op |-> "save", id |-> c.id, stale |-> FALSE, told |-> {},
              was |-> IF c.id \in DOMAIN fields THEN {fields[c.id]} ELSE {},
              new |-> [type |-> c.type, base |-> c.id, name |-> c.name, adv |-> c.adv,
                       hybrid |-> c.hybrid, uses |-> c.uses, depend |-> c.uses,
                       at |-> second]]}]
  /\ UNCHANGED <<types, fields, rules, params, files, projects, payload, page,
                 second, told, known, scope>>

(* An update writes the columns that differ from the row that was read.     *)
Updated(now, was, new) ==
  [k \in DOMAIN now |->
     IF k = "at" THEN second
     ELSE IF k # "base" /\ new[k] # was[k] THEN new[k] ELSE now[k]]

(* What two requests that overlap make unsound, neither has seen; and a     *)
(* field that turns advanced may refer to itself, as the check finds it     *)
(* ordinary.                                                                *)
Gap(d, fs) ==
  {p \in Unsound(fs) \ Unsound(fields) : d.stale \/ p[1] = p[2]}

Saved(d) ==
  LET row == IF d.was = {} THEN [d.new EXCEPT !.at = second]
             ELSE Updated(fields[d.id], CHOOSE w \in d.was : TRUE, d.new)
  IN  Merge(fields, [f \in {d.id} |-> row])

CommitSave(e) ==
  \E d \in draft[e] :
    /\ d.op = "save"
    /\ (d.id \in DOMAIN fields) <=> (d.was # {})
    /\ fields' = Saved(d)
    /\ Commit({e}, {}, Gap(d, Saved(d)))
    /\ UNCHANGED <<types, rules, params, files, projects>>

(* The row was made, or deleted, in the meantime: 500. *)
SaveFails(e) ==
  /\ Step
  /\ \E d \in draft[e] : d.op = "save" /\ ((d.id \in DOMAIN fields) <=> (d.was = {}))
  /\ draft' = [draft EXCEPT ![e] = {}]
  /\ UNCHANGED <<types, fields, rules, params, files, projects, payload, page,
                 second, told, known, scope>>

(* Mutant of CheckDelete: nobody is asked. *)
MutCheckDeleteUnasked(e) ==
  /\ Step
  /\ draft[e] = {}
  /\ \E f \in DOMAIN fields :
       draft' = [draft EXCEPT ![e] = {[op |-> "delete", id |-> f, stale |-> FALSE, told |-> {}]}]
  /\ UNCHANGED <<types, fields, rules, params, files, projects, payload, page,
                 second, told, known, scope>>

(* delete_field up to the commit: a field that others refer to goes only by *)
(* force, and they are named.                                               *)
CheckDelete(e) ==
  /\ Step
  /\ draft[e] = {}
  /\ \E f \in DOMAIN fields, force \in BOOLEAN :
       /\ Referrers(fields[f].type, f) # {} => force
       /\ draft' = [draft EXCEPT ![e] =
            {[op |-> "delete", id |-> f, stale |-> FALSE,
              told |-> Referrers(fields[f].type, f) \X {f}]}]
  /\ UNCHANGED <<types, fields, rules, params, files, projects, payload, page,
                 second, told, known, scope>>

CommitDelete(e) ==
  \E d \in draft[e] :
    /\ d.op = "delete"
    /\ fields' = Drop(fields, {d.id})
    /\ Commit({e}, d.told, Gap(d, Drop(fields, {d.id})))
    /\ UNCHANGED <<types, rules, params, files, projects>>

-----------------------------------------------------------------------------
(* Rules and input parameters *)

(* upsert_rule: a rule of another type is not touched. *)
SaveRule ==
  /\ \E t \in TypeIds, r \in RuleIds, n \in Names :
       /\ r \in DOMAIN rules => rules[r].type = t
       /\ rules' = Merge(rules, [x \in {r} |->
            [type |-> t, name |-> n, at |-> second,
             base |-> IF r \in DOMAIN rules THEN rules[r].base ELSE r]])
  /\ UNCHANGED <<types, fields, params, files, projects>>
  /\ Edit

DeleteRule ==
  /\ \E r \in DOMAIN rules : rules' = Drop(rules, {r})
  /\ UNCHANGED <<types, fields, params, files, projects>>
  /\ Edit

(* upsert_type_param *)
SaveParam ==
  /\ \E t \in DOMAIN types, k \in Keys : params' = params \union {<<t, k>>}
  /\ UNCHANGED <<types, fields, rules, files, projects>>
  /\ Edit

(* delete_type_param; what still refers to the key makes it take force.     *)
DeleteParam ==
  /\ \E p \in params : params' = params \ {p}
  /\ UNCHANGED <<types, fields, rules, files, projects>>
  /\ Edit

-----------------------------------------------------------------------------
(* Types *)

(* upsert_doctype: a type that is there keeps its lineage and project; the  *)
(* project of a new one is taken as it comes.                               *)
CreateType ==
  /\ \E t \in TypeIds \ DOMAIN types, p \in Projects \union {None} :
       types' = Merge(types, [u \in {t} |->
         [template |-> FALSE, parent |-> None, project |-> p]])
  /\ UNCHANGED <<fields, rules, params, files, projects>>
  /\ Edit

(* update_doctype with another type_id: files, fields, rules and children   *)
(* go along.  Input parameters stay with the old id.                        *)
RenameType ==
  /\ \E t \in DOMAIN types \ {Default}, u \in TypeIds \ DOMAIN types :
       /\ types' = [x \in (DOMAIN types \ {t}) \union {u} |->
            LET r == types[IF x = u THEN t ELSE x]
            IN  [r EXCEPT !.parent = IF @ = t THEN u ELSE @]]
       /\ files' = [f \in DOMAIN files |-> IF files[f] = t THEN u ELSE files[f]]
       /\ fields' = [f \in DOMAIN fields |->
            IF f \in FieldsOf(t) THEN [fields[f] EXCEPT !.type = u, !.at = second] ELSE fields[f]]
       /\ rules' = [r \in DOMAIN rules |->
            IF r \in RulesOf(t) THEN [rules[r] EXCEPT !.type = u, !.at = second] ELSE rules[r]]
  /\ UNCHANGED <<params, projects>>
  /\ Edit

(* _delete_one_type for each of a batch: neither the default type nor a     *)
(* template; files, fields and rules go along, by force; input parameters   *)
(* always do.  The children keep the id of their parent.                    *)
DeleteTypes ==
  /\ \E S \in SUBSET {t \in DOMAIN types \ {Default} : ~ types[t].template} :
       /\ S # {}
       /\ types' = Drop(types, S)
       /\ fields' = Drop(fields, UNION {FieldsOf(t) : t \in S})
       /\ rules' = Drop(rules, UNION {RulesOf(t) : t \in S})
       /\ files' = Drop(files, {f \in DOMAIN files : files[f] \in S})
       /\ params' = {p \in params : p[1] \notin S}
  /\ UNCHANGED <<projects>>
  /\ Edit

(* promote_type, demote_type *)
MarkTemplate ==
  /\ \E t \in DOMAIN types \ {Default} :
       types' = [types EXCEPT ![t].template = ~ @]
  /\ UNCHANGED <<fields, rules, params, files, projects>>
  /\ Edit

(* upload_file: a file of a type that exists. *)
Upload ==
  /\ \E f \in FileIds \ DOMAIN files, t \in DOMAIN types :
       files' = Merge(files, [x \in {f} |-> t])
  /\ UNCHANGED <<types, fields, rules, params, projects>>
  /\ Edit

-----------------------------------------------------------------------------
(* Copying, exporting and importing *)

Fresh(S, used, ids) ==
  {m \in [S -> ids \ used] : IsInjective(m)}

(* Mutant of Remapped: the references keep their ids. *)
MutRemappedNot(row, map) == row

(* _remap_advanced_field_config: the placeholders of an advanced field are  *)
(* rewritten, except those nested in the channels of a hybrid search; its   *)
(* depend_fields are rewritten in any case.                                 *)
Remapped(row, map) ==
  LET To(r) == IF r \in DOMAIN map THEN map[r] ELSE r IN
  IF ~ row.adv THEN row
  ELSE [row EXCEPT !.depend = {To(r) : r \in @},
                   !.uses = IF row.hybrid THEN @ ELSE {To(r) : r \in @}]

(* The references of source rows that the mapping misses: these are         *)
(* reported, by the id of the row they are copied to.                       *)
Missing(source, m, map) ==
  UNION {{m[f]} \X (source[f].uses \ DOMAIN map) : f \in {g \in DOMAIN m : source[g].adv}}

(* A copy is no better than what it copies: a reference the source has in   *)
(* vain, or only in its depend_fields, and one that was led to a field      *)
(* which merely has the same name.                                          *)
Inherited(source, m, map) ==
  UNION {{m[f]} \X
           ({map[r] : r \in {s \in source[f].depend \intersect DOMAIN map :
                               \/ <<f, s>> \in Unsound(source)
                               \/ s \notin DOMAIN m}}
            \union (source[f].depend \ source[f].uses))
         : f \in {g \in DOMAIN m : source[g].adv}}

(* _has_copy_id *)
HasCopy(rows, t, f, source) ==
  \E g \in DOMAIN rows : rows[g].type = t /\ rows[g].base = source[f].base /\ g # rows[g].base

(* The rows a copy takes from those asked for: with "skip", none of which   *)
(* the target has a copy, the ones just made included.                      *)
Chosen(rows, t, asked, skip) ==
  IF ~ skip THEN {asked}
  ELSE {S \in SUBSET {f \in asked : ~ HasCopy(rows, t, f, rows)} :
          /\ \A f, g \in S : rows[f].base = rows[g].base => f = g
          /\ \A f \in asked \ S :
               HasCopy(rows, t, f, rows) \/ \E g \in S : rows[f].base = rows[g].base}

(* copy_configs: fields, rules and all input parameters of one type to      *)
(* another, which becomes its child and joins its project if it has none.   *)
CopyFrom(t, s, asked, skip) ==
  /\ \E S \in Chosen(fields, t, asked, skip), R \in Chosen(rules, t, RulesOf(s), skip) :
     \E m \in Fresh(S, DOMAIN fields, FieldIds), n \in Fresh(R, DOMAIN rules, RuleIds) :
       /\ fields' = Merge(fields, [g \in {m[f] : f \in S} |->
            [Remapped(fields[AntiFunction(m)[g]], m) EXCEPT !.type = t, !.at = second]])
       /\ rules' = Merge(rules, [q \in {n[r] : r \in R} |->
            [rules[AntiFunction(n)[q]] EXCEPT !.type = t, !.at = second]])
       /\ Commit({}, Missing(fields, m, m), Inherited(fields, m, m))
  /\ params' = params \union ({t} \X KeysOf(s))
  /\ types' = IF t = Default THEN types
              ELSE [types EXCEPT ![t].parent = s,
                      ![t].project = IF @ = None THEN types[s].project ELSE @]
  /\ UNCHANGED <<files, projects>>

Copy ==
  \E t, s \in DOMAIN types : \E asked \in SUBSET FieldsOf(s), skip \in BOOLEAN :
    t # s /\ CopyFrom(t, s, asked, skip)

(* export_configs; bound: once. *)
Export ==
  /\ Step
  /\ payload = {}
  /\ \E t \in DOMAIN types :
       payload' = {[fields |-> Restrict(fields, FieldsOf(t)),
                    rules |-> Restrict(rules, RulesOf(t)), keys |-> KeysOf(t)]}
  /\ UNCHANGED <<types, fields, rules, params, files, projects, draft, page,
                 second, told, known, scope>>

(* The rows of a payload whose name is not taken, one of each name. *)
Named(source, taken) ==
  {S \in SUBSET {f \in DOMAIN source : source[f].name \notin taken} :
     /\ \A f, g \in S : source[f].name = source[g].name => f = g
     /\ \A f \in DOMAIN source :
          source[f].name \in taken \/ \E g \in S : source[f].name = source[g].name}

(* Ids of imported rows: their own, or a new one where that is in use.      *)
OwnIds(S, used, ids) ==
  {m \in Fresh(S, used, ids) : \A f \in S : f \notin used => m[f] = f}

(* Where a skipped field leads: to the field of the target with its name.   *)
SameName(source, S, m, t) ==
  {map \in [DOMAIN source \ S -> FieldIds] :
     \A f \in DOMAIN map :
       IF \E g \in S : source[g].name = source[f].name
         THEN \E g \in S : source[g].name = source[f].name /\ map[f] = m[g]
         ELSE map[f] \in {h \in FieldsOf(t) : fields[h].name = source[f].name}}

Arrived(row, id, from, first, t) ==
  [row EXCEPT !.type = t, !.at = second,
              !.base = IF id = from THEN @ ELSE id,
              !.name = IF from \in first THEN @ ELSE id]

(* import_configs: the type is made if need be; rows whose name is taken    *)
(* are skipped, or come under a name of their own.                          *)
ImportInto(p, t, skip) ==
  /\ \E first \in Named(p.fields, {fields[f].name : f \in FieldsOf(t)}),
        firstR \in Named(p.rules, {rules[r].name : r \in RulesOf(t)}) :
     LET S == IF skip THEN first ELSE DOMAIN p.fields
         R == IF skip THEN firstR ELSE DOMAIN p.rules
     IN
     \E m \in OwnIds(S, DOMAIN fields, FieldIds), n \in OwnIds(R, DOMAIN rules, RuleIds) :
     \E same \in SameName(p.fields, S, m, t) :
       /\ fields' = Merge(fields, [g \in {m[f] : f \in S} |->
            LET f == AntiFunction(m)[g]
            IN  Arrived(Remapped(p.fields[f], Merge(m, same)), g, f, first, t)])
       /\ rules' = Merge(rules, [q \in {n[r] : r \in R} |->
            LET r == AntiFunction(n)[q] IN Arrived(p.rules[r], q, r, firstR, t)])
       /\ Commit({}, Missing(p.fields, m, Merge(m, same)),
                 Inherited(p.fields, m, Merge(m, same)))
  /\ params' = params \union ({t} \X p.keys)
  /\ types' = IF t \in DOMAIN types THEN types
              ELSE Merge(types, [u \in {t} |->
                     [template |-> FALSE, parent |-> None, project |-> None]])
  /\ UNCHANGED <<files, projects>>

Import == \E p \in payload, t \in TypeIds, skip \in BOOLEAN : ImportInto(p, t, skip)

-----------------------------------------------------------------------------
(* Projects *)

(* Mutant of LineageClosure: the children, and no further. *)
MutLineageClosureChildren(roots) ==
  roots \union {t \in DOMAIN types : types[t].parent \in roots}

(* _lineage_closure: from the roots to their children and on, as long as a  *)
(* round finds new ones.                                                    *)
LineageClosure(roots) ==
  LET round[n \in 0..Cardinality(TypeIds)] ==
        IF n = 0 THEN [result |-> roots, frontier |-> roots]
        ELSE LET last == round[n - 1]
                 new == {t \in DOMAIN types : types[t].parent \in last.frontier} \ last.result
             IN  [result |-> last.result \union new, frontier |-> new]
  IN  round[Cardinality(TypeIds)].result

(* upsert_project *)
SaveProject ==
  /\ \E p \in Projects : projects' = projects \union {p}
  /\ UNCHANGED <<types, fields, rules, params, files>>
  /\ Edit

(* delete_project: its types are left without one. *)
DeleteProject ==
  /\ \E p \in projects :
       /\ projects' = projects \ {p}
       /\ types' = [t \in DOMAIN types |->
            [types[t] EXCEPT !.project = IF @ = p THEN None ELSE @]]
  /\ UNCHANGED <<fields, rules, params, files>>
  /\ Edit

(* batch_assign_project: some types and all that descend from them, but not *)
(* the default type.                                                        *)
AssignProject ==
  /\ \E p \in projects \union {None}, roots \in SUBSET DOMAIN types :
       /\ roots # {}
       /\ types' = [t \in DOMAIN types |->
            IF t \in LineageClosure(roots) \ {Default}
              THEN [types[t] EXCEPT !.project = p] ELSE types[t]]
  /\ UNCHANGED <<fields, rules, params, files, projects>>
  /\ Edit

-----------------------------------------------------------------------------
(* A page that polls for changes *)

Config(t) == <<Restrict(fields, FieldsOf(t)), Restrict(rules, RulesOf(t))>>
Latest(rows, S) == Max({0} \union {rows[x].at : x \in S})

(* Mutant of Version: only the latest change counts. *)
MutVersionLatest(t) == <<Latest(fields, FieldsOf(t)), Latest(rules, RulesOf(t))>>

(* get_config_version *)
Version(t) ==
  <<Latest(fields, FieldsOf(t)), Latest(rules, RulesOf(t)),
    Cardinality(FieldsOf(t)), Cardinality(RulesOf(t))>>

(* The page loads the configuration and its version; bound: once. *)
OpenPage ==
  /\ Step
  /\ page = {}
  /\ \E t \in DOMAIN types :
       page' = {[type |-> t, config |-> Config(t), version |-> Version(t), at |-> second]}
  /\ UNCHANGED <<types, fields, rules, params, files, projects, draft, payload,
                 second, told, known, scope>>

NextSecond ==
  /\ Step
  /\ second < MaxNow
  /\ second' = second + 1
  /\ UNCHANGED <<types, fields, rules, params, files, projects, draft, payload,
                 page, told, known, scope>>

ConfigNext ==
  \/ /\ "fields" \in scope
     /\ \E e \in Editors :
          CheckSave(e) \/ CommitSave(e) \/ SaveFails(e) \/ CheckDelete(e) \/ CommitDelete(e)
  \/ "rules" \in scope /\ (SaveRule \/ DeleteRule)
  \/ "params" \in scope /\ (SaveParam \/ DeleteParam)
  \/ "types" \in scope /\ (CreateType \/ RenameType \/ DeleteTypes \/ MarkTemplate \/ Upload)
  \/ "copies" \in scope /\ Copy
  \/ "imports" \in scope /\ (Export \/ Import)
  \/ "projects" \in scope /\ (SaveProject \/ DeleteProject \/ AssignProject)
  \/ "pages" \in scope /\ (OpenPage \/ NextSecond)

ConfigSpec == ConfigInit /\ [][ConfigNext]_configVars

-----------------------------------------------------------------------------
(* Properties *)

(* The variables have their types, and some rows that never go. *)
ConfigTypeOK ==
  /\ DOMAIN types \subseteq TypeIds /\ Default \in DOMAIN types
  /\ \A t \in DOMAIN types : types[t] \in TypeRow
  /\ types[Default].project = None /\ types[Default].parent = None
  /\ DOMAIN fields \subseteq FieldIds
  /\ \A f \in DOMAIN fields : fields[f] \in FieldRow
  /\ DOMAIN rules \subseteq RuleIds
  /\ \A r \in DOMAIN rules : rules[r] \in RuleRow
  /\ params \subseteq TypeIds \X Keys
  /\ files \in UNION {[S -> DOMAIN types] : S \in SUBSET FileIds}
  /\ projects \subseteq Projects
  /\ second \in 1..MaxNow /\ steps \in 0..MaxSteps

(* What an advanced field depends on is an ordinary field of its type,      *)
(* unless someone was told that it leads nowhere: whatever is saved,        *)
(* deleted, renamed, copied and imported.  The gaps are requests that       *)
(* overlap, a field that refers to itself, an import that takes a field of  *)
(* the same name for the one that was meant, and copies of any of these.    *)
ReferencesSound == Unsound(fields) \subseteq told \union known

(* What the documentation of copying says: no reference of a copied field   *)
(* leads out of its type without being reported.                            *)
NothingSwallowed ==
  \A f \in DOMAIN fields : fields[f].adv =>
    \A r \in fields[f].uses :
      \/ r \in FieldsOf(fields[f].type)
      \/ <<f, r>> \in told

(* A page that shows a configuration which has changed sees another         *)
(* version: whatever was added, changed in place, deleted, or both.  Only a *)
(* page opened in the very second of the last change may miss another one   *)
(* in that second.                                                          *)
ProbeSeesChanges ==
  \A p \in page :
    /\ Version(p.type) = p.version
    /\ p.at > Max({p.version[1], p.version[2]})
    => Config(p.type) = p.config

(* A set that holds the roots and the children of its members. *)
Descendants(S, roots) ==
  roots \subseteq S /\ \A t \in DOMAIN types : types[t].parent \in S => t \in S

(* Assigning types to a project reaches those, and only those, that descend *)
(* from them along parent_type_id, though lineages may have cycles and      *)
(* parents that were deleted.                                               *)
ClosureIsDescendants ==
  \A roots \in SUBSET DOMAIN types :
    /\ Descendants(LineageClosure(roots), roots)
    /\ \A S \in SUBSET DOMAIN types :
         Descendants(S, roots) => LineageClosure(roots) \subseteq S
=============================================================================
