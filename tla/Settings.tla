------------------------------ MODULE Settings ------------------------------
(***************************************************************************)
(* The configuration document: a YAML file that administrators change       *)
(* through two services under one lock (service/settings_service.py,        *)
(* service/access_control_service.py) and operators by hand under none; the *)
(* configuration in force; and the capacity of a concurrency pool.          *)
(*                                                                         *)
(* A save carries the version of the document its author has read.  The     *)
(* version is a digest under a key of the process: no two documents share   *)
(* one, and one of an earlier process matches nothing.  The document is     *)
(* kept to a capacity, the administrator's credentials and the API keys;    *)
(* API keys are numbered as they are handed out.                            *)
(***************************************************************************)
EXTENDS Naturals, FiniteSets

CONSTANTS Admins,    \* the settings pages that are open
          KeyIds,    \* entries of access_control.api_keys
          Limits,    \* capacities the pool can have
          Creds,     \* administrator credentials
          MaxMints,  \* bound: API keys handed out
          MaxSaves   \* bound: changes of the document, by whomever

ASSUME ChoicesExist == Limits # {} /\ Creds # {}
ASSUME BoundsNat == MaxMints \in Nat /\ MaxSaves \in Nat

VARIABLES disk,     \* the document in the file
          live,     \* the configuration in force: get_config()
          limit,    \* the capacity the pool has
          form,     \* the document each page was last given: its version
          pending,    \* what the save of each page is about to put in force
          step,     \* where the save of each page stands
          minted,   \* API keys handed out so far
          revoked,  \* keys withdrawn by answered saves, and not enabled again
          edited,   \* the file was edited by hand and not loaded since
          lost,     \* a save is about to overwrite such an edit
          lagging,  \* a capacity went in force that the pool was not given
          saves     \* changes so far

settingsVars == <<disk, live, limit, form, pending, step, minted, revoked,
                  edited, lost, lagging, saves>>

Entries == [key: 0..MaxMints, on: BOOLEAN]
NoEntry == [key |-> 0, on |-> FALSE]
Documents == [limit: Limits, cred: Creds, keys: [KeyIds -> Entries]]
Steps == {"idle", "write", "limits", "config"}
Services == {"settings", "access"}

SettingsInit ==
  /\ disk \in [limit: Limits, cred: Creds, keys: {[k \in KeyIds |-> NoEntry]}]
  /\ live = disk
  /\ limit = disk.limit
  /\ form = [a \in Admins |-> {}]
  /\ pending = [a \in Admins |-> [doc |-> disk, by |-> "settings"]]
  /\ step = [a \in Admins |-> "idle"]
  /\ minted = 0
  /\ revoked = {}
  /\ edited = FALSE
  /\ lost = FALSE
  /\ lagging = FALSE
  /\ saves = 0

KeysOn(doc) == {doc.keys[k].key : k \in {j \in KeyIds : doc.keys[j].on}}

(* api_key_identity: an enabled entry has the key. *)
Accepted(doc, key) == key \in KeysOn(doc)

-----------------------------------------------------------------------------
(* Reading and saving *)

Locked == \E a \in Admins : step[a] # "idle"

(* read_public_config, AccessControlService.read. *)
OpenForm(a) ==
  /\ ~ Locked
  /\ form' = [form EXCEPT ![a] = {disk}]
  /\ UNCHANGED <<disk, live, limit, pending, step, minted, revoked, edited, lost, lagging, saves>>

(* Mutant of Current: the version a page sends is not looked at. *)
MutCurrentAny(a) == form[a] # {}

(* The version the page sends is the one of the document. *)
Current(a) == form[a] = {disk}

(* update_config and mutate, up to the write: the lock, the document as it  *)
(* is, its version, the change, its validation.  A page with another        *)
(* version, or an invalid change, is told so and nothing changes.           *)
BeginSave(a, doc, by) ==
  /\ ~ Locked
  /\ Current(a)
  /\ saves < MaxSaves
  /\ pending' = [pending EXCEPT ![a] = [doc |-> doc, by |-> by]]
  /\ step' = [step EXCEPT ![a] = "write"]
  /\ saves' = saves + 1
  /\ lost' = FALSE
  /\ UNCHANGED <<disk, live, limit, form, revoked, edited, lagging>>

(* PATCH /settings/config. *)
SaveSettings(a) ==
  /\ \E l \in Limits : BeginSave(a, [disk EXCEPT !.limit = l], "settings")
  /\ UNCHANGED minted

HandOut(a, k, on) ==
  /\ minted < MaxMints
  /\ minted' = minted + 1
  /\ BeginSave(a, [disk EXCEPT !.keys[k] = [key |-> minted + 1, on |-> on]], "access")

(* operation create: an entry of its own with a new key. *)
CreateKey(a) == \E k \in KeyIds : disk.keys[k] = NoEntry /\ HandOut(a, k, TRUE)

(* operation rotate: the entry gets a new key and stays as it is. *)
RotateKey(a) ==
  \E k \in KeyIds : disk.keys[k] # NoEntry /\ HandOut(a, k, disk.keys[k].on)

(* operation update: the entry is enabled or disabled. *)
EnableKey(a) ==
  /\ \E k \in KeyIds, on \in BOOLEAN :
       /\ disk.keys[k] # NoEntry
       /\ BeginSave(a, [disk EXCEPT !.keys[k].on = on], "access")
  /\ UNCHANGED minted

(* operation delete. *)
DeleteKey(a) ==
  /\ \E k \in KeyIds :
       /\ disk.keys[k] # NoEntry
       /\ BeginSave(a, [disk EXCEPT !.keys[k] = NoEntry], "access")
  /\ UNCHANGED minted

-----------------------------------------------------------------------------
(* Putting a change in force *)

(* _write_atomic: a temporary file takes the place of the document.  What   *)
(* was edited by hand since the document was loaded is gone.                *)
Write(a) ==
  /\ step[a] = "write"
  /\ disk' = pending[a].doc
  /\ step' = [step EXCEPT ![a] = "limits"]
  /\ edited' = FALSE
  /\ revoked' = revoked \ KeysOn(pending[a].doc)
  /\ UNCHANGED <<live, limit, form, pending, minted, lost, lagging, saves>>

(* Mutant of WriteFails: the pool has its new capacity before the write. *)
MutWriteFailsLate(a) ==
  /\ step[a] = "write"
  /\ limit' = pending[a].doc.limit
  /\ step' = [step EXCEPT ![a] = "idle"]
  /\ UNCHANGED <<disk, live, form, pending, minted, revoked, edited, lost, lagging, saves>>

(* ConfigWriteError: the file stays as it is. *)
WriteFails(a) ==
  /\ step[a] = "write"
  /\ step' = [step EXCEPT ![a] = "idle"]
  /\ UNCHANGED <<disk, live, limit, form, pending, minted, revoked, edited, lost, lagging, saves>>

(* replace_limiters.  A save of the settings runs on the event loop; one of *)
(* the access control runs in the thread pool, where there is no running    *)
(* loop and therefore no limiter to change.                                 *)
ApplyLimits(a) ==
  /\ step[a] = "limits"
  /\ \/ /\ pending[a].by = "settings"
        /\ limit' = pending[a].doc.limit
        /\ lagging' = FALSE
     \/ /\ pending[a].by = "access"
        /\ lagging' = (limit # pending[a].doc.limit)
        /\ UNCHANGED limit
  /\ step' = [step EXCEPT ![a] = "config"]
  /\ UNCHANGED <<disk, live, form, pending, minted, revoked, edited, lost, saves>>

(* Mutant of ApplyConfig: the save is answered and the configuration stays. *)
MutApplyConfigNever(a) ==
  /\ step[a] = "config"
  /\ revoked' = revoked \union (KeysOn(live) \ KeysOn(pending[a].doc))
  /\ form' = [form EXCEPT ![a] = {pending[a].doc}]
  /\ step' = [step EXCEPT ![a] = "idle"]
  /\ UNCHANGED <<disk, live, limit, pending, minted, edited, lost, lagging, saves>>

(* replace_config, the answer with the new version, the lock released. *)
ApplyConfig(a) ==
  /\ step[a] = "config"
  /\ live' = pending[a].doc
  /\ revoked' = revoked \union (KeysOn(live) \ KeysOn(pending[a].doc))
  /\ form' = [form EXCEPT ![a] = {pending[a].doc}]
  /\ step' = [step EXCEPT ![a] = "idle"]
  /\ UNCHANGED <<disk, limit, pending, minted, edited, lost, lagging, saves>>

-----------------------------------------------------------------------------
(* Operators and restarts *)

(* The file is edited by hand, at any time. *)
HandEdit ==
  /\ saves < MaxSaves
  /\ \E l \in Limits, c \in Creds :
       /\ [disk EXCEPT !.limit = l, !.cred = c] # disk
       /\ disk' = [disk EXCEPT !.limit = l, !.cred = c]
  /\ edited' = TRUE
  /\ lost' = (lost \/ \E a \in Admins : step[a] = "write")
  /\ saves' = saves + 1
  /\ UNCHANGED <<live, limit, form, pending, step, minted, revoked, lagging>>

(* The process ends, in the middle of a save as well, and starts again: it  *)
(* loads the file, makes its pools anew and has another version key.        *)
Restart ==
  /\ live' = disk
  /\ limit' = disk.limit
  /\ form' = [a \in Admins |-> {}]
  /\ step' = [a \in Admins |-> "idle"]
  /\ edited' = FALSE
  /\ lost' = FALSE
  /\ lagging' = FALSE
  /\ UNCHANGED <<disk, pending, minted, revoked, saves>>

SettingsNext ==
  \/ \E a \in Admins :
       \/ OpenForm(a) \/ SaveSettings(a)
       \/ CreateKey(a) \/ RotateKey(a) \/ EnableKey(a) \/ DeleteKey(a)
       \/ Write(a) \/ WriteFails(a) \/ ApplyLimits(a) \/ ApplyConfig(a)
  \/ HandEdit
  \/ Restart

SettingsSpec == SettingsInit /\ [][SettingsNext]_settingsVars

-----------------------------------------------------------------------------
(* Properties *)

(* The variables have their types. *)
SettingsTypeOK ==
  /\ disk \in Documents /\ live \in Documents
  /\ limit \in Limits
  /\ form \in [Admins -> SUBSET Documents]
  /\ pending \in [Admins -> [doc: Documents, by: Services]]
  /\ step \in [Admins -> Steps]
  /\ minted \in 0..MaxMints
  /\ revoked \subseteq 0..MaxMints
  /\ edited \in BOOLEAN /\ lost \in BOOLEAN /\ lagging \in BOOLEAN
  /\ saves \in 0..MaxSaves

(* A save replaces the very document its author has seen: between the two   *)
(* no other page saved, and no earlier process gave out the form.  Only an  *)
(* edit by hand in the course of the save is overwritten unseen.            *)
NoBlindOverwrite ==
  [][\A a \in Admins :
       step[a] = "write" /\ step'[a] = "limits" => form[a] = {disk} \/ lost]_settingsVars

(* Once the withdrawal of a key is answered, be it deleted, rotated or      *)
(* disabled, no request with it is accepted: not after a restart, and not   *)
(* because another page, or a save that failed, puts an old document in     *)
(* force.                                                                   *)
RevokedRefused == \A key \in revoked : ~ Accepted(live, key)

(* When no save is under way, what is in force is what the file says and    *)
(* the pool has the capacity in force, except for what was edited by hand   *)
(* and not loaded since, and for a capacity a save of the access control    *)
(* found in the file.                                                       *)
LiveFollowsDisk ==
  ~ Locked =>
    /\ edited \/ live = disk
    /\ lagging \/ limit = live.limit
=============================================================================
