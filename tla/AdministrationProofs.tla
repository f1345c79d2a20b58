------------------------ MODULE AdministrationProofs ------------------------
(***************************************************************************)
(* Proofs about what an administrator changes: the configuration document   *)
(* (Settings) for every number of open pages, API keys, capacities and      *)
(* credentials, the login (AdminLogin) for every number of clients, limits  *)
(* and caps, and the document types (TypeConfig) for every set of types,    *)
(* fields, rules and requests.                                              *)
(*                                                                         *)
(* The properties of the document hold only because one save at a time is   *)
(* between reading and answering, and because of what each of its steps has *)
(* done so far: SettingsInv says so, step by step, and is inductive.        *)
(*                                                                         *)
(* The lockout counts attempts per client and forgets the count when it is  *)
(* old, so what it promises is about times that are stored nowhere:         *)
(* LockoutInv relates the count to the times of the failures, and says that *)
(* whatever is forgotten is LOCK_SECONDS older than what comes next.        *)
(*                                                                         *)
(* The types are trees: what the rounds of _lineage_closure find is shown   *)
(* round by round to be the descendants, and that a request is refused or   *)
(* leaves the references sound, for each request.                           *)
(***************************************************************************)
EXTENDS MCAdministration, TLAPS, FiniteSetTheorems, WellFoundedInduction

(* The lock: one save at a time. *)
OneSave == \A a, b \in Admins : step[a] # "idle" /\ step[b] # "idle" => a = b

(* Up to the write, the document is the one the page was given. *)
FormHeld == \A a \in Admins : step[a] = "write" => form[a] = {disk} \/ lost

(* After the write, the document has the keys of the change, and is the     *)
(* change unless it was edited since; the pool has its capacity next.       *)
Written ==
  \A a \in Admins :
    /\ step[a] \in {"limits", "config"} =>
         /\ disk.keys = pending[a].doc.keys
         /\ edited \/ disk = pending[a].doc
    /\ step[a] = "config" => lagging \/ limit = pending[a].doc.limit

(* Before it, what is in force is what the file says. *)
InForce ==
  (\A a \in Admins : step[a] \notin {"limits", "config"}) =>
    /\ edited \/ live = disk
    /\ lagging \/ limit = live.limit

(* No withdrawn key is on, in the file or in force. *)
Withdrawn == revoked \intersect KeysOn(disk) = {} /\ revoked \intersect KeysOn(live) = {}

SettingsInv == SettingsTypeOK /\ OneSave /\ FormHeld /\ Written /\ InForce /\ Withdrawn

-----------------------------------------------------------------------------
(* What a save changes: whatever it is for, it goes through BeginSave with  *)
(* a document, and hands out at most one key.                               *)
LEMMA Saving ==
  ASSUME SettingsTypeOK, NEW a \in Admins,
         SaveSettings(a) \/ CreateKey(a) \/ RotateKey(a) \/ EnableKey(a) \/ DeleteKey(a)
  PROVE  /\ \E doc \in Documents, by \in Services : BeginSave(a, doc, by)
         /\ minted' \in 0..MaxMints /\ minted <= minted'
<1>1. disk \in Documents /\ minted \in 0..MaxMints  BY DEF SettingsTypeOK
<1>2. NoEntry \in Entries  BY BoundsNat DEF NoEntry, Entries
<1>3. \A k \in KeyIds : disk.keys[k] \in Entries  BY <1>1 DEF Documents
<1>4. \A k \in KeyIds, e \in Entries : [disk EXCEPT !.keys[k] = e] \in Documents
  BY <1>1 DEF Documents
<1>5. CASE SaveSettings(a)
  <2>1. PICK l \in Limits : BeginSave(a, [disk EXCEPT !.limit = l], "settings")
    BY <1>5 DEF SaveSettings
  <2>2. [disk EXCEPT !.limit = l] \in Documents  BY <1>1 DEF Documents
  <2> QED  BY <2>1, <2>2, <1>1, <1>5, BoundsNat DEF SaveSettings, Services
<1>6. ASSUME NEW k \in KeyIds, NEW on \in BOOLEAN, HandOut(a, k, on)
      PROVE  /\ \E doc \in Documents, by \in Services : BeginSave(a, doc, by)
             /\ minted' \in 0..MaxMints /\ minted <= minted'
  <2>1. minted + 1 \in 0..MaxMints  BY <1>6, <1>1, BoundsNat DEF HandOut
  <2>2. [key |-> minted + 1, on |-> on] \in Entries  BY <2>1 DEF Entries
  <2> DEFINE doc == [disk EXCEPT !.keys[k] = [key |-> minted + 1, on |-> on]]
  <2>3. doc \in Documents  BY <1>4, <2>2
  <2>4. BeginSave(a, doc, "access")  BY <1>6 DEF HandOut
  <2> QED  BY <1>6, <1>1, <2>1, <2>3, <2>4, BoundsNat DEF HandOut, Services
<1>7. CASE CreateKey(a)  BY <1>6, <1>7 DEF CreateKey
<1>8. CASE RotateKey(a)
  <2>1. PICK k \in KeyIds : HandOut(a, k, disk.keys[k].on)  BY <1>8 DEF RotateKey
  <2>2. disk.keys[k].on \in BOOLEAN  BY <1>3 DEF Entries
  <2> QED  BY <1>6, <2>1, <2>2
<1>9. CASE EnableKey(a)
  <2>1. PICK k \in KeyIds, on \in BOOLEAN : BeginSave(a, [disk EXCEPT !.keys[k].on = on], "access")
    BY <1>9 DEF EnableKey
  <2>2. [disk EXCEPT !.keys[k].on = on] \in Documents
    BY <1>1, <1>3 DEF Documents, Entries
  <2> QED  BY <2>1, <2>2, <1>1, <1>9, BoundsNat DEF EnableKey, Services
<1>10. CASE DeleteKey(a)
  <2>1. PICK k \in KeyIds : BeginSave(a, [disk EXCEPT !.keys[k] = NoEntry], "access")
    BY <1>10 DEF DeleteKey
  <2>2. [disk EXCEPT !.keys[k] = NoEntry] \in Documents  BY <1>2, <1>4
  <2> QED  BY <2>1, <2>2, <1>1, <1>10, BoundsNat DEF DeleteKey, Services
<1> QED  BY <1>5, <1>7, <1>8, <1>9, <1>10

(* The keys a document has on are among those that were handed out. *)
LEMMA KeysInRange ==
  ASSUME NEW doc \in Documents
  PROVE  KeysOn(doc) \subseteq 0..MaxMints
<1>1. \A k \in KeyIds : doc.keys[k].key \in 0..MaxMints  BY DEF Documents, Entries
<1> QED  BY <1>1 DEF KeysOn

(* A document with the same keys has the same ones on. *)
LEMMA SameKeys ==
  ASSUME NEW d, NEW e, d.keys = e.keys
  PROVE  KeysOn(d) = KeysOn(e)
BY DEF KeysOn

-----------------------------------------------------------------------------
(* The invariant holds at first. *)
LEMMA InitInv ==
  ASSUME SettingsInit
  PROVE  SettingsInv
<1>1. NoEntry \in Entries  BY BoundsNat DEF NoEntry, Entries
<1>2. disk \in Documents /\ disk.keys = [k \in KeyIds |-> NoEntry]
  BY <1>1 DEF SettingsInit, Documents
<1>3. SettingsTypeOK
  <2>1. disk \in Documents /\ live \in Documents /\ limit \in Limits
    BY <1>2 DEF SettingsInit, Documents
  <2>2. form \in [Admins -> SUBSET Documents]  BY DEF SettingsInit
  <2>3. pending \in [Admins -> [doc: Documents, by: Services]]
    BY <1>2 DEF SettingsInit, Services
  <2>4. step \in [Admins -> Steps]  BY DEF SettingsInit, Steps
  <2>5. minted \in 0..MaxMints /\ saves \in 0..MaxSaves /\ revoked \subseteq 0..MaxMints
    BY BoundsNat DEF SettingsInit
  <2>6. edited \in BOOLEAN /\ lost \in BOOLEAN /\ lagging \in BOOLEAN  BY DEF SettingsInit
  <2> QED  BY <2>1, <2>2, <2>3, <2>4, <2>5, <2>6 DEF SettingsTypeOK
<1>4. OneSave /\ FormHeld /\ Written  BY DEF SettingsInit, OneSave, FormHeld, Written
<1>5. InForce /\ Withdrawn  BY DEF SettingsInit, InForce, Withdrawn
<1> QED  BY <1>3, <1>4, <1>5 DEF SettingsInv

(* Every step keeps the types. *)
LEMMA TypeStep ==
  ASSUME SettingsTypeOK, [SettingsNext]_settingsVars
  PROVE  SettingsTypeOK'
<1> USE DEF SettingsTypeOK
<1>1. CASE UNCHANGED settingsVars  BY <1>1 DEF settingsVars
<1>2. ASSUME NEW a \in Admins, OpenForm(a)
      PROVE  SettingsTypeOK'
  BY <1>2 DEF OpenForm
<1>3. ASSUME NEW a \in Admins, NEW doc \in Documents, NEW by \in Services, BeginSave(a, doc, by),
             minted' \in 0..MaxMints
      PROVE  SettingsTypeOK'
  <2>1. pending' \in [Admins -> [doc: Documents, by: Services]]  BY <1>3 DEF BeginSave
  <2>2. step' \in [Admins -> Steps]  BY <1>3 DEF BeginSave, Steps
  <2>3. saves' \in 0..MaxSaves  BY <1>3, BoundsNat DEF BeginSave
  <2> QED  BY <1>3, <2>1, <2>2, <2>3 DEF BeginSave
<1>4. ASSUME NEW a \in Admins,
             SaveSettings(a) \/ CreateKey(a) \/ RotateKey(a) \/ EnableKey(a) \/ DeleteKey(a)
      PROVE  SettingsTypeOK'
  <2>1. /\ \E doc \in Documents, by \in Services : BeginSave(a, doc, by)
        /\ minted' \in 0..MaxMints
    BY <1>4, Saving
  <2> QED  BY <2>1, <1>3
<1>5. ASSUME NEW a \in Admins, Write(a)
      PROVE  SettingsTypeOK'
  <2>1. step' \in [Admins -> Steps]  BY <1>5 DEF Write, Steps
  <2> QED  BY <1>5, <2>1 DEF Write
<1>6. ASSUME NEW a \in Admins, WriteFails(a)
      PROVE  SettingsTypeOK'
  BY <1>6 DEF WriteFails, Steps
<1>7. ASSUME NEW a \in Admins, ApplyLimits(a)
      PROVE  SettingsTypeOK'
  <2>1. limit' \in Limits  BY <1>7 DEF ApplyLimits, Documents
  <2>2. lagging' \in BOOLEAN  BY <1>7 DEF ApplyLimits
  <2>3. step' \in [Admins -> Steps]  BY <1>7 DEF ApplyLimits, Steps
  <2> QED  BY <1>7, <2>1, <2>2, <2>3 DEF ApplyLimits
<1>8. ASSUME NEW a \in Admins, ApplyConfig(a)
      PROVE  SettingsTypeOK'
  <2>1. pending[a].doc \in Documents  OBVIOUS
  <2>2. revoked' \subseteq 0..MaxMints  BY <1>8, KeysInRange DEF ApplyConfig
  <2>3. step' \in [Admins -> Steps]  BY <1>8 DEF ApplyConfig, Steps
  <2>4. form' \in [Admins -> SUBSET Documents]  BY <1>8, <2>1 DEF ApplyConfig
  <2> QED  BY <1>8, <2>1, <2>2, <2>3, <2>4 DEF ApplyConfig
<1>9. CASE HandEdit
  <2>1. disk' \in Documents  BY <1>9 DEF HandEdit, Documents
  <2>2. saves' \in 0..MaxSaves  BY <1>9, BoundsNat DEF HandEdit
  <2> QED  BY <1>9, <2>1, <2>2 DEF HandEdit
<1>10. CASE Restart
  <2>1. limit' \in Limits  BY <1>10 DEF Restart, Documents
  <2>2. step' \in [Admins -> Steps]  BY <1>10 DEF Restart, Steps
  <2> QED  BY <1>10, <2>1, <2>2 DEF Restart
<1> QED
  BY <1>1, <1>2, <1>4, <1>5, <1>6, <1>7, <1>8, <1>9, <1>10 DEF SettingsNext

-----------------------------------------------------------------------------
(* The parts of the invariant, action by action *)

Parts == OneSave /\ FormHeld /\ Written /\ InForce /\ Withdrawn

(* While one save is under way, no other page has one. *)
LEMMA Alone ==
  ASSUME SettingsInv, NEW a \in Admins, step[a] # "idle"
  PROVE  \A b \in Admins : b # a => step[b] = "idle"
BY DEF SettingsInv, OneSave

(* Giving a page the document. *)
LEMMA OpenFormParts ==
  ASSUME SettingsInv, NEW a \in Admins, OpenForm(a)
  PROVE  Parts'
<1> USE DEF SettingsInv
<1>1. \A b \in Admins : step'[b] = step[b] /\ step[b] = "idle"  BY DEF OpenForm, Locked, SettingsTypeOK
<1>2. OneSave' /\ FormHeld' /\ Written'  BY <1>1 DEF OneSave, FormHeld, Written
<1>3. InForce'  BY <1>1 DEF OpenForm, InForce
<1>4. Withdrawn'  BY DEF OpenForm, Withdrawn, KeysOn
<1> QED  BY <1>2, <1>3, <1>4 DEF Parts

(* The first half of a save. *)
LEMMA BeginParts ==
  ASSUME SettingsInv, NEW a \in Admins, NEW doc \in Documents, NEW by \in Services,
         BeginSave(a, doc, by)
  PROVE  Parts'
<1> USE DEF SettingsInv
<1>1. \A b \in Admins : step[b] = "idle" /\ step'[b] = IF b = a THEN "write" ELSE "idle"
  BY DEF BeginSave, Locked, SettingsTypeOK
<1>2. OneSave' /\ Written'  BY <1>1 DEF OneSave, Written
<1>3. FormHeld'  BY <1>1 DEF FormHeld, BeginSave, Current
<1>4. InForce'  BY <1>1 DEF BeginSave, InForce
<1>5. Withdrawn'  BY DEF BeginSave, Withdrawn, KeysOn
<1> QED  BY <1>2, <1>3, <1>4, <1>5 DEF Parts

(* The write: the document is the change. *)
LEMMA WriteParts ==
  ASSUME SettingsInv, NEW a \in Admins, Write(a)
  PROVE  Parts'
<1> USE DEF SettingsInv
<1>1. \A b \in Admins : step'[b] = IF b = a THEN "limits" ELSE "idle"
  BY Alone DEF Write, SettingsTypeOK
<1>2. OneSave' /\ FormHeld'  BY <1>1 DEF OneSave, FormHeld
<1>3. Written'  BY <1>1 DEF Written, Write
<1>4. InForce'  BY <1>1 DEF InForce
<1>5. Withdrawn'
  <2>1. KeysOn(disk)' = KeysOn(pending[a].doc)  BY SameKeys DEF Write, KeysOn
  <2>2. KeysOn(live)' = KeysOn(live)  BY DEF Write, KeysOn
  <2> QED  BY <2>1, <2>2 DEF Withdrawn, Write
<1> QED  BY <1>2, <1>3, <1>4, <1>5 DEF Parts

(* A write that fails: nothing was put in force. *)
LEMMA WriteFailsParts ==
  ASSUME SettingsInv, NEW a \in Admins, WriteFails(a)
  PROVE  Parts'
<1> USE DEF SettingsInv
<1>1. \A b \in Admins : step'[b] = "idle" /\ step[b] \in {"idle", "write"}
  BY Alone DEF WriteFails, SettingsTypeOK
<1>2. OneSave' /\ FormHeld' /\ Written'  BY <1>1 DEF OneSave, FormHeld, Written
<1>3. InForce'  BY <1>1 DEF WriteFails, InForce
<1>4. Withdrawn'  BY DEF WriteFails, Withdrawn, KeysOn
<1> QED  BY <1>2, <1>3, <1>4 DEF Parts

(* The pool gets its capacity, or is known to lag behind. *)
LEMMA ApplyLimitsParts ==
  ASSUME SettingsInv, NEW a \in Admins, ApplyLimits(a)
  PROVE  Parts'
<1> USE DEF SettingsInv
<1>1. \A b \in Admins : step'[b] = IF b = a THEN "config" ELSE "idle"
  BY Alone DEF ApplyLimits, SettingsTypeOK
<1>2. OneSave' /\ FormHeld' /\ InForce'  BY <1>1 DEF OneSave, FormHeld, InForce
<1>3. step[a] = "limits"  BY DEF ApplyLimits
<1>4. disk.keys = pending[a].doc.keys /\ (edited \/ disk = pending[a].doc)
  BY <1>3 DEF Written
<1>5. lagging' \/ limit' = pending[a].doc.limit  BY DEF ApplyLimits
<1>6. Written'  BY <1>1, <1>4, <1>5 DEF Written, ApplyLimits
<1>7. Withdrawn'  BY DEF ApplyLimits, Withdrawn, KeysOn
<1> QED  BY <1>2, <1>6, <1>7 DEF Parts

(* The change is in force, and what it withdrew is withdrawn. *)
LEMMA ApplyConfigParts ==
  ASSUME SettingsInv, NEW a \in Admins, ApplyConfig(a)
  PROVE  Parts'
<1> USE DEF SettingsInv
<1>1. \A b \in Admins : step'[b] = "idle"
  BY Alone DEF ApplyConfig, SettingsTypeOK
<1>2. OneSave' /\ FormHeld' /\ Written'  BY <1>1 DEF OneSave, FormHeld, Written
<1>3. step[a] = "config"  BY DEF ApplyConfig
<1>4. /\ disk.keys = pending[a].doc.keys
      /\ edited \/ disk = pending[a].doc
      /\ lagging \/ limit = pending[a].doc.limit
  BY <1>3 DEF Written
<1>5. InForce'  BY <1>4 DEF InForce, ApplyConfig
<1>6. Withdrawn'
  <2>1. KeysOn(disk) = KeysOn(pending[a].doc)  BY <1>4, SameKeys
  <2>2. KeysOn(disk)' = KeysOn(disk) /\ KeysOn(live)' = KeysOn(pending[a].doc)
    BY DEF ApplyConfig, KeysOn
  <2>3. revoked \intersect KeysOn(disk) = {}  BY DEF Withdrawn
  <2>4. revoked' = revoked \union (KeysOn(live) \ KeysOn(pending[a].doc))  BY DEF ApplyConfig
  <2> QED  BY <2>1, <2>2, <2>3, <2>4 DEF Withdrawn
<1> QED  BY <1>2, <1>5, <1>6 DEF Parts

(* An edit by hand leaves the keys as they are, and is marked. *)
LEMMA HandEditParts ==
  ASSUME SettingsInv, HandEdit
  PROVE  Parts'
<1> USE DEF SettingsInv
<1>1. step' = step /\ form' = form /\ pending' = pending /\ edited'  BY DEF HandEdit
<1>2. disk'.keys = disk.keys  BY DEF HandEdit, SettingsTypeOK, Documents
<1>3. OneSave' /\ FormHeld'  BY <1>1 DEF OneSave, FormHeld, HandEdit
<1>4. Written'  BY <1>1, <1>2 DEF Written, HandEdit
<1>5. InForce'  BY <1>1 DEF InForce, HandEdit
<1>6. Withdrawn'
  <2>1. KeysOn(disk)' = KeysOn(disk) /\ KeysOn(live)' = KeysOn(live)
    BY <1>2 DEF HandEdit, KeysOn
  <2> QED  BY <2>1 DEF Withdrawn, HandEdit
<1> QED  BY <1>3, <1>4, <1>5, <1>6 DEF Parts

(* A restart puts in force what the file says. *)
LEMMA RestartParts ==
  ASSUME SettingsInv, Restart
  PROVE  Parts'
<1> USE DEF SettingsInv
<1>1. \A b \in Admins : step'[b] = "idle"  BY DEF Restart
<1>2. OneSave' /\ FormHeld' /\ Written'  BY <1>1 DEF OneSave, FormHeld, Written
<1>3. InForce'  BY DEF Restart, InForce
<1>4. Withdrawn'
  <2>1. KeysOn(disk)' = KeysOn(disk) /\ KeysOn(live)' = KeysOn(disk)  BY DEF Restart, KeysOn
  <2> QED  BY <2>1 DEF Withdrawn, Restart
<1> QED  BY <1>2, <1>3, <1>4 DEF Parts

(* The invariant is inductive. *)
LEMMA StepInv ==
  ASSUME SettingsInv, [SettingsNext]_settingsVars
  PROVE  SettingsInv'
<1>1. SettingsTypeOK'  BY TypeStep DEF SettingsInv
<1>2. Parts'
  <2>1. CASE UNCHANGED settingsVars
    BY <2>1 DEF settingsVars, SettingsInv, Parts, OneSave, FormHeld, Written, InForce, Withdrawn, KeysOn
  <2>2. ASSUME NEW a \in Admins,
               SaveSettings(a) \/ CreateKey(a) \/ RotateKey(a) \/ EnableKey(a) \/ DeleteKey(a)
        PROVE  Parts'
    <3>1. \E doc \in Documents, by \in Services : BeginSave(a, doc, by)
      BY <2>2, Saving DEF SettingsInv
    <3> QED  BY <3>1, BeginParts
  <2> QED
    BY <2>1, <2>2, OpenFormParts, WriteParts, WriteFailsParts, ApplyLimitsParts,
       ApplyConfigParts, HandEditParts, RestartParts DEF SettingsNext
<1> QED  BY <1>1, <1>2 DEF SettingsInv, Parts

(* So the invariant holds for ever. *)
LEMMA Always == SettingsSpec => []SettingsInv
BY InitInv, StepInv, PTL DEF SettingsSpec

-----------------------------------------------------------------------------
(* The theorems *)

(* The document, the configuration in force, the forms and the saves of     *)
(* _settings have their types, whatever is saved or edited by hand.         *)
THEOREM SettingsTypes == SettingsSpec => []SettingsTypeOK
BY Always, PTL DEF SettingsInv

(* update_config and mutate never overwrite a document their author has not *)
(* seen, but for an edit by hand while they write.                          *)
THEOREM NoSaveIsBlind == SettingsSpec => NoBlindOverwrite
<1>1. ASSUME SettingsInv, [SettingsNext]_settingsVars, NEW a \in Admins,
             step[a] = "write", step'[a] = "limits"
      PROVE  form[a] = {disk} \/ lost
  BY <1>1 DEF SettingsInv, FormHeld
<1>2. SettingsInv /\ [SettingsNext]_settingsVars =>
        [\A a \in Admins : step[a] = "write" /\ step'[a] = "limits"
           => form[a] = {disk} \/ lost]_settingsVars
  BY <1>1
<1> QED  BY <1>2, Always, PTL DEF SettingsSpec, NoBlindOverwrite

(* A key whose withdrawal was answered is refused from then on, through     *)
(* every restart, failed write and later save.                              *)
THEOREM WithdrawnKeysRefused == SettingsSpec => []RevokedRefused
<1>1. SettingsInv => RevokedRefused
  BY DEF SettingsInv, Withdrawn, RevokedRefused, Accepted
<1> QED  BY <1>1, Always, PTL

(* Between saves, what is in force is what the file says, except for an     *)
(* edit by hand and for a capacity that could not be put in force.          *)
THEOREM FileInForce == SettingsSpec => []LiveFollowsDisk
<1>1. SettingsInv => LiveFollowsDisk
  BY DEF SettingsInv, InForce, LiveFollowsDisk, Locked
<1> QED  BY <1>1, Always, PTL

-----------------------------------------------------------------------------
(* The login.  Types, and what the caps need: the tables are finite, and    *)
(* one login at a time is verified.                                         *)
LoginTypes ==
  /\ LoginTypeOK
  /\ IsFiniteSet(DOMAIN failures) /\ IsFiniteSet(DOMAIN sessions)
  /\ wrong \in [Clients -> Seq(Clock)]
  /\ checking = {} \/ \E k \in [client: Clients, right: BOOLEAN, at: Clock] : checking = {k}
  /\ checking # {} => logins # 0

(* What is counted against a client. *)
Count(c) == IF c \in DOMAIN failures THEN failures[c].attempts ELSE 0

(* The failures of a client follow each other, and the one that is being    *)
(* looked at, if it is one, will be the last.                               *)
Ordered ==
  \A c \in Clients :
    /\ \A i \in DOMAIN wrong[c] : wrong[c][i] <= now
    /\ \A i, j \in DOMAIN wrong[c] : i <= j => wrong[c][i] <= wrong[c][j]
    /\ \A k \in checking : k.client = c =>
         k.at <= now /\ \A i \in DOMAIN wrong[c] : wrong[c][i] <= k.at

(* What counts are the last of them, and the time of the very last is kept. *)
Counted ==
  /\ \A c \in Clients : Count(c) <= Len(wrong[c])
  /\ \A c \in DOMAIN failures : failures[c].attempts # 0 =>
       failures[c].last = wrong[c][Len(wrong[c])]

(* Those before them are LOCK_SECONDS old, and were when the first of those *)
(* that count was made.                                                     *)
Aged ==
  \A c \in Clients : \A i \in 1..(Len(wrong[c]) - Count(c)) :
    /\ wrong[c][i] + LockTime <= now
    /\ \A j \in DOMAIN wrong[c] :
         j > Len(wrong[c]) - Count(c) => wrong[c][i] + LockTime <= wrong[c][j]
    /\ \A k \in checking : k.client = c => wrong[c][i] + LockTime <= k.at

(* Who has used up the attempts is locked out, from the last one on; who is *)
(* looked at has some left.                                                 *)
Exhausted ==
  /\ \A c \in DOMAIN failures :
       /\ failures[c].until # 0 <=> failures[c].attempts = MaxFailures
       /\ failures[c].until # 0 => failures[c].until = failures[c].last + LockTime
  /\ \A k \in checking :
       k.client \in DOMAIN failures /\ failures[k.client].attempts < MaxFailures

(* As many attempts as there are take LOCK_SECONDS at least. *)
Spaced ==
  \A c \in Clients : \A i \in DOMAIN wrong[c] :
    i + MaxFailures \in DOMAIN wrong[c] =>
      wrong[c][i] + LockTime <= wrong[c][i + MaxFailures]

LockoutInv == Ordered /\ Counted /\ Aged /\ Exhausted /\ Spaced

(* No token is older than the login it is from, and no two browsers hold    *)
(* the same.                                                                *)
TokenInv ==
  /\ \A s \in DOMAIN sessions : s <= logins /\ (checking # {} => s < logins)
  /\ \A c \in Clients :
       /\ cookie[c] <= logins /\ fresh[c] <= logins
       /\ checking # {} => cookie[c] < logins /\ fresh[c] < logins
  /\ \A c, d \in Clients :
       /\ cookie[c] # 0 => cookie[c] # fresh[d]
       /\ cookie[c] # 0 /\ cookie[c] = cookie[d] => c = d
       /\ fresh[c] # 0 /\ fresh[c] = fresh[d] => c = d

(* No failure of the client counts any more. *)
Quiet(c) == \A i \in DOMAIN wrong[c] : wrong[c][i] + LockTime <= now

(* A set of numbers that is not empty has a least member. *)
LEMMA LeastNumber ==
  ASSUME NEW T, T \subseteq Nat, T # {}
  PROVE  \E x \in T : \A y \in T : x <= y
<1>1. PICK x \in T : \A y \in T : ~(<<y, x>> \in OpToRel(<, Nat))
  BY WFMin, NatLessThanWellFounded
<1>2. \A y \in T : ~(y < x)  BY <1>1 DEF OpToRel
<1> QED  BY <1>2

(* Restricting a table to some of its rows keeps those rows as they are. *)
LEMMA RestrictRows ==
  ASSUME NEW f, NEW S
  PROVE  /\ DOMAIN Restrict(f, S) = S
         /\ \A x \in S : Restrict(f, S)[x] = f[x]
BY DEF Restrict

-----------------------------------------------------------------------------
(* The failures of a client *)

(* Looking a client up leaves the rows as they are, or drops those whose    *)
(* last failure is LOCK_SECONDS ago.                                        *)
LEMMA TrackedRows ==
  ASSUME LoginTypes, NEW c \in Clients
  PROVE  /\ DOMAIN Tracked(c) \subseteq DOMAIN failures
         /\ \A d \in DOMAIN Tracked(c) : Tracked(c)[d] = failures[d]
         /\ \A d \in DOMAIN failures \ DOMAIN Tracked(c) :
              d # c /\ now - failures[d].last >= LockTime
         /\ c \in DOMAIN failures => c \in DOMAIN Tracked(c)
         /\ IsFiniteSet(DOMAIN Tracked(c))
         /\ Cardinality(DOMAIN Tracked(c)) <= MaxTracked
<1> DEFINE D == {d \in DOMAIN failures : now - failures[d].last < LockTime}
<1>0. LockTime \in Nat /\ MaxTracked \in Nat  BY LimitsPositive
<1>1. IsFiniteSet(DOMAIN failures) /\ Cardinality(DOMAIN failures) <= MaxTracked
  BY DEF LoginTypes, LoginTypeOK
<1>2. Cardinality(DOMAIN failures) \in Nat  BY <1>1, FS_CardinalityType
<1>3. CASE c \in DOMAIN failures \/ Cardinality(DOMAIN failures) < MaxTracked
  BY <1>1, <1>3 DEF Tracked
<1>4. CASE ~(c \in DOMAIN failures \/ Cardinality(DOMAIN failures) < MaxTracked)
  <2>1. Tracked(c) = Restrict(failures, D)  BY <1>4 DEF Tracked
  <2>2. DOMAIN Tracked(c) = D /\ \A d \in D : Tracked(c)[d] = failures[d]
    BY <2>1, RestrictRows
  <2>3. D \in SUBSET DOMAIN failures  OBVIOUS
  <2>4. IsFiniteSet(D) /\ Cardinality(D) <= Cardinality(DOMAIN failures)
    BY <2>3, <1>1, FS_Subset
  <2>5. Cardinality(D) \in Nat  BY <2>4, FS_CardinalityType
  <2>6. Cardinality(D) <= MaxTracked  BY <2>4, <2>5, <1>0, <1>1, <1>2
  <2>7. \A d \in DOMAIN failures \ D : now - failures[d].last >= LockTime
    <3> SUFFICES ASSUME NEW d \in DOMAIN failures, ~(now - failures[d].last < LockTime)
                 PROVE  now - failures[d].last >= LockTime
      OBVIOUS
    <3>1. now \in Nat /\ failures[d].last \in Nat
      BY DEF LoginTypes, LoginTypeOK, Failure, Clock
    <3> QED  BY <3>1, <1>0
  <2> HIDE DEF D
  <2> QED  BY <2>2, <2>3, <2>4, <2>6, <2>7, <1>4
<1> QED  BY <1>3, <1>4

(* Renewing a row keeps its type and its last failure, and leaves it as it  *)
(* is or with nothing that counts.                                          *)
LEMMA RenewedRow ==
  ASSUME NEW f \in Failure
  PROVE  /\ Renewed(f) \in Failure /\ Renewed(f).last = f.last
         /\ \/ Renewed(f) = f
            \/ /\ Renewed(f).attempts = 0
               /\ \/ f.until # 0 /\ f.until <= now /\ Renewed(f).until = 0
                  \/ /\ f.attempts # 0 /\ now - f.last >= LockTime
                     /\ Renewed(f).until = f.until
                     /\ ~(f.until # 0 /\ f.until <= now)
         /\ ~(Renewed(f).until # 0 /\ Renewed(f).until <= now)
<1>0. MaxFailures \in Nat /\ LockTime \in Nat /\ MaxClock \in Nat  BY LimitsPositive, LoginBounds
<1>1. f = [attempts |-> f.attempts, until |-> f.until, last |-> f.last]
      /\ f.attempts \in 0..MaxFailures /\ f.until \in 0..(MaxClock + LockTime) /\ f.last \in Clock
  BY DEF Failure
<1>2. CASE f.until # 0 /\ f.until <= now
  <2>1. Renewed(f) = [attempts |-> 0, until |-> 0, last |-> f.last]
    BY <1>1, <1>2 DEF Renewed
  <2> QED  BY <2>1, <1>1, <1>2, <1>0 DEF Failure
<1>3. CASE ~(f.until # 0 /\ f.until <= now) /\ f.attempts # 0 /\ now - f.last >= LockTime
  <2>1. Renewed(f) = [attempts |-> 0, until |-> f.until, last |-> f.last]
    BY <1>1, <1>3 DEF Renewed
  <2> QED  BY <2>1, <1>1, <1>3, <1>0 DEF Failure
<1>4. CASE ~(f.until # 0 /\ f.until <= now) /\ ~(f.attempts # 0 /\ now - f.last >= LockTime)
  <2>1. Renewed(f) = f  BY <1>4 DEF Renewed
  <2> QED  BY <2>1, <1>4
<1> QED  BY <1>2, <1>3, <1>4

(* Failures that are LOCK_SECONDS old, the last one included, no longer     *)
(* count.                                                                   *)
LEMMA OldIsQuiet ==
  ASSUME LoginTypes, LockoutInv, NEW d \in DOMAIN failures,
         \/ failures[d].attempts = 0
         \/ now - failures[d].last >= LockTime
         \/ failures[d].until # 0 /\ failures[d].until <= now
  PROVE  Quiet(d)
<1>0. LockTime \in Nat /\ MaxFailures \in Nat \ {0}  BY LimitsPositive
<1>1. d \in Clients /\ failures[d] \in Failure /\ now \in Nat
  BY DEF LoginTypes, LoginTypeOK, Clock
<1>2. failures[d].attempts \in Nat /\ failures[d].last \in Nat /\ failures[d].until \in Nat
  BY <1>1 DEF Failure, Clock
<1>3. wrong[d] \in Seq(Clock)  BY <1>1 DEF LoginTypes
<1>4. Len(wrong[d]) \in Nat /\ DOMAIN wrong[d] = 1..Len(wrong[d])
      /\ \A i \in DOMAIN wrong[d] : wrong[d][i] \in Nat
  <2>1. DOMAIN wrong[d] = 1..Len(wrong[d]) /\ Len(wrong[d]) \in Nat  BY <1>3
  <2>2. \A i \in 1..Len(wrong[d]) : wrong[d][i] \in Clock  BY <1>3, <2>1
  <2> QED  BY <2>1, <2>2 DEF Clock
<1>5. Count(d) = failures[d].attempts  BY DEF Count
<1>6. CASE failures[d].attempts = 0
  BY <1>1, <1>4, <1>5, <1>6 DEF LockoutInv, Aged, Quiet
<1>7. CASE failures[d].attempts # 0
  <2>1. now - failures[d].last >= LockTime
    BY <1>7, <1>0, <1>1, <1>2 DEF LockoutInv, Exhausted
  <2>2. failures[d].last = wrong[d][Len(wrong[d])]  BY <1>7 DEF LockoutInv, Counted
  <2>3. Count(d) <= Len(wrong[d])  BY <1>1 DEF LockoutInv, Counted
  <2>4. Len(wrong[d]) \in DOMAIN wrong[d]  BY <2>3, <1>7, <1>5, <1>2, <1>4
  <2>5. \A i \in DOMAIN wrong[d] : wrong[d][i] <= wrong[d][Len(wrong[d])]
    <3> TAKE i \in DOMAIN wrong[d]
    <3>1. i <= Len(wrong[d])  BY <1>4
    <3> QED  BY <3>1, <2>4, <1>1 DEF LockoutInv, Ordered
  <2>6. \A i \in DOMAIN wrong[d] : wrong[d][i] + LockTime <= now
    BY <2>1, <2>2, <2>4, <2>5, <1>0, <1>1, <1>2, <1>4
  <2> QED  BY <2>6 DEF Quiet
<1> QED  BY <1>6, <1>7

(* What is found of a client is a failure, and no lock of it has ended.     *)
LEMMA ActiveRow ==
  ASSUME LoginTypes, NEW c \in Clients
  PROVE  /\ Active(c) \in Failure
         /\ ~(Active(c).until # 0 /\ Active(c).until <= now)
<1> DEFINE f == IF c \in DOMAIN Tracked(c) THEN Tracked(c)[c] ELSE NoFailure
<1>1. NoFailure \in Failure
  BY LimitsPositive, LoginBounds DEF NoFailure, Failure, Clock
<1>2. \A d \in DOMAIN Tracked(c) : Tracked(c)[d] \in Failure
  BY TrackedRows DEF LoginTypes, LoginTypeOK
<1>3. f \in Failure  BY <1>1, <1>2
<1>4. Active(c) = Renewed(f)  BY DEF Active
<1> HIDE DEF f
<1> QED  BY <1>3, <1>4, RenewedRow

(* What an attempt does to the failures, whether it is looked at or not:    *)
(* the rows stay, are cleared or go, and only those that are quiet do.      *)
LEMMA Attended ==
  ASSUME LoginTypes, LockoutInv, NEW c \in Clients,
         \/ Full(c) /\ failures' = Tracked(c)
         \/ ~ Full(c) /\ failures' = With(c, Active(c))
  PROVE  /\ \A d \in DOMAIN failures' : failures'[d] \in Failure
         /\ DOMAIN failures' \subseteq Clients
         /\ IsFiniteSet(DOMAIN failures') /\ Cardinality(DOMAIN failures') <= MaxTracked
         /\ \A d \in DOMAIN failures' :
              \/ d \in DOMAIN failures /\ failures'[d] = failures[d]
              \/ failures'[d].attempts = 0 /\ failures'[d].until = 0 /\ Quiet(d)
         /\ \A d \in DOMAIN failures \ DOMAIN failures' : Quiet(d)
<1> DEFINE T == Tracked(c)
<1>0. /\ LockTime \in Nat /\ MaxFailures \in Nat \ {0} /\ MaxClock \in Nat
      /\ MaxTracked \in Nat
  BY LimitsPositive, LoginBounds
<1>1. /\ DOMAIN T \subseteq DOMAIN failures
      /\ \A d \in DOMAIN T : T[d] = failures[d]
      /\ \A d \in DOMAIN failures \ DOMAIN T : now - failures[d].last >= LockTime
      /\ c \in DOMAIN failures => c \in DOMAIN T
      /\ IsFiniteSet(DOMAIN T) /\ Cardinality(DOMAIN T) <= MaxTracked
  BY TrackedRows
<1>2. Cardinality(DOMAIN T) \in Nat  BY <1>1, FS_CardinalityType
<1>3. DOMAIN failures \subseteq Clients /\ \A d \in DOMAIN failures : failures[d] \in Failure
  BY DEF LoginTypes, LoginTypeOK
<1>4. \A d \in DOMAIN failures \ DOMAIN T : Quiet(d)
  BY <1>1, OldIsQuiet
<1>5. CASE Full(c) /\ failures' = T
  BY <1>1, <1>3, <1>4, <1>5
<1>6. CASE ~ Full(c) /\ failures' = With(c, Active(c))
  <2> DEFINE f == IF c \in DOMAIN T THEN T[c] ELSE NoFailure
  <2>1. f \in Failure
    BY <1>0, <1>1, <1>3 DEF NoFailure, Failure, Clock
  <2>2. Active(c) = Renewed(f)  BY DEF Active
  <2>3. /\ DOMAIN failures' = DOMAIN T \union {c} /\ failures'[c] = Renewed(f)
        /\ \A d \in DOMAIN T \ {c} : failures'[d] = failures[d]
    BY <1>6, <1>1, <2>2 DEF With
  <2>4. Renewed(f) \in Failure  BY <2>1, RenewedRow
  <2>5. \/ c \in DOMAIN failures /\ failures'[c] = failures[c]
        \/ failures'[c].attempts = 0 /\ failures'[c].until = 0 /\ Quiet(c)
    <3>1. CASE c \in DOMAIN failures
      <4>1. f = failures[c]  BY <3>1, <1>1
      <4>2. f.until # 0 => f.attempts = MaxFailures
                           /\ f.until = f.last + LockTime
        BY <3>1, <4>1 DEF LockoutInv, Exhausted
      <4>3. f.last \in Nat /\ now \in Nat /\ f.until \in Nat
        BY <2>1 DEF Failure, Clock, LoginTypes, LoginTypeOK
      <4>4. CASE Renewed(f) = f  BY <4>4, <4>1, <3>1, <2>3
      <4>5. CASE f.until # 0 /\ f.until <= now /\ Renewed(f).until = 0 /\ Renewed(f).attempts = 0
        <5>1. Quiet(c)  BY <4>5, <4>1, <3>1, OldIsQuiet
        <5> QED  BY <5>1, <4>5, <2>3
      <4>6. CASE /\ f.attempts # 0 /\ now - f.last >= LockTime
                 /\ Renewed(f).until = f.until /\ Renewed(f).attempts = 0
                 /\ ~(f.until # 0 /\ f.until <= now)
        <5>1. Quiet(c)  BY <4>6, <4>1, <3>1, OldIsQuiet
        <5>2. f.until = 0  BY <4>6, <4>2, <4>3, <1>0
        <5> QED  BY <5>1, <5>2, <4>6, <2>3
      <4> HIDE DEF f
      <4> QED  BY <4>4, <4>5, <4>6, <2>1, RenewedRow
    <3>2. CASE c \notin DOMAIN failures
      <4>1. f = NoFailure  BY <3>2, <1>1
      <4>2. Renewed(f) = NoFailure
        BY <4>1 DEF Renewed, NoFailure
      <4>3. Count(c) = 0  BY <3>2 DEF Count
      <4>4. wrong[c] \in Seq(Clock)  BY DEF LoginTypes
      <4>5. DOMAIN wrong[c] = 1..(Len(wrong[c]) - Count(c))  BY <4>3, <4>4
      <4>6. Quiet(c)  BY <4>5 DEF LockoutInv, Aged, Quiet
      <4> QED  BY <4>2, <4>6, <2>3 DEF NoFailure
    <3> QED  BY <3>1, <3>2
  <2>6. IsFiniteSet(DOMAIN failures') /\ Cardinality(DOMAIN failures') <= MaxTracked
    <3>1. IsFiniteSet(DOMAIN T \union {c})
          /\ Cardinality(DOMAIN T \union {c}) =
               IF c \in DOMAIN T THEN Cardinality(DOMAIN T) ELSE Cardinality(DOMAIN T) + 1
      BY <1>1, FS_AddElement
    <3>2. c \in DOMAIN T \/ ~(Cardinality(DOMAIN T) >= MaxTracked)
      BY <1>6 DEF Full
    <3> QED  BY <3>1, <3>2, <2>3, <1>0, <1>1, <1>2
  <2> HIDE DEF f
  <2>7. \A d \in DOMAIN failures' : failures'[d] \in Failure
    BY <2>3, <2>4, <1>1, <1>3
  <2>8. DOMAIN failures' \subseteq Clients  BY <2>3, <1>1, <1>3
  <2>9. \A d \in DOMAIN failures' :
          \/ d \in DOMAIN failures /\ failures'[d] = failures[d]
          \/ failures'[d].attempts = 0 /\ failures'[d].until = 0 /\ Quiet(d)
    BY <2>3, <2>5, <1>1
  <2>10. \A d \in DOMAIN failures \ DOMAIN failures' : Quiet(d)
    BY <2>3, <1>4
  <2> QED  BY <2>6, <2>7, <2>8, <2>9, <2>10
<1> QED  BY <1>5, <1>6

(* The failures of a client are numbers, and so is what is counted.         *)
LEMMA WrongNumbers ==
  ASSUME LoginTypes, NEW c \in Clients
  PROVE  /\ Len(wrong[c]) \in Nat /\ DOMAIN wrong[c] = 1..Len(wrong[c])
         /\ \A i \in DOMAIN wrong[c] : wrong[c][i] \in Nat
         /\ Count(c) \in 0..MaxFailures /\ now \in Nat
<1>1. wrong[c] \in Seq(Clock)  BY DEF LoginTypes
<1>2. DOMAIN wrong[c] = 1..Len(wrong[c]) /\ Len(wrong[c]) \in Nat  BY <1>1
<1>3. \A i \in 1..Len(wrong[c]) : wrong[c][i] \in Clock  BY <1>1, <1>2
<1>4. Count(c) \in 0..MaxFailures
  BY LimitsPositive DEF LoginTypes, LoginTypeOK, Count, Failure
<1>5. now \in Nat  BY DEF LoginTypes, LoginTypeOK, Clock
<1> QED  BY <1>2, <1>3, <1>4, <1>5 DEF Clock

(* An attempt that clears only what is quiet keeps the order of failures.   *)
LEMMA AttendKeeps ==
  ASSUME LoginTypes, LockoutInv, now' = now, wrong' = wrong, checking = {},
         \A d \in DOMAIN failures' : failures'[d] \in Failure,
         DOMAIN failures' \subseteq Clients,
         \A d \in DOMAIN failures' :
           \/ d \in DOMAIN failures /\ failures'[d] = failures[d]
           \/ failures'[d].attempts = 0 /\ failures'[d].until = 0 /\ Quiet(d),
         \A d \in DOMAIN failures \ DOMAIN failures' : Quiet(d),
         \A k \in checking' : /\ k.at = now /\ k.client \in DOMAIN failures'
                              /\ failures'[k.client].attempts < MaxFailures
  PROVE  LockoutInv'
<1>0. LockTime \in Nat /\ MaxFailures \in Nat \ {0}  BY LimitsPositive
<1>1. ASSUME NEW c \in Clients
      PROVE  Count(c)' = Count(c) \/ (Count(c)' = 0 /\ Quiet(c))
  <2>1. CASE c \in DOMAIN failures'  BY <2>1 DEF Count
  <2>2. CASE c \notin DOMAIN failures'  BY <2>2 DEF Count
  <2> QED  BY <2>1, <2>2
<1>2. Ordered'
  <2>1. now \in Nat  BY DEF LoginTypes, LoginTypeOK, Clock
  <2>2. \A c \in Clients : \A i \in DOMAIN wrong[c] : wrong[c][i] <= now
    BY DEF LockoutInv, Ordered
  <2>3. \A k \in checking' : k.at <= now  BY <2>1
  <2>4. \A c \in Clients : \A i, j \in DOMAIN wrong[c] : i <= j => wrong[c][i] <= wrong[c][j]
    BY DEF LockoutInv, Ordered
  <2> QED  BY <2>2, <2>3, <2>4 DEF Ordered
<1>3. Counted'
  <2>1. \A c \in Clients : Count(c)' <= Len(wrong[c])
    BY <1>1, WrongNumbers DEF LockoutInv, Counted
  <2>2. ASSUME NEW c \in DOMAIN failures', failures'[c].attempts # 0
        PROVE  failures'[c].last = wrong[c][Len(wrong[c])]
    BY <2>2 DEF LockoutInv, Counted
  <2> QED  BY <2>1, <2>2 DEF Counted
<1>4. Aged'
  <2> SUFFICES ASSUME NEW c \in Clients, NEW i \in 1..(Len(wrong[c]) - Count(c)')
               PROVE  /\ wrong[c][i] + LockTime <= now
                      /\ \A j \in DOMAIN wrong[c] :
                           j > Len(wrong[c]) - Count(c)' => wrong[c][i] + LockTime <= wrong[c][j]
                      /\ \A k \in checking' : k.client = c => wrong[c][i] + LockTime <= k.at
    BY DEF Aged
  <2>1. /\ Len(wrong[c]) \in Nat /\ DOMAIN wrong[c] = 1..Len(wrong[c])
        /\ Count(c) \in Nat
    BY WrongNumbers, <1>0
  <2>2. CASE Count(c)' = Count(c)
    BY <2>2 DEF LockoutInv, Aged
  <2>3. CASE Count(c)' = 0 /\ Quiet(c)
    <3>1. i \in DOMAIN wrong[c]  BY <2>1, <2>3
    <3>2. \A j \in DOMAIN wrong[c] : ~(j > Len(wrong[c]) - Count(c)')  BY <2>1, <2>3
    <3> QED  BY <3>1, <3>2, <2>3 DEF Quiet
  <2> QED  BY <1>1, <2>2, <2>3
<1>5. Exhausted'
  <2>1. ASSUME NEW c \in DOMAIN failures'
        PROVE  /\ failures'[c].until # 0 <=> failures'[c].attempts = MaxFailures
               /\ failures'[c].until # 0 => failures'[c].until = failures'[c].last + LockTime
    BY <1>0 DEF LockoutInv, Exhausted
  <2> QED  BY <2>1 DEF Exhausted
<1>6. Spaced'
  BY DEF LockoutInv, Spaced
<1> QED  BY <1>2, <1>3, <1>4, <1>5, <1>6 DEF LockoutInv

(* Whatever leaves the failures alone keeps their order: time only passes.  *)
LEMMA TimeKeeps ==
  ASSUME LoginTypes, LockoutInv, now' \in Nat, now <= now', wrong' = wrong,
         failures' = failures, checking' = checking
  PROVE  LockoutInv'
<1>0. LockTime \in Nat  BY LimitsPositive
<1>1. \A c \in Clients : Count(c)' = Count(c)  BY DEF Count
<1>2. Ordered'
  <2> SUFFICES ASSUME NEW c \in Clients
               PROVE  /\ \A i \in DOMAIN wrong[c] : wrong[c][i] <= now'
                      /\ \A k \in checking : k.client = c => k.at <= now'
    BY DEF LockoutInv, Ordered
  <2>1. now \in Nat /\ \A i \in DOMAIN wrong[c] : wrong[c][i] \in Nat  BY WrongNumbers
  <2>2. \A k \in checking : k.at \in Nat
    BY DEF LoginTypes, LoginTypeOK, Clock
  <2> QED  BY <2>1, <2>2 DEF LockoutInv, Ordered
<1>3. Counted'  BY <1>1 DEF LockoutInv, Counted
<1>4. Aged'
  <2> SUFFICES ASSUME NEW c \in Clients, NEW i \in 1..(Len(wrong[c]) - Count(c))
               PROVE  wrong[c][i] + LockTime <= now'
    BY <1>1 DEF LockoutInv, Aged
  <2>1. /\ Len(wrong[c]) \in Nat /\ DOMAIN wrong[c] = 1..Len(wrong[c])
        /\ Count(c) \in Nat /\ now \in Nat
        /\ \A j \in DOMAIN wrong[c] : wrong[c][j] \in Nat
    BY WrongNumbers, <1>0
  <2>2. i \in DOMAIN wrong[c]  BY <2>1
  <2>3. wrong[c][i] + LockTime <= now  BY DEF LockoutInv, Aged
  <2> QED  BY <2>1, <2>2, <2>3, <1>0
<1>5. Exhausted'  BY DEF LockoutInv, Exhausted
<1>6. Spaced'  BY DEF LockoutInv, Spaced
<1> QED  BY <1>2, <1>3, <1>4, <1>5, <1>6 DEF LockoutInv

(* A failure joins those of its client. *)
LEMMA MismatchKeeps ==
  ASSUME LoginTypes, LockoutInv, NEW c \in Clients, Mismatch(c)
  PROVE  LockoutInv'
<1>0. LockTime \in Nat \ {0} /\ MaxFailures \in Nat \ {0}  BY LimitsPositive
<1>1. PICK k \in checking :
        /\ k.client = c /\ ~ k.right
        /\ LET n == failures[c].attempts + 1 IN
           failures' = [failures EXCEPT ![c] =
             [attempts |-> n, last |-> k.at,
              until |-> IF n >= MaxFailures THEN k.at + LockTime ELSE @.until]]
        /\ wrong' = [wrong EXCEPT ![c] = Append(@, k.at)]
        /\ checking' = {}
        /\ UNCHANGED <<now, cred, sessions, cookie, fresh, logins>>
  BY DEF Mismatch
<1> DEFINE W == wrong[c]
           n == failures[c].attempts + 1
<1>2. /\ Len(W) \in Nat /\ DOMAIN W = 1..Len(W) /\ \A i \in DOMAIN W : W[i] \in Nat
      /\ Count(c) \in 0..MaxFailures /\ now \in Nat
  BY WrongNumbers
<1>3. c \in DOMAIN failures /\ failures[c].attempts < MaxFailures /\ failures[c] \in Failure
  BY <1>1 DEF LockoutInv, Exhausted, LoginTypes, LoginTypeOK
<1>4. /\ failures[c].attempts \in Nat /\ failures[c].until \in Nat
      /\ Count(c) = failures[c].attempts
  BY <1>3 DEF Failure, Count
<1>5. k.at \in Nat /\ k.at <= now /\ \A i \in DOMAIN W : W[i] <= k.at
  BY <1>1, LoginBounds DEF LoginTypes, LoginTypeOK, Clock, LockoutInv, Ordered
<1>6. failures[c].until = 0
  BY <1>3, <1>0 DEF LockoutInv, Exhausted
<1>7. /\ DOMAIN failures' = DOMAIN failures
      /\ \A d \in DOMAIN failures \ {c} : failures'[d] = failures[d]
      /\ failures'[c] = [attempts |-> n, last |-> k.at,
                         until |-> IF n >= MaxFailures THEN k.at + LockTime ELSE 0]
  BY <1>1, <1>3, <1>6
<1>8. wrong' = [wrong EXCEPT ![c] = Append(W, k.at)]  BY <1>1
<1>9. wrong \in [Clients -> Seq(Clock)]  BY DEF LoginTypes
<1>10. wrong'[c] = Append(W, k.at) /\ \A d \in Clients \ {c} : wrong'[d] = wrong[d]
  BY <1>8, <1>9
<1>11. W \in Seq(Nat)  BY <1>9, LoginBounds DEF Clock
<1>12. /\ Len(wrong'[c]) = Len(W) + 1 /\ DOMAIN wrong'[c] = 1..(Len(W) + 1)
       /\ wrong'[c][Len(W) + 1] = k.at
       /\ \A i \in 1..Len(W) : wrong'[c][i] = W[i]
  BY <1>10, <1>11, <1>5
<1>13. Count(c)' = n /\ n <= MaxFailures /\ n \in Nat \ {0}
  BY <1>7, <1>3, <1>4, <1>0 DEF Count
<1>14. \A d \in Clients \ {c} : Count(d)' = Count(d)  BY <1>7 DEF Count
<1>15. Len(W) >= Count(c)  BY DEF LockoutInv, Counted
<1>16. \A i \in 1..(Len(W) - Count(c)) :
         /\ W[i] + LockTime <= now /\ W[i] + LockTime <= k.at
         /\ \A j \in DOMAIN W : j > Len(W) - Count(c) => W[i] + LockTime <= W[j]
  BY <1>1 DEF LockoutInv, Aged
<1> HIDE DEF n, W
<1>17. Ordered'
  <2>1. \A i \in DOMAIN wrong'[c] : wrong'[c][i] <= now'
    BY <1>12, <1>2, <1>5, <1>1 DEF LockoutInv, Ordered
  <2>2. \A i, j \in DOMAIN wrong'[c] : i <= j => wrong'[c][i] <= wrong'[c][j]
    <3>1. \A i, j \in DOMAIN W : i <= j => W[i] <= W[j]
      BY DEF LockoutInv, Ordered, W
    <3> SUFFICES ASSUME NEW i \in 1..(Len(W) + 1), NEW j \in 1..(Len(W) + 1), i <= j
                 PROVE  wrong'[c][i] <= wrong'[c][j]
      BY <1>12
    <3>2. CASE j = Len(W) + 1
      <4>1. CASE i = j  BY <4>1, <3>2, <1>12, <1>5
      <4>2. CASE i # j
        <5>1. i \in 1..Len(W)  BY <4>2, <3>2, <1>2
        <5> QED  BY <5>1, <3>2, <1>12, <1>5, <1>2
      <4> QED  BY <4>1, <4>2
    <3>3. CASE j # Len(W) + 1
      <4>1. i \in 1..Len(W) /\ j \in 1..Len(W)  BY <3>3, <1>2
      <4> QED  BY <4>1, <3>1, <1>12, <1>2
    <3> QED  BY <3>2, <3>3
  <2> QED  BY <2>1, <2>2, <1>1, <1>10 DEF LockoutInv, Ordered
<1>18. Counted'
  <2>1. \A d \in Clients : Count(d)' <= Len(wrong'[d])
    BY <1>10, <1>12, <1>13, <1>14, <1>15, <1>2, <1>4 DEF LockoutInv, Counted, n
  <2>2. ASSUME NEW d \in DOMAIN failures', failures'[d].attempts # 0
        PROVE  failures'[d].last = wrong'[d][Len(wrong'[d])]
    <3>1. CASE d = c  BY <3>1, <1>7, <1>12
    <3>2. CASE d # c
      <4>1. d \in Clients  BY <1>7, <2>2 DEF LoginTypes, LoginTypeOK
      <4> QED  BY <3>2, <4>1, <2>2, <1>7, <1>10 DEF LockoutInv, Counted
    <3> QED  BY <3>1, <3>2
  <2> QED  BY <2>1, <2>2 DEF Counted
<1>19. Len(wrong'[c]) - Count(c)' = Len(W) - Count(c)
  <2>1. Count(c)' = Count(c) + 1 /\ Count(c) \in Nat  BY <1>13, <1>4 DEF n
  <2>2. Len(wrong'[c]) = Len(W) + 1 /\ Len(W) \in Nat  BY <1>12, <1>2
  <2> QED  BY <2>1, <2>2
<1>20. Aged'
  <2> SUFFICES ASSUME NEW d \in Clients, NEW i \in 1..(Len(wrong'[d]) - Count(d)')
               PROVE  /\ wrong'[d][i] + LockTime <= now'
                      /\ \A j \in DOMAIN wrong'[d] : j > Len(wrong'[d]) - Count(d)' =>
                           wrong'[d][i] + LockTime <= wrong'[d][j]
    BY <1>1 DEF Aged
  <2>1. CASE d = c
    <3>1. i \in 1..(Len(W) - Count(c)) /\ i \in 1..Len(W)  BY <2>1, <1>19, <1>2, <1>15
    <3>2. wrong'[c][i] = W[i]  BY <3>1, <1>12
    <3>3. ASSUME NEW j \in 1..(Len(W) + 1), j > Len(W) - Count(c)
          PROVE  W[i] + LockTime <= wrong'[c][j]
      <4>1. CASE j = Len(W) + 1  BY <4>1, <3>1, <1>12, <1>16
      <4>2. CASE j # Len(W) + 1
        <5>1. j \in 1..Len(W)  BY <4>2, <1>2
        <5> QED  BY <5>1, <3>1, <3>3, <1>12, <1>16, <1>2
      <4> QED  BY <4>1, <4>2
    <3> QED  BY <2>1, <3>1, <3>2, <3>3, <1>1, <1>12, <1>16, <1>19
  <2>2. CASE d # c
    BY <2>2, <1>1, <1>10, <1>14 DEF LockoutInv, Aged
  <2> QED  BY <2>1, <2>2
<1>21. Exhausted'
  <2>1. ASSUME NEW d \in DOMAIN failures'
        PROVE  /\ failures'[d].until # 0 <=> failures'[d].attempts = MaxFailures
               /\ failures'[d].until # 0 => failures'[d].until = failures'[d].last + LockTime
    <3>1. CASE d = c  BY <3>1, <1>7, <1>13, <1>0, <1>5
    <3>2. CASE d # c  BY <3>2, <1>7 DEF LockoutInv, Exhausted
    <3> QED  BY <3>1, <3>2
  <2> QED  BY <2>1, <1>1 DEF Exhausted
<1>22. Spaced'
  <2> SUFFICES ASSUME NEW d \in Clients, NEW i \in DOMAIN wrong'[d],
                      i + MaxFailures \in DOMAIN wrong'[d]
               PROVE  wrong'[d][i] + LockTime <= wrong'[d][i + MaxFailures]
    BY DEF Spaced
  <2>1. CASE d # c  BY <2>1, <1>10 DEF LockoutInv, Spaced
  <2>2. CASE d = c /\ i + MaxFailures = Len(W) + 1
    <3>1. i \in 1..(Len(W) - Count(c)) /\ i \in 1..Len(W)
      BY <2>2, <1>12, <1>13, <1>4, <1>2, <1>0 DEF n
    <3> QED  BY <3>1, <2>2, <1>12, <1>16
  <2>3. CASE d = c /\ i + MaxFailures # Len(W) + 1
    <3>1. i \in 1..Len(W) /\ i + MaxFailures \in 1..Len(W)
      BY <2>3, <1>12, <1>2, <1>0
    <3>2. W[i] + LockTime <= W[i + MaxFailures]
      BY <3>1, <1>2 DEF LockoutInv, Spaced, W
    <3> QED  BY <3>1, <3>2, <2>3, <1>12
  <2> QED  BY <2>1, <2>2, <2>3
<1> QED  BY <1>17, <1>18, <1>20, <1>21, <1>22 DEF LockoutInv

(* A client of whom nothing is kept has nothing against it.                 *)
LEMMA ForgottenKeeps ==
  ASSUME LoginTypes, LockoutInv, NEW D, D \subseteq Clients, now' = now, checking' = {},
         wrong' = [d \in Clients |-> IF d \in D THEN <<>> ELSE wrong[d]],
         DOMAIN failures' = DOMAIN failures \ D,
         \A d \in DOMAIN failures' : failures'[d] = failures[d]
  PROVE  LockoutInv'
<1>1. \A d \in D : wrong'[d] = <<>> /\ Count(d)' = 0  BY DEF Count
<1>2. \A d \in Clients \ D : wrong'[d] = wrong[d] /\ Count(d)' = Count(d)
  BY DEF Count
<1>3. \A d \in D : Len(wrong'[d]) = 0 /\ DOMAIN wrong'[d] = {}  BY <1>1
<1>4. Ordered'  BY <1>2, <1>3 DEF LockoutInv, Ordered
<1>5. Counted'
  <2>1. \A d \in Clients : Count(d)' <= Len(wrong'[d])
    BY <1>1, <1>2, <1>3 DEF LockoutInv, Counted
  <2>2. \A d \in DOMAIN failures' : d \in Clients \ D
    BY DEF LoginTypes, LoginTypeOK
  <2> QED  BY <2>1, <2>2, <1>2 DEF LockoutInv, Counted
<1>6. Aged'
  <2> SUFFICES ASSUME NEW d \in Clients, NEW i \in 1..(Len(wrong'[d]) - Count(d)')
               PROVE  /\ wrong'[d][i] + LockTime <= now'
                      /\ \A j \in DOMAIN wrong'[d] : j > Len(wrong'[d]) - Count(d)' =>
                           wrong'[d][i] + LockTime <= wrong'[d][j]
    BY DEF Aged
  <2>1. d \notin D  BY <1>1, <1>3
  <2> QED  BY <2>1, <1>2 DEF LockoutInv, Aged
<1>7. Exhausted'  BY DEF LockoutInv, Exhausted
<1>8. Spaced'  BY <1>2, <1>3 DEF LockoutInv, Spaced
<1> QED  BY <1>4, <1>5, <1>6, <1>7, <1>8 DEF LockoutInv

(* Every step keeps the order of failures. *)
LEMMA LockoutStep ==
  ASSUME LoginTypes, LockoutInv, [LoginNext]_loginVars
  PROVE  LockoutInv'
<1>0. now \in Nat /\ now + 1 \in Nat  BY DEF LoginTypes, LoginTypeOK, Clock
<1>1. ASSUME NEW c \in Clients, Refuse(c) PROVE LockoutInv'
  <2>1. \/ Full(c) /\ failures' = Tracked(c)
        \/ ~ Full(c) /\ failures' = With(c, Active(c))
    BY <1>1 DEF Refuse
  <2>2. checking = {} /\ checking' = {} /\ now' = now /\ wrong' = wrong  BY <1>1 DEF Refuse
  <2> QED  BY <2>1, <2>2, Attended, AttendKeeps
<1>2. ASSUME NEW c \in Clients, NEW p \in Passwords, Attempt(c, p) PROVE LockoutInv'
  <2>1. ~ Full(c) /\ failures' = With(c, Active(c)) /\ ~(Active(c).until > now)
    BY <1>2 DEF Attempt, Refused
  <2>2. /\ checking = {} /\ now' = now /\ wrong' = wrong
        /\ checking' = {[client |-> c, right |-> p = cred, at |-> now]}
    BY <1>2 DEF Attempt
  <2>3. c \in DOMAIN failures' /\ failures'[c] = Active(c)  BY <2>1 DEF With
  <2>4. failures'[c].attempts < MaxFailures
    <3>1. \A d \in DOMAIN failures' :
            /\ failures'[d] \in Failure
            /\ \/ d \in DOMAIN failures /\ failures'[d] = failures[d]
               \/ failures'[d].attempts = 0 /\ failures'[d].until = 0 /\ Quiet(d)
      BY <2>1, Attended
    <3>2. Active(c).until \in Nat /\ ~(Active(c).until # 0 /\ Active(c).until <= now)
      BY ActiveRow, LimitsPositive, LoginBounds DEF Failure
    <3>5. failures'[c].until = 0  BY <3>2, <1>0, <2>1, <2>3
    <3>6. failures'[c].attempts \in 0..MaxFailures /\ MaxFailures \in Nat \ {0}
      BY <3>1, <2>3, LimitsPositive DEF Failure
    <3>7. failures'[c].attempts # MaxFailures
      BY <3>1, <2>3, <3>5, <3>6 DEF LockoutInv, Exhausted
    <3> QED  BY <3>6, <3>7
  <2>5. \A k \in checking' : /\ k.at = now /\ k.client \in DOMAIN failures'
                             /\ failures'[k.client].attempts < MaxFailures
    BY <2>2, <2>3, <2>4
  <2> QED  BY <2>1, <2>2, <2>5, Attended, AttendKeeps
<1>3. ASSUME NEW c \in Clients, Mismatch(c) PROVE LockoutInv'  BY <1>3, MismatchKeeps
<1>4. ASSUME NEW c \in Clients, Match(c) PROVE LockoutInv'
  <2>1. /\ failures' = Restrict(failures, DOMAIN failures \ {c})
        /\ wrong' = [wrong EXCEPT ![c] = <<>>] /\ checking' = {} /\ now' = now
    BY <1>4 DEF Match
  <2>2. wrong' = [d \in Clients |-> IF d \in {c} THEN <<>> ELSE wrong[d]]
    BY <2>1 DEF LoginTypes
  <2>3. /\ DOMAIN failures' = DOMAIN failures \ {c}
        /\ \A d \in DOMAIN failures' : failures'[d] = failures[d]
    BY <2>1, RestrictRows
  <2> QED  BY <2>1, <2>2, <2>3, ForgottenKeeps
<1>5. ASSUME Reboot PROVE LockoutInv'
  <2>1. DOMAIN failures' = {}  BY <1>5 DEF Reboot
  <2>2. DOMAIN failures' = DOMAIN failures \ Clients
    BY <2>1 DEF LoginTypes, LoginTypeOK
  <2>3. wrong' = [d \in Clients |-> IF d \in Clients THEN <<>> ELSE wrong[d]]
    BY <1>5 DEF Reboot
  <2> QED  BY <1>5, <2>1, <2>2, <2>3, ForgottenKeeps DEF Reboot
<1>6. ASSUME Tick PROVE LockoutInv'
  BY <1>6, <1>0, TimeKeeps DEF Tick
<1>7. ASSUME UNCHANGED <<now, failures, wrong, checking>> PROVE LockoutInv'
  BY <1>7, <1>0, TimeKeeps
<1> QED
  BY <1>1, <1>2, <1>3, <1>4, <1>5, <1>6, <1>7
  DEF LoginNext, Welcome, Logout, Validate, ReplaceCredentials, loginVars

-----------------------------------------------------------------------------
(* The sessions *)

(* The oldest of the sessions goes, and it is one of them. *)
LEMMA RoomRows ==
  ASSUME LoginTypes, NEW t, NEW U, U = {s \in DOMAIN sessions : sessions[s].until > t}
  PROVE  /\ DOMAIN Unexpired(t) = U /\ \A s \in U : Unexpired(t)[s] = sessions[s]
         /\ IsFiniteSet(U) /\ Cardinality(U) <= MaxTracked
         /\ \A s \in DOMAIN Room(t) : s \in U /\ Room(t)[s] = sessions[s]
         /\ IsFiniteSet(DOMAIN Room(t)) /\ Cardinality(DOMAIN Room(t)) < MaxTracked
         /\ \A s \in U \ DOMAIN Room(t) :
              /\ \A r \in DOMAIN Room(t) : r > s
              /\ Cardinality(DOMAIN Room(t)) = MaxTracked - 1
<1>0. MaxTracked \in Nat \ {0}  BY LimitsPositive
<1>1. Unexpired(t) = Restrict(sessions, U)  BY DEF Unexpired
<1>2. DOMAIN Unexpired(t) = U /\ \A s \in U : Unexpired(t)[s] = sessions[s]
  BY <1>1, RestrictRows
<1>3. /\ IsFiniteSet(DOMAIN sessions) /\ Cardinality(DOMAIN sessions) <= MaxTracked
      /\ DOMAIN sessions \subseteq Tokens
  BY DEF LoginTypes, LoginTypeOK
<1>4. U \in SUBSET DOMAIN sessions  OBVIOUS
<1>5. IsFiniteSet(U) /\ Cardinality(U) <= Cardinality(DOMAIN sessions)
  BY <1>3, <1>4, FS_Subset
<1>6. Cardinality(U) \in Nat /\ Cardinality(DOMAIN sessions) \in Nat
  BY <1>3, <1>5, FS_CardinalityType
<1>7. Cardinality(U) <= MaxTracked  BY <1>3, <1>5, <1>6, <1>0
<1>8. U \subseteq Nat
  <2>1. Tokens \subseteq Nat  BY LoginBounds DEF Tokens
  <2> QED  BY <2>1, <1>3, <1>4
<1>9. CASE Cardinality(U) >= MaxTracked
  <2>1. U # {}
    <3>1. Cardinality(U) # 0  BY <1>9, <1>0, <1>6
    <3> QED  BY <3>1, FS_EmptySet
  <2>2. \E x \in U : \A y \in U : x <= y  BY <2>1, <1>8, LeastNumber
  <2>3. Min(U) \in U /\ \A y \in U : Min(U) <= y  BY <2>2 DEF Min
  <2>4. Room(t) = Restrict(sessions, U \ {Min(U)})  BY <1>2, <1>9 DEF Room
  <2>5. /\ DOMAIN Room(t) = U \ {Min(U)}
        /\ \A s \in DOMAIN Room(t) : Room(t)[s] = sessions[s]
    BY <2>4, RestrictRows
  <2>6. IsFiniteSet(U \ {Min(U)}) /\ Cardinality(U \ {Min(U)}) = Cardinality(U) - 1
    BY <2>3, <1>5, FS_RemoveElement
  <2>7. Cardinality(DOMAIN Room(t)) = MaxTracked - 1
    BY <2>5, <2>6, <1>6, <1>7, <1>9, <1>0
  <2>8. \A r \in U \ {Min(U)} : r > Min(U)
    <3>1. PICK m \in U : m = Min(U)  BY <2>3
    <3> QED  BY <3>1, <2>3, <1>8
  <2>9. Cardinality(DOMAIN Room(t)) < MaxTracked  BY <2>7, <1>0
  <2>10. \A s \in U \ DOMAIN Room(t) : s = Min(U)  BY <2>5
  <2>11. \A s \in DOMAIN Room(t) : s \in U /\ Room(t)[s] = sessions[s]  BY <2>5
  <2>12. \A s \in U \ DOMAIN Room(t) : \A r \in DOMAIN Room(t) : r > s
    BY <2>5, <2>8, <2>10
  <2>13. IsFiniteSet(DOMAIN Room(t))  BY <2>5, <2>6
  <2> QED  BY <2>7, <2>9, <2>11, <2>12, <2>13, <1>2, <1>5, <1>7
<1>10. CASE ~(Cardinality(U) >= MaxTracked)
  <2>1. Room(t) = Unexpired(t)  BY <1>2, <1>10 DEF Room
  <2> QED  BY <2>1, <1>10, <1>2, <1>5, <1>6, <1>7, <1>0
<1> QED  BY <1>9, <1>10

(* Types are kept, and with them the caps. *)
LEMMA LoginTypeStep ==
  ASSUME LoginTypes, LockoutInv, [LoginNext]_loginVars
  PROVE  LoginTypes'
<1>0. /\ MaxFailures \in Nat \ {0} /\ LockTime \in Nat \ {0} /\ SessionTime \in Nat \ {0}
      /\ MaxTracked \in Nat \ {0} /\ MaxClock \in Nat /\ MaxLogins \in Nat
  BY LimitsPositive, LoginBounds
<1>1. /\ now \in Clock /\ cred \in Passwords
      /\ DOMAIN failures \subseteq Clients
      /\ \A c \in DOMAIN failures : failures[c] \in Failure
      /\ Cardinality(DOMAIN failures) <= MaxTracked /\ IsFiniteSet(DOMAIN failures)
      /\ DOMAIN sessions \subseteq Tokens /\ IsFiniteSet(DOMAIN sessions)
      /\ \A s \in DOMAIN sessions : sessions[s] \in Session
      /\ Cardinality(DOMAIN sessions) <= MaxTracked
      /\ checking \subseteq [client: Clients, right: BOOLEAN, at: Clock]
      /\ Cardinality(checking) <= 1
      /\ cookie \in [Clients -> 0..MaxLogins] /\ fresh \in [Clients -> 0..MaxLogins]
      /\ logins \in 0..MaxLogins
      /\ wrong \in [Clients -> Seq(Clock)]
      /\ checking = {} \/ \E k \in [client: Clients, right: BOOLEAN, at: Clock] : checking = {k}
      /\ checking # {} => logins # 0
  BY DEF LoginTypes, LoginTypeOK
<1>2. Cardinality({}) = 0 /\ IsFiniteSet({}) /\ \A k : Cardinality({k}) = 1
  BY FS_EmptySet, FS_Singleton
(* Some sessions go, the others stay. *)
<1>3. ASSUME DOMAIN sessions' \subseteq DOMAIN sessions,
             \A s \in DOMAIN sessions' : sessions'[s] = sessions[s]
      PROVE  /\ DOMAIN sessions' \subseteq Tokens /\ IsFiniteSet(DOMAIN sessions')
             /\ \A s \in DOMAIN sessions' : sessions'[s] \in Session
             /\ Cardinality(DOMAIN sessions') <= MaxTracked
  <2>1. IsFiniteSet(DOMAIN sessions')
        /\ Cardinality(DOMAIN sessions') <= Cardinality(DOMAIN sessions)
    BY <1>1, <1>3, FS_Subset
  <2>2. Cardinality(DOMAIN sessions') \in Nat /\ Cardinality(DOMAIN sessions) \in Nat
    BY <1>1, <2>1, FS_CardinalityType
  <2> QED  BY <2>1, <2>2, <1>0, <1>1, <1>3
<1>4. ASSUME NEW c \in Clients, Refuse(c) PROVE LoginTypes'
  <2>1. \/ Full(c) /\ failures' = Tracked(c)
        \/ ~ Full(c) /\ failures' = With(c, Active(c))
    BY <1>4 DEF Refuse
  <2>2. /\ \A d \in DOMAIN failures' : failures'[d] \in Failure
        /\ DOMAIN failures' \subseteq Clients
        /\ IsFiniteSet(DOMAIN failures') /\ Cardinality(DOMAIN failures') <= MaxTracked
    BY <2>1, Attended
  <2> QED  BY <2>2, <1>1, <1>4 DEF Refuse, LoginTypes, LoginTypeOK
<1>5. ASSUME NEW c \in Clients, NEW p \in Passwords, Attempt(c, p) PROVE LoginTypes'
  <2>1. ~ Full(c) /\ failures' = With(c, Active(c))
    BY <1>5 DEF Attempt, Refused
  <2>2. /\ \A d \in DOMAIN failures' : failures'[d] \in Failure
        /\ DOMAIN failures' \subseteq Clients
        /\ IsFiniteSet(DOMAIN failures') /\ Cardinality(DOMAIN failures') <= MaxTracked
    BY <2>1, Attended
  <2> DEFINE k == [client |-> c, right |-> p = cred, at |-> now]
  <2>3. k \in [client: Clients, right: BOOLEAN, at: Clock]  BY <1>1
  <2>4. checking' = {k}  BY <1>5 DEF Attempt
  <2>5. logins' \in 0..MaxLogins /\ logins' # 0
    BY <1>5, <1>1, <1>0 DEF Attempt
  <2>6. Cardinality(checking') <= 1  BY <2>4, <1>2
  <2> HIDE DEF k
  <2>7. UNCHANGED <<now, cred, sessions, cookie, fresh, wrong>>  BY <1>5 DEF Attempt
  <2> QED  BY <2>2, <2>3, <2>4, <2>5, <2>6, <2>7, <1>1 DEF LoginTypes, LoginTypeOK
<1>6. ASSUME NEW c \in Clients, Mismatch(c) PROVE LoginTypes'
  <2>1. PICK k \in checking :
          /\ k.client = c /\ ~ k.right
          /\ LET n == failures[c].attempts + 1 IN
             failures' = [failures EXCEPT ![c] =
               [attempts |-> n, last |-> k.at,
                until |-> IF n >= MaxFailures THEN k.at + LockTime ELSE @.until]]
          /\ wrong' = [wrong EXCEPT ![c] = Append(@, k.at)]
          /\ checking' = {}
          /\ UNCHANGED <<now, cred, sessions, cookie, fresh, logins>>
    BY <1>6 DEF Mismatch
  <2>2. c \in DOMAIN failures /\ failures[c].attempts < MaxFailures /\ failures[c] \in Failure
    BY <2>1, <1>1 DEF LockoutInv, Exhausted
  <2>3. failures[c].attempts \in Nat /\ failures[c].until \in 0..(MaxClock + LockTime)
    BY <2>2 DEF Failure
  <2>4. k.at \in Clock /\ k.at + LockTime \in 0..(MaxClock + LockTime)
    BY <1>1, <2>1, <1>0 DEF Clock
  <2>5. failures[c].attempts + 1 \in 0..MaxFailures  BY <2>2, <2>3, <1>0
  <2>6. /\ DOMAIN failures' = DOMAIN failures
        /\ \A d \in DOMAIN failures \ {c} : failures'[d] = failures[d]
        /\ failures'[c] \in Failure
    BY <2>1, <2>2, <2>3, <2>4, <2>5 DEF Failure
  <2>7. wrong' \in [Clients -> Seq(Clock)]
    <3>1. Append(wrong[c], k.at) \in Seq(Clock)  BY <1>1, <2>4
    <3>2. wrong' = [wrong EXCEPT ![c] = Append(wrong[c], k.at)]  BY <2>1
    <3> QED  BY <3>1, <3>2, <1>1
  <2>8. \A d \in DOMAIN failures' : failures'[d] \in Failure  BY <2>6, <1>1
  <2>9. Cardinality(checking') <= 1  BY <2>1, <1>2
  <2> QED  BY <2>1, <2>6, <2>7, <2>8, <2>9, <1>1 DEF LoginTypes, LoginTypeOK
<1>7. ASSUME NEW c \in Clients, Match(c) PROVE LoginTypes'
  <2>1. PICK k \in checking :
          /\ k.client = c /\ k.right
          /\ failures' = Restrict(failures, DOMAIN failures \ {c})
          /\ sessions' = Insert(Room(k.at), logins, [until |-> k.at + SessionTime, cred |-> cred])
          /\ fresh' = [fresh EXCEPT ![c] = logins]
          /\ wrong' = [wrong EXCEPT ![c] = <<>>]
          /\ checking' = {}
          /\ UNCHANGED <<now, cred, cookie, logins>>
    BY <1>7 DEF Match
  <2> DEFINE w == [until |-> k.at + SessionTime, cred |-> cred]
             R == Room(k.at)
  <2>2. w \in Session
    <3>1. k.at \in Clock  BY <1>1, <2>1
    <3>2. k.at + SessionTime \in 1..(MaxClock + SessionTime)  BY <3>1, <1>0 DEF Clock
    <3> QED  BY <3>2, <1>1 DEF Session
  <2>3. /\ \A s \in DOMAIN R : s \in DOMAIN sessions /\ R[s] = sessions[s]
        /\ IsFiniteSet(DOMAIN R) /\ Cardinality(DOMAIN R) < MaxTracked
    BY RoomRows, ZenonT(60)
  <2> HIDE DEF w, R
  <2>4. /\ DOMAIN sessions' = DOMAIN R \union {logins}
        /\ \A s \in DOMAIN sessions' : sessions'[s] = IF s = logins THEN w ELSE R[s]
    BY <2>1 DEF Insert, w, R
  <2>5. logins \in Tokens  BY <1>1, <2>1, <1>0 DEF Tokens
  <2>6. DOMAIN sessions' \subseteq Tokens /\ \A s \in DOMAIN sessions' : sessions'[s] \in Session
    BY <2>2, <2>3, <2>4, <2>5, <1>1
  <2>7. IsFiniteSet(DOMAIN sessions') /\ Cardinality(DOMAIN sessions') <= MaxTracked
    <3>1. /\ IsFiniteSet(DOMAIN R \union {logins})
          /\ Cardinality(DOMAIN R \union {logins}) =
               IF logins \in DOMAIN R THEN Cardinality(DOMAIN R) ELSE Cardinality(DOMAIN R) + 1
      BY <2>3, FS_AddElement
    <3>2. Cardinality(DOMAIN R) \in Nat  BY <2>3, FS_CardinalityType
    <3> QED  BY <3>1, <3>2, <2>3, <2>4, <1>0
  <2>8. /\ DOMAIN failures' = DOMAIN failures \ {c}
        /\ \A d \in DOMAIN failures' : failures'[d] = failures[d]
    BY <2>1, RestrictRows
  <2>9. IsFiniteSet(DOMAIN failures') /\ Cardinality(DOMAIN failures') <= MaxTracked
    <3>1. /\ IsFiniteSet(DOMAIN failures \ {c})
          /\ Cardinality(DOMAIN failures \ {c}) <= Cardinality(DOMAIN failures)
      BY <1>1, FS_Subset
    <3>2. Cardinality(DOMAIN failures \ {c}) \in Nat /\ Cardinality(DOMAIN failures) \in Nat
      BY <1>1, <3>1, FS_CardinalityType
    <3> QED  BY <3>1, <3>2, <2>8, <1>0, <1>1
  <2>10. fresh' \in [Clients -> 0..MaxLogins] /\ wrong' \in [Clients -> Seq(Clock)]
    <3>1. <<>> \in Seq(Clock)  OBVIOUS
    <3> QED  BY <3>1, <2>1, <1>1
  <2>11. \A d \in DOMAIN failures' : d \in Clients /\ failures'[d] \in Failure
    BY <2>8, <1>1
  <2>12. Cardinality(checking') <= 1  BY <2>1, <1>2
  <2> QED  BY <2>1, <2>6, <2>7, <2>9, <2>10, <2>11, <2>12, <1>1 DEF LoginTypes, LoginTypeOK
<1>8. ASSUME NEW c \in Clients, Welcome(c) \/ Logout(c) PROVE LoginTypes'
  <2>1. sessions' = Without(cookie[c])  BY <1>8 DEF Welcome, Logout
  <2>2. /\ DOMAIN sessions' \subseteq DOMAIN sessions
        /\ \A s \in DOMAIN sessions' : sessions'[s] = sessions[s]
    BY <2>1, RestrictRows DEF Without
  <2>3. cookie' \in [Clients -> 0..MaxLogins] /\ fresh' \in [Clients -> 0..MaxLogins]
    <3>1. CASE Welcome(c)
      <4>1. fresh[c] \in 0..MaxLogins /\ 0 \in 0..MaxLogins  BY <1>1, <1>0
      <4> QED  BY <4>1, <3>1, <1>1 DEF Welcome
    <3>2. CASE Logout(c)
      <4>1. 0 \in 0..MaxLogins  BY <1>0
      <4> QED  BY <4>1, <3>2, <1>1 DEF Logout
    <3> QED  BY <3>1, <3>2, <1>8
  <2>4. UNCHANGED <<now, cred, failures, checking, logins, wrong>>
    BY <1>8 DEF Welcome, Logout
  <2> QED  BY <2>2, <2>3, <2>4, <1>1, <1>3 DEF LoginTypes, LoginTypeOK
<1>9. ASSUME NEW c \in Clients, Validate(c) PROVE LoginTypes'
  <2>1. sessions' = Unexpired(now)  BY <1>9 DEF Validate
  <2>2. /\ DOMAIN sessions' \subseteq DOMAIN sessions
        /\ \A s \in DOMAIN sessions' : sessions'[s] = sessions[s]
    BY <2>1, RestrictRows DEF Unexpired
  <2> QED  BY <2>2, <1>1, <1>3, <1>9 DEF Validate, LoginTypes, LoginTypeOK
<1>10. ASSUME Tick PROVE LoginTypes'
  BY <1>10, <1>1, <1>0 DEF Tick, Clock, LoginTypes, LoginTypeOK
<1>11. ASSUME ReplaceCredentials PROVE LoginTypes'
  BY <1>11, <1>1 DEF ReplaceCredentials, LoginTypes, LoginTypeOK
<1>12. ASSUME Reboot PROVE LoginTypes'
  <2>1. DOMAIN failures' = {} /\ DOMAIN sessions' = {} /\ checking' = {}
    BY <1>12 DEF Reboot
  <2>2. fresh' \in [Clients -> 0..MaxLogins] /\ wrong' \in [Clients -> Seq(Clock)]
    <3>1. <<>> \in Seq(Clock)  OBVIOUS
    <3> QED  BY <3>1, <1>12, <1>0 DEF Reboot
  <2>3. Cardinality(DOMAIN failures') <= MaxTracked /\ IsFiniteSet(DOMAIN failures')
        /\ Cardinality(DOMAIN sessions') <= MaxTracked /\ IsFiniteSet(DOMAIN sessions')
        /\ Cardinality(checking') <= 1
    BY <2>1, <1>2, <1>0
  <2>4. UNCHANGED <<now, cred, cookie, logins>>  BY <1>12 DEF Reboot
  <2> QED  BY <2>1, <2>2, <2>3, <2>4, <1>1 DEF LoginTypes, LoginTypeOK
<1>13. ASSUME UNCHANGED loginVars PROVE LoginTypes'
  BY <1>13, <1>1 DEF loginVars, LoginTypes, LoginTypeOK
<1> QED
  BY <1>4, <1>5, <1>6, <1>7, <1>8, <1>9, <1>10, <1>11, <1>12, <1>13 DEF LoginNext

LoginInv == LoginTypes /\ LockoutInv /\ TokenInv

(* A login is given a token that nobody has; a token changes hands once.    *)
LEMMA TokenStep ==
  ASSUME LoginTypes, TokenInv, [LoginNext]_loginVars
  PROVE  TokenInv'
<1>1. /\ DOMAIN sessions \subseteq Tokens /\ logins \in Nat
      /\ \A c \in Clients : cookie[c] \in Nat /\ fresh[c] \in Nat
      /\ cookie \in [Clients -> 0..MaxLogins] /\ fresh \in [Clients -> 0..MaxLogins]
      /\ \A s \in DOMAIN sessions : s \in Nat
      /\ checking # {} => logins # 0
  BY LoginBounds DEF LoginTypes, LoginTypeOK, Tokens
<1>2. ASSUME NEW c \in Clients, NEW p \in Passwords, Attempt(c, p) PROVE TokenInv'
  <2>1. logins' = logins + 1 /\ checking = {} /\ UNCHANGED <<sessions, cookie, fresh>>
    BY <1>2 DEF Attempt
  <2> QED  BY <2>1, <1>1 DEF TokenInv
<1>3. ASSUME NEW c \in Clients, Match(c) PROVE TokenInv'
  <2>1. PICK k \in checking :
          /\ sessions' = Insert(Room(k.at), logins, [until |-> k.at + SessionTime, cred |-> cred])
          /\ fresh' = [fresh EXCEPT ![c] = logins]
          /\ checking' = {} /\ cookie' = cookie /\ logins' = logins
    BY <1>3 DEF Match
  <2>2. \A s \in DOMAIN sessions' : s = logins \/ s \in DOMAIN sessions
    <3>1. DOMAIN sessions' = DOMAIN Room(k.at) \union {logins}  BY <2>1 DEF Insert
    <3>2. DOMAIN Room(k.at) \subseteq DOMAIN sessions  BY RoomRows
    <3> QED  BY <3>1, <3>2
  <2>3. fresh'[c] = logins /\ \A d \in Clients \ {c} : fresh'[d] = fresh[d]
    BY <2>1, <1>1
  <2>4. \A d \in Clients : cookie[d] < logins /\ fresh[d] < logins
    BY <2>1 DEF TokenInv
  <2>5. \A s \in DOMAIN sessions' : s <= logins'
    BY <2>1, <2>2, <1>1 DEF TokenInv
  <2>6. \A d \in Clients : cookie'[d] <= logins' /\ fresh'[d] <= logins'
    BY <2>1, <2>3, <2>4, <1>1
  <2>7. \A d, e \in Clients : cookie'[d] # 0 => cookie'[d] # fresh'[e]
    BY <2>1, <2>3, <2>4, <1>1 DEF TokenInv
  <2>8. \A d, e \in Clients : fresh'[d] # 0 /\ fresh'[d] = fresh'[e] => d = e
    BY <2>3, <2>4, <1>1 DEF TokenInv
  <2> QED  BY <2>1, <2>5, <2>6, <2>7, <2>8 DEF TokenInv
<1>4. ASSUME NEW c \in Clients, Welcome(c) PROVE TokenInv'
  <2>1. /\ DOMAIN sessions' \subseteq DOMAIN sessions
        /\ cookie' = [cookie EXCEPT ![c] = fresh[c]]
        /\ fresh' = [fresh EXCEPT ![c] = 0]
        /\ logins' = logins /\ checking' = checking /\ checking = {} /\ fresh[c] # 0
    BY <1>4, RestrictRows DEF Welcome, Without
  <2>2. /\ cookie'[c] = fresh[c] /\ fresh'[c] = 0
        /\ \A d \in Clients \ {c} : cookie'[d] = cookie[d] /\ fresh'[d] = fresh[d]
    BY <2>1, <1>1
  <2>3. \A d \in Clients : cookie'[d] <= logins /\ fresh'[d] <= logins
    BY <2>2, <1>1 DEF TokenInv
  <2>4. \A d, e \in Clients : cookie'[d] # 0 => cookie'[d] # fresh'[e]
    BY <2>2, <1>1 DEF TokenInv
  <2>5. \A d, e \in Clients : cookie'[d] # 0 /\ cookie'[d] = cookie'[e] => d = e
    BY <2>1, <2>2, <1>1 DEF TokenInv
  <2>6. \A d, e \in Clients : fresh'[d] # 0 /\ fresh'[d] = fresh'[e] => d = e
    BY <2>2, <1>1 DEF TokenInv
  <2> QED  BY <2>1, <2>3, <2>4, <2>5, <2>6 DEF TokenInv
<1>5. ASSUME NEW c \in Clients, Logout(c) PROVE TokenInv'
  <2>1. /\ DOMAIN sessions' \subseteq DOMAIN sessions
        /\ cookie' = [cookie EXCEPT ![c] = 0]
        /\ fresh' = fresh /\ logins' = logins /\ checking' = checking /\ checking = {}
    BY <1>5, RestrictRows DEF Logout, Without
  <2>2. cookie'[c] = 0 /\ \A d \in Clients \ {c} : cookie'[d] = cookie[d]
    BY <2>1, <1>1
  <2> QED  BY <2>1, <2>2, <1>1 DEF TokenInv
<1>6. ASSUME NEW c \in Clients, Mismatch(c) PROVE TokenInv'
  <2>1. checking' = {} /\ UNCHANGED <<sessions, cookie, fresh, logins>>
    BY <1>6 DEF Mismatch
  <2> QED  BY <2>1 DEF TokenInv
<1>7. ASSUME NEW c \in Clients, Validate(c) PROVE TokenInv'
  <2>1. DOMAIN sessions' \subseteq DOMAIN sessions /\ UNCHANGED <<cookie, fresh, logins, checking>>
    BY <1>7, RestrictRows DEF Validate, Unexpired
  <2> QED  BY <2>1 DEF TokenInv
<1>8. ASSUME Reboot PROVE TokenInv'
  <2>1. /\ DOMAIN sessions' = {} /\ checking' = {} /\ fresh' = [c \in Clients |-> 0]
        /\ UNCHANGED <<cookie, logins>>
    BY <1>8 DEF Reboot
  <2> QED  BY <2>1, <1>1 DEF TokenInv
<1>9. ASSUME UNCHANGED <<sessions, cookie, fresh, logins, checking>> PROVE TokenInv'
  BY <1>9 DEF TokenInv
<1> QED
  BY <1>2, <1>3, <1>4, <1>5, <1>6, <1>7, <1>8, <1>9
  DEF LoginNext, Refuse, Tick, ReplaceCredentials, loginVars

(* A login page that is just started has forgotten nothing.                 *)
LEMMA LoginBegins == LoginInit => LoginInv
<1> SUFFICES ASSUME LoginInit PROVE LoginInv
  OBVIOUS
<1>1. Cardinality({}) = 0 /\ IsFiniteSet({})  BY FS_EmptySet
<1>2. DOMAIN failures = {} /\ DOMAIN sessions = {}  BY DEF LoginInit
<1>3. MaxTracked \in Nat \ {0} /\ 1 \in 0..MaxClock /\ 0 \in 0..MaxLogins
  BY LimitsPositive, LoginBounds
<1>4. wrong \in [Clients -> Seq(Clock)] /\ \A c \in Clients : wrong[c] = <<>>
  <2>1. <<>> \in Seq(Clock)  OBVIOUS
  <2> QED  BY <2>1 DEF LoginInit
<1>5. \A c \in Clients : Len(wrong[c]) = 0 /\ DOMAIN wrong[c] = {} /\ Count(c) = 0
  BY <1>2, <1>4 DEF Count
<1>6. LoginTypes
  <2>1. cookie \in [Clients -> 0..MaxLogins] /\ fresh \in [Clients -> 0..MaxLogins]
        /\ logins \in 0..MaxLogins /\ now \in Clock /\ cred \in Passwords /\ checking = {}
    BY <1>3 DEF LoginInit, Clock
  <2>2. Cardinality(DOMAIN failures) <= MaxTracked /\ Cardinality(DOMAIN sessions) <= MaxTracked
        /\ Cardinality(checking) <= 1
    BY <2>1, <1>1, <1>2, <1>3
  <2> QED  BY <2>1, <2>2, <1>1, <1>2, <1>4 DEF LoginTypes, LoginTypeOK
<1>7. LockoutInv
  BY <1>2, <1>5 DEF LoginInit, LockoutInv, Ordered, Counted, Aged, Exhausted, Spaced
<1>8. TokenInv  BY <1>2 DEF LoginInit, TokenInv
<1> QED  BY <1>6, <1>7, <1>8 DEF LoginInv

(* What LoginInv says holds at every time.                                  *)
LEMMA LoginAlways == LoginSpec => []LoginInv
<1>1. LoginInv /\ [LoginNext]_loginVars => LoginInv'
  BY LoginTypeStep, LockoutStep, TokenStep DEF LoginInv
<1> QED  BY <1>1, LoginBegins, PTL DEF LoginSpec

-----------------------------------------------------------------------------
(* Theorems about the login *)

(* The failures and the sessions keep their types, neither table outgrows   *)
(* MAX_TRACKED, and one login at a time is verified.                        *)
THEOREM LoginTyped == LoginSpec => []LoginTypeOK
<1>1. LoginInv => LoginTypeOK  BY DEF LoginInv, LoginTypes
<1> QED  BY <1>1, LoginAlways, PTL

(* Among numbers of which those MaxFailures apart are LockTime apart, no    *)
(* more than MaxFailures are in a window of LockTime.                       *)
LEMMA WindowHolds ==
  ASSUME LoginTypes, LockoutInv, NEW c \in Clients, NEW t \in Clock
  PROVE  Cardinality({i \in DOMAIN wrong[c] : wrong[c][i] \in t..(t + LockTime - 1)}) <= MaxFailures
<1> DEFINE W == wrong[c]
           In == {i \in DOMAIN W : W[i] \in t..(t + LockTime - 1)}
<1>0. LockTime \in Nat /\ MaxFailures \in Nat \ {0} /\ t \in Nat
  BY LimitsPositive, LoginBounds DEF Clock
<1>1. DOMAIN W = 1..Len(W) /\ Len(W) \in Nat /\ \A i \in DOMAIN W : W[i] \in Nat
  BY WrongNumbers
<1>2. In \subseteq Nat  BY <1>1
<1>3. \A i, j \in DOMAIN W : i <= j => W[i] <= W[j]  BY DEF LockoutInv, Ordered
<1>4. \A i \in DOMAIN W : i + MaxFailures \in DOMAIN W => W[i] + LockTime <= W[i + MaxFailures]
  BY DEF LockoutInv, Spaced
<1>5. \A i \in In : i \in DOMAIN W /\ t <= W[i] /\ W[i] < t + LockTime
  BY <1>0, <1>1
<1> HIDE DEF W, In
<1>6. CASE In = {}
  <2>1. Cardinality(In) = 0  BY <1>6, FS_EmptySet
  <2>2. Cardinality(In) <= MaxFailures  BY <2>1, <1>0
  <2> QED  BY <2>2 DEF In, W
<1>7. CASE In # {}
  <2>1. PICK a \in In : \A i \in In : a <= i  BY <1>2, <1>7, LeastNumber
  <2>2. \A i \in In : i \in a..(a + MaxFailures - 1)
    <3> SUFFICES ASSUME NEW i \in In, ~(i <= a + MaxFailures - 1)
                 PROVE  FALSE
      BY <2>1, <1>0, <1>2
    <3>1. a + MaxFailures <= i /\ a + MaxFailures \in DOMAIN W
      BY <1>0, <1>1, <1>2, <1>5, <2>1
    <3>2. W[a] + LockTime <= W[a + MaxFailures] /\ W[a + MaxFailures] <= W[i]
      BY <3>1, <1>3, <1>4, <1>5, <2>1
    <3> QED  BY <3>1, <3>2, <1>0, <1>1, <1>5, <2>1
  <2>3. a \in Int /\ a + MaxFailures - 1 \in Int  BY <1>0, <1>2, <2>1
  <2>4. IsFiniteSet(a..(a + MaxFailures - 1))
        /\ Cardinality(a..(a + MaxFailures - 1)) = MaxFailures
    BY <2>3, <1>0, FS_Interval
  <2>5. IsFiniteSet(In) /\ Cardinality(In) <= MaxFailures
    BY <2>2, <2>4, FS_Subset
  <2> QED  BY <2>5 DEF In, W
<1> QED  BY <1>6, <1>7

(* However its attempts are spread, whatever the others do, and although    *)
(* the table of failures is cleared out when it is full, no client has more *)
(* than MAX_FAILURES attempts looked at within any LOCK_SECONDS.            *)
THEOREM LockedOut == LoginSpec => []LockoutHolds
<1>1. LoginInv => LockoutHolds  BY WindowHolds DEF LoginInv, LockoutHolds
<1> QED  BY <1>1, LoginAlways, PTL

(* A session that is valid and does not go with its own cookie goes with    *)
(* the process, or as the oldest of as many as are kept.                    *)
LEMMA SessionGoes ==
  ASSUME LoginInv, LoginNext, NEW c \in Clients,
         Valid(cookie[c]), cookie[c] \notin DOMAIN sessions', cookie'[c] = cookie[c]
  PROVE  \/ Reboot
         \/ Cardinality({s \in DOMAIN sessions' : s > cookie[c]}) >= MaxTracked
<1> DEFINE x == cookie[c]
<1>0. LoginTypes /\ TokenInv  BY DEF LoginInv
<1>1. /\ x \in DOMAIN sessions /\ sessions[x].until > now /\ x \in Nat /\ x # 0
      /\ sessions[x].until \in Nat /\ now \in Nat
      /\ cookie \in [Clients -> 0..MaxLogins] /\ logins \in Nat
      /\ DOMAIN sessions \subseteq Nat /\ MaxTracked \in Nat
  <2>1. Tokens \subseteq Nat \ {0} /\ 1..(MaxClock + SessionTime) \subseteq Nat
        /\ 0..MaxLogins \subseteq Nat /\ Clock \subseteq Nat
    BY LoginBounds, LimitsPositive DEF Tokens, Clock
  <2> QED
    BY <1>0, <2>1, LimitsPositive DEF Valid, LoginTypes, LoginTypeOK, Session
<1> HIDE DEF x
<1>2. ASSUME NEW d \in Clients, Match(d)
      PROVE  Cardinality({s \in DOMAIN sessions' : s > x}) >= MaxTracked
  <2>1. PICK k \in checking :
          /\ k.client = d
          /\ sessions' = Insert(Room(k.at), logins, [until |-> k.at + SessionTime, cred |-> cred])
    BY <1>2 DEF Match
  <2>2. k.at \in Nat /\ k.at <= now
    <3>1. k.at \in Clock  BY <1>0, <2>1 DEF LoginTypes, LoginTypeOK
    <3>2. k.at <= now  BY <2>1 DEF LoginInv, LockoutInv, Ordered
    <3> QED  BY <3>1, <3>2, LoginBounds DEF Clock
  <2> DEFINE U == {s \in DOMAIN sessions : sessions[s].until > k.at}
             R == DOMAIN Room(k.at)
  <2>3. x \in U  BY <1>1, <2>2
  <2>4. DOMAIN sessions' = R \union {logins}  BY <2>1 DEF Insert
  <2>5. /\ R \subseteq U /\ IsFiniteSet(R)
        /\ \A s \in U \ R : (\A r \in R : r > s) /\ Cardinality(R) = MaxTracked - 1
    BY <1>0, RoomRows
  <2>6. \A s \in U : s < logins /\ s \in Nat
    BY <1>0, <1>1, <2>1 DEF TokenInv
  <2> HIDE DEF U, R
  <2>7. x \in U \ R  BY <2>3, <2>4 DEF x
  <2>8. {s \in DOMAIN sessions' : s > x} = R \union {logins}
    BY <1>1, <2>4, <2>5, <2>6, <2>7
  <2>9. logins \notin R  BY <2>5, <2>6, <1>1
  <2>10. Cardinality(R \union {logins}) = Cardinality(R) + 1
    BY <2>5, <2>9, FS_AddElement
  <2>11. Cardinality(R) = MaxTracked - 1  BY <2>5, <2>7
  <2>12. Cardinality(R \union {logins}) = MaxTracked  BY <2>10, <2>11, <1>1
  <2>13. MaxTracked >= MaxTracked  BY <1>1
  <2>14. Cardinality({s \in DOMAIN sessions' : s > x}) = MaxTracked  BY <2>8, <2>12, Zenon
  <2> QED  BY <2>13, <2>14, Zenon
<1>3. ASSUME NEW d \in Clients, Welcome(d) \/ Logout(d) PROVE FALSE
  <2>1. DOMAIN sessions' = DOMAIN sessions \ {cookie[d]}
    BY <1>3, RestrictRows DEF Welcome, Logout, Without
  <2>2. d = c  BY <2>1, <1>0, <1>1 DEF TokenInv, x
  <2>3. cookie'[c] = fresh[c] \/ cookie'[c] = 0
    BY <1>3, <2>2, <1>1 DEF Welcome, Logout
  <2> QED  BY <2>3, <1>0, <1>1 DEF TokenInv, x
<1>4. ASSUME NEW d \in Clients, Validate(d) PROVE FALSE
  <2>1. DOMAIN sessions' = {s \in DOMAIN sessions : sessions[s].until > now}
    BY <1>4, RestrictRows DEF Validate, Unexpired
  <2> QED  BY <2>1, <1>1 DEF x
<1>5. ASSUME sessions' = sessions PROVE FALSE
  BY <1>5, <1>1 DEF x
<1> QED
  BY <1>2, <1>3, <1>4, <1>5
  DEF LoginNext, Attempt, Refuse, Mismatch, Tick, ReplaceCredentials, x

(* No browser's logout, expiry sweep or login closes the session another    *)
(* one holds, unless as many younger ones are open as are kept.             *)
THEOREM SessionsLast == LoginSpec => SessionsStand
<1>1. ASSUME LoginInv, [LoginNext]_loginVars, loginVars' # loginVars, NEW c \in Clients,
             Valid(cookie[c]), cookie[c] \notin DOMAIN sessions'
      PROVE  \/ cookie'[c] # cookie[c] \/ Reboot
             \/ Cardinality({s \in DOMAIN sessions' : s > cookie[c]}) >= MaxTracked
  BY <1>1, SessionGoes
<1>2. LoginInv /\ [LoginNext]_loginVars =>
        [\A c \in Clients :
           Valid(cookie[c]) /\ cookie[c] \notin DOMAIN sessions' =>
             \/ cookie'[c] # cookie[c]
             \/ Reboot
             \/ Cardinality({s \in DOMAIN sessions' : s > cookie[c]}) >= MaxTracked]_loginVars
  BY <1>1
<1> QED  BY <1>2, LoginAlways, PTL DEF LoginSpec, SessionsStand

-----------------------------------------------------------------------------
(* The descendants of some types.  What the rounds of _lineage_closure find *)
(* is a function on an initial segment of the numbers; what holds of every  *)
(* round is shown by looking at the least round of which it does not hold.  *)

(* The children of a frontier that were not found yet. *)
Newcomers(found, frontier) == {t \in DOMAIN types : types[t].parent \in frontier} \ found

(* The rounds from the roots on, up to round k. *)
IsRounds(h, roots, k) ==
  h = [n \in 0..k |->
         IF n = 0 THEN [result |-> roots, frontier |-> roots]
         ELSE [result |-> h[n - 1].result \union Newcomers(h[n - 1].result, h[n - 1].frontier),
               frontier |-> Newcomers(h[n - 1].result, h[n - 1].frontier)]]

(* A property of numbers that the successor of each that has it has too,    *)
(* and that 0 has: so has every number up to k.                             *)
LEMMA UpTo ==
  ASSUME NEW k \in Nat, NEW T, 0 \in T, \A n \in 0..k : n \in T /\ n < k => n + 1 \in T
  PROVE  0..k \subseteq T
<1> DEFINE B == {n \in 0..k : n \notin T}
<1> SUFFICES ASSUME B # {} PROVE FALSE
  OBVIOUS
<1>1. B \subseteq Nat  OBVIOUS
<1>2. PICK m \in B : \A n \in B : m <= n  BY <1>1, LeastNumber
<1>3. m # 0 /\ m \in Nat /\ m - 1 \in 0..k /\ m - 1 < k  BY <1>2
<1>4. m - 1 \in T  BY <1>2, <1>3
<1>5. (m - 1) + 1 \in T  BY <1>3, <1>4
<1> QED  BY <1>2, <1>3, <1>5

(* There are rounds. *)
LEMMA RoundsExist ==
  ASSUME NEW roots, NEW k \in Nat
  PROVE  \E h : IsRounds(h, roots, k)
<1> DEFINE T == {n \in 0..k : \E h : IsRounds(h, roots, n)}
<1>1. 0 \in T
  <2>1. IsRounds([n \in 0..0 |-> [result |-> roots, frontier |-> roots]], roots, 0)
    BY DEF IsRounds
  <2> QED  BY <2>1
<1>2. ASSUME NEW n \in 0..k, n \in T, n < k PROVE n + 1 \in T
  <2>1. PICK h : IsRounds(h, roots, n)  BY <1>2
  <2> DEFINE last == [result |-> h[n].result \union Newcomers(h[n].result, h[n].frontier),
                      frontier |-> Newcomers(h[n].result, h[n].frontier)]
             g == [i \in 0..(n + 1) |-> IF i = n + 1 THEN last ELSE h[i]]
  <2>2. n \in Nat /\ n + 1 \in 0..k  BY <1>2
  <2>3. \A i \in 0..n :
          h[i] = IF i = 0 THEN [result |-> roots, frontier |-> roots]
                 ELSE [result |-> h[i - 1].result \union Newcomers(h[i - 1].result, h[i - 1].frontier),
                       frontier |-> Newcomers(h[i - 1].result, h[i - 1].frontier)]
    BY <2>1 DEF IsRounds
  <2>4. \A i \in 0..n : g[i] = h[i]  BY <2>2
  <2>5. g[n + 1] = last  BY <2>2
  <2> HIDE DEF g
  <2>6. ASSUME NEW i \in 0..(n + 1)
        PROVE  g[i] = IF i = 0 THEN [result |-> roots, frontier |-> roots]
                      ELSE [result |-> g[i - 1].result \union Newcomers(g[i - 1].result, g[i - 1].frontier),
                            frontier |-> Newcomers(g[i - 1].result, g[i - 1].frontier)]
    <3>1. CASE i = n + 1
      <4>1. i # 0 /\ i - 1 = n /\ n \in 0..n  BY <3>1, <2>2
      <4>2. g[i - 1] = h[n]  BY <4>1, <2>4
      <4> QED  BY <3>1, <4>1, <4>2, <2>5
    <3>2. CASE i # n + 1
      <4>1. i \in 0..n /\ (i # 0 => i - 1 \in 0..n)  BY <3>2, <2>2
      <4>2. g[i] = h[i] /\ (i # 0 => g[i - 1] = h[i - 1])  BY <4>1, <2>4
      <4> HIDE DEF last
      <4> QED  BY <4>1, <4>2, <2>3
    <3> QED  BY <3>1, <3>2
  <2>7. g = [i \in 0..(n + 1) |-> g[i]]  BY DEF g
  <2>8. IsRounds(g, roots, n + 1)  BY <2>6, <2>7 DEF IsRounds
  <2> QED  BY <2>2, <2>8
<1> HIDE DEF T
<1>3. k \in T  BY <1>1, <1>2, UpTo
<1> QED  BY <1>3 DEF T

(* The closure is what the last round has found. *)
LEMMA ClosureRounds ==
  ASSUME NEW roots, NEW k \in Nat, k = Cardinality(TypeIds)
  PROVE  \E h : IsRounds(h, roots, k) /\ LineageClosure(roots) = h[k].result
<1> DEFINE g == CHOOSE h : h =
     [n \in 0..Cardinality(TypeIds) |->
        IF n = 0 THEN [result |-> roots, frontier |-> roots]
        ELSE [result |-> h[n - 1].result \union
                ({t \in DOMAIN types : types[t].parent \in h[n - 1].frontier} \ h[n - 1].result),
              frontier |-> {t \in DOMAIN types : types[t].parent \in h[n - 1].frontier} \ h[n - 1].result]]
<1>1. LineageClosure(roots) = g[Cardinality(TypeIds)].result  BY DEF LineageClosure
<1>2. \E h : IsRounds(h, roots, k)  BY RoundsExist
<1>3. \E h : h =
     [n \in 0..Cardinality(TypeIds) |->
        IF n = 0 THEN [result |-> roots, frontier |-> roots]
        ELSE [result |-> h[n - 1].result \union
                ({t \in DOMAIN types : types[t].parent \in h[n - 1].frontier} \ h[n - 1].result),
              frontier |-> {t \in DOMAIN types : types[t].parent \in h[n - 1].frontier} \ h[n - 1].result]]
  BY <1>2, Zenon DEF IsRounds, Newcomers
<1>4. g =
     [n \in 0..Cardinality(TypeIds) |->
        IF n = 0 THEN [result |-> roots, frontier |-> roots]
        ELSE [result |-> g[n - 1].result \union
                ({t \in DOMAIN types : types[t].parent \in g[n - 1].frontier} \ g[n - 1].result),
              frontier |-> {t \in DOMAIN types : types[t].parent \in g[n - 1].frontier} \ g[n - 1].result]]
  BY <1>3, Zenon
<1> HIDE DEF g
<1>5. IsRounds(g, roots, k)  BY <1>4, Zenon DEF IsRounds, Newcomers
<1> QED  BY <1>1, <1>5

(* After each round: what was found descends from the roots and has the     *)
(* children of all but the frontier; and each round that finds something    *)
(* finds one more.                                                          *)
LEMMA RoundHolds ==
  ASSUME DOMAIN types \subseteq TypeIds, NEW k \in Nat, NEW roots \in SUBSET DOMAIN types,
         NEW h, IsRounds(h, roots, k)
  PROVE  \A n \in 0..k :
           /\ h[n].result \subseteq DOMAIN types /\ h[n].frontier \subseteq h[n].result
           /\ roots \subseteq h[n].result
           /\ \A S : Descendants(S, roots) => h[n].result \subseteq S
           /\ \A t \in DOMAIN types :
                types[t].parent \in h[n].result \ h[n].frontier => t \in h[n].result
           /\ h[n].frontier = {} \/ Cardinality(h[n].result) >= n
<1> DEFINE Good(n) ==
      /\ h[n].result \subseteq DOMAIN types /\ h[n].frontier \subseteq h[n].result
      /\ roots \subseteq h[n].result
      /\ \A S : Descendants(S, roots) => h[n].result \subseteq S
      /\ \A t \in DOMAIN types :
           types[t].parent \in h[n].result \ h[n].frontier => t \in h[n].result
      /\ h[n].frontier = {} \/ Cardinality(h[n].result) >= n
    T == {n \in 0..k : Good(n)}
<1>1. ASSUME NEW n \in 0..k
      PROVE  h[n] = IF n = 0 THEN [result |-> roots, frontier |-> roots]
                    ELSE [result |-> h[n - 1].result \union Newcomers(h[n - 1].result, h[n - 1].frontier),
                          frontier |-> Newcomers(h[n - 1].result, h[n - 1].frontier)]
  BY Zenon DEF IsRounds
<1>2. \A A \in SUBSET DOMAIN types : IsFiniteSet(A) /\ Cardinality(A) \in Nat
  BY IdsFinite, FS_Subset, FS_CardinalityType
<1>3. Good(0)
  <2>0. 0 \in 0..k  OBVIOUS
  <2>1. h[0].result = roots /\ h[0].frontier = roots
    <3>1. h[0] = [result |-> roots, frontier |-> roots]  BY <1>1, <2>0
    <3> QED  BY <3>1
  <2>2. Cardinality(roots) >= 0  BY <1>2
  <2>3. \A S : Descendants(S, roots) => roots \subseteq S  BY DEF Descendants
  <2> QED  BY <2>1, <2>2, <2>3
<1>4. ASSUME NEW n \in 0..k, Good(n), n < k PROVE Good(n + 1)
  <2> DEFINE R == h[n].result
             F == h[n].frontier
             New == Newcomers(R, F)
  <2>1. n \in Nat /\ n + 1 \in 0..k /\ n + 1 # 0 /\ (n + 1) - 1 = n  BY <1>4
  <2>2. h[n + 1].result = R \union New /\ h[n + 1].frontier = New
    <3> DEFINE m == n + 1
    <3>1. h[m] = IF m = 0 THEN [result |-> roots, frontier |-> roots]
                 ELSE [result |-> h[m - 1].result \union Newcomers(h[m - 1].result, h[m - 1].frontier),
                       frontier |-> Newcomers(h[m - 1].result, h[m - 1].frontier)]
      BY <1>1, <2>1
    <3>2. m # 0 /\ m - 1 = n  BY <2>1
    <3> HIDE DEF m
    <3>3. h[m] = [result |-> R \union New, frontier |-> New]  BY <3>1, <3>2
    <3>4. h[m].result = R \union New /\ h[m].frontier = New
      <4> HIDE DEF R, New
      <4> QED  BY <3>3
    <3> QED  BY <3>4 DEF m
  <2>3. New = {t \in DOMAIN types : types[t].parent \in F} \ R  BY DEF Newcomers
  <2>4. /\ R \subseteq DOMAIN types /\ F \subseteq R /\ roots \subseteq R
        /\ \A S : Descendants(S, roots) => R \subseteq S
        /\ \A t \in DOMAIN types : types[t].parent \in R \ F => t \in R
        /\ F = {} \/ Cardinality(R) >= n
    BY <1>4
  <2> HIDE DEF R, F, New
  <2>5. \A S : Descendants(S, roots) => R \union New \subseteq S
    BY <2>3, <2>4 DEF Descendants
  <2>6. \A t \in DOMAIN types :
          types[t].parent \in (R \union New) \ New => t \in R \union New
    BY <2>3, <2>4
  <2>7. New = {} \/ Cardinality(R \union New) >= n + 1
    <3> SUFFICES ASSUME New # {} PROVE Cardinality(R \union New) >= n + 1
      OBVIOUS
    <3>1. PICK x : x \in New  OBVIOUS
    <3>2. Cardinality(R \union {x}) = Cardinality(R) + 1
      BY <3>1, <2>3, <2>4, <1>2, FS_AddElement
    <3>3. R \union New \in SUBSET DOMAIN types /\ R \union {x} \in SUBSET (R \union New)
      BY <3>1, <2>3, <2>4
    <3>4. Cardinality(R \union {x}) <= Cardinality(R \union New)
      BY <3>3, <1>2, FS_Subset
    <3>5. Cardinality(R) >= n  BY <2>3, <2>4, <3>1
    <3>6. Cardinality(R) \in Nat /\ Cardinality(R \union New) \in Nat
      BY <2>4, <3>3, <1>2
    <3> QED  BY <3>2, <3>4, <3>5, <3>6, <2>1
  <2>8. R \union New \subseteq DOMAIN types /\ New \subseteq R \union New /\ roots \subseteq R \union New
    BY <2>3, <2>4
  <2> QED  BY <2>2, <2>5, <2>6, <2>7, <2>8
<1>5. 0 \in T  BY <1>3
<1>6. ASSUME NEW n \in 0..k, n \in T, n < k PROVE n + 1 \in T
  <2>1. Good(n)  BY <1>6
  <2>2. n + 1 \in 0..k  BY <1>6
  <2> HIDE DEF Good
  <2> QED  BY <1>4, <1>6, <2>1, <2>2
<1> HIDE DEF Good
<1>7. 0..k \subseteq T
  <2> HIDE DEF T
  <2> QED  BY <1>5, <1>6, UpTo
<1>8. \A n \in 0..k : Good(n)  BY <1>7
<1> QED  BY <1>8 DEF Good

(* _lineage_closure reaches the roots and what descends from them, and      *)
(* nothing else: there are no more rounds than types, and that is enough.   *)
LEMMA ClosureReaches ==
  ASSUME DOMAIN types \subseteq TypeIds
  PROVE  ClosureIsDescendants
<1> SUFFICES ASSUME NEW roots \in SUBSET DOMAIN types
             PROVE  /\ Descendants(LineageClosure(roots), roots)
                    /\ \A S \in SUBSET DOMAIN types :
                         Descendants(S, roots) => LineageClosure(roots) \subseteq S
  BY DEF ClosureIsDescendants
<1> DEFINE k == Cardinality(TypeIds)
<1>1. k \in Nat  BY IdsFinite, FS_CardinalityType
<1>2. PICK h : IsRounds(h, roots, k) /\ LineageClosure(roots) = h[k].result
  BY <1>1, ClosureRounds
<1> DEFINE R == h[k].result
           F == h[k].frontier
<1>3. k \in 0..k  BY <1>1
<1> HIDE DEF k
<1>4. /\ R \subseteq DOMAIN types /\ F \subseteq R /\ roots \subseteq R
      /\ \A S : Descendants(S, roots) => R \subseteq S
      /\ \A t \in DOMAIN types : types[t].parent \in R \ F => t \in R
      /\ F = {} \/ Cardinality(R) >= k
  BY <1>1, <1>2, <1>3, RoundHolds
<1> HIDE DEF R, F
<1>5. \A t \in DOMAIN types : types[t].parent \in R => t \in R
  <2>1. CASE F = {}  BY <2>1, <1>4
  <2>2. CASE Cardinality(R) >= k
    <3>1. Cardinality(R) <= k /\ Cardinality(R) \in Nat
      BY <1>4, IdsFinite, FS_Subset, FS_CardinalityType DEF k
    <3>2. Cardinality(TypeIds) = Cardinality(R)  BY <1>1, <2>2, <3>1 DEF k
    <3>3. R = TypeIds  BY <3>2, <1>4, IdsFinite, FS_Subset
    <3> QED  BY <3>3
  <2> QED  BY <2>1, <2>2, <1>4
<1>6. LineageClosure(roots) = R  BY <1>2 DEF R
<1> QED  BY <1>4, <1>5, <1>6 DEF Descendants

-----------------------------------------------------------------------------
(* Tables *)

(* What a table has after some rows of it were written, or deleted. *)
LEMMA MergeRows ==
  ASSUME NEW f, NEW g
  PROVE  /\ DOMAIN Merge(f, g) = DOMAIN f \union DOMAIN g
         /\ \A x \in DOMAIN g : Merge(f, g)[x] = g[x]
         /\ \A x \in DOMAIN f \ DOMAIN g : Merge(f, g)[x] = f[x]
BY DEF Merge

(* A table without the rows of S.                                           *)
LEMMA DropRows ==
  ASSUME NEW f, NEW S
  PROVE  /\ DOMAIN Drop(f, S) = DOMAIN f \ S
         /\ \A x \in DOMAIN f \ S : Drop(f, S)[x] = f[x]
BY DEF Drop, Restrict

-----------------------------------------------------------------------------
(* What requests write *)

(* A step of a request leaves a row as it is or writes it, at this second.  *)
FieldsWritten ==
  /\ DOMAIN fields' \subseteq FieldIds
  /\ \A f \in DOMAIN fields' :
       \/ f \in DOMAIN fields /\ fields'[f] = fields[f]
       \/ fields'[f] \in FieldRow /\ fields'[f].at = second

RulesWritten ==
  /\ DOMAIN rules' \subseteq RuleIds
  /\ \A r \in DOMAIN rules' :
       \/ r \in DOMAIN rules /\ rules'[r] = rules[r]
       \/ rules'[r] \in RuleRow /\ rules'[r].at = second

(* A draft has the row that was read, if there was one, and the row to be   *)
(* written, or the references that will lead nowhere.                       *)
SaveDraft ==
  [op: {"save"}, id: FieldIds, stale: BOOLEAN, told: SUBSET (FieldIds \X FieldIds),
   was: SUBSET FieldRow, new: FieldRow]
DeleteDraft ==
  [op: {"delete"}, id: FieldIds, stale: BOOLEAN, told: SUBSET (FieldIds \X FieldIds)]

DraftTyped ==
  /\ draft = [e \in Editors |-> draft[e]]
  /\ \A e \in Editors : \A d \in draft[e] :
       \/ /\ d \in SaveDraft /\ d.new.base = d.id /\ d.new.depend = d.new.uses
          /\ d.was = {} \/ \E w \in FieldRow : d.was = {w}
       \/ d \in DeleteDraft

(* Until another request commits, what was checked holds. *)
SaveChecked(d) ==
  /\ d.was = IF d.id \in DOMAIN fields THEN {fields[d.id]} ELSE {}
  /\ d.new.adv => \A r \in d.new.uses : r \in FieldsOf(d.new.type) /\ ~ fields[r].adv
  /\ d.id \in DOMAIN fields =>
       /\ fields[d.id].type = d.new.type
       /\ d.new.adv /\ ~ fields[d.id].adv => Referrers(d.new.type, d.id) = {}

DeleteChecked(d) ==
  d.id \in DOMAIN fields /\ d.told = Referrers(fields[d.id].type, d.id) \X {d.id}

DraftChecked ==
  \A e \in Editors : \A d \in draft[e] :
    ~ d.stale => /\ d.op = "save" => SaveChecked(d)
                 /\ d.op = "delete" => DeleteChecked(d)

RowsDated ==
  /\ \A f \in DOMAIN fields : fields[f].at <= second
  /\ \A r \in DOMAIN rules : rules[r].at <= second

(* A payload is of rows as they were. *)
PayloadTyped ==
  \A p \in payload :
    /\ DOMAIN p.fields \subseteq FieldIds /\ \A f \in DOMAIN p.fields : p.fields[f] \in FieldRow
    /\ DOMAIN p.rules \subseteq RuleIds /\ \A r \in DOMAIN p.rules : p.rules[r] \in RuleRow
    /\ p.keys \subseteq Keys

(* A page shows rows by their ids, and its version has their number.        *)
PageTyped ==
  \A p \in page :
    /\ p.type \in TypeIds /\ p.at \in 1..second
    /\ p.config = <<[f \in DOMAIN p.config[1] |-> p.config[1][f]],
                    [r \in DOMAIN p.config[2] |-> p.config[2][r]]>>
    /\ DOMAIN p.config[1] \subseteq FieldIds /\ DOMAIN p.config[2] \subseteq RuleIds
    /\ p.version[3] = Cardinality(DOMAIN p.config[1])
    /\ p.version[4] = Cardinality(DOMAIN p.config[2])

(* Of the rows of the type that a page shows, those older than the page are *)
(* on it as they are.                                                       *)
PageHolds ==
  \A p \in page :
    /\ \A f \in FieldsOf(p.type) : fields[f].at < p.at =>
         f \in DOMAIN p.config[1] /\ p.config[1][f] = fields[f]
    /\ \A r \in RulesOf(p.type) : rules[r].at < p.at =>
         r \in DOMAIN p.config[2] /\ p.config[2][r] = rules[r]

ConfigTypes == ConfigTypeOK /\ DraftTyped /\ PayloadTyped /\ RowsDated /\ PageTyped
ConfigInv == ConfigTypes /\ DraftChecked /\ PageHolds /\ ReferencesSound

(* A commit keeps the types, the dates and the page, and makes all other    *)
(* drafts stale.                                                            *)
LEMMA CommitKeeps ==
  ASSUME ConfigTypes, PageHolds, FieldsWritten, RulesWritten,
         NEW E, NEW reported, NEW gap, Commit(E, reported, gap)
  PROVE  /\ \A f \in DOMAIN fields' : fields'[f] \in FieldRow
         /\ \A r \in DOMAIN rules' : rules'[r] \in RuleRow
         /\ second' \in 1..MaxNow /\ steps' \in 0..MaxSteps
         /\ DraftTyped' /\ PayloadTyped' /\ RowsDated' /\ DraftChecked'
         /\ PageTyped' /\ PageHolds'
<1>1. /\ steps' = steps + 1 /\ steps < MaxSteps
      /\ draft' = [e \in Editors |->
           IF e \in E THEN {} ELSE {[d EXCEPT !.stale = TRUE] : d \in draft[e]}]
      /\ payload' = payload /\ page' = page /\ second' = second
  BY DEF Commit, Step
<1>2. /\ second \in 1..MaxNow /\ steps \in 0..MaxSteps /\ MaxNow \in Nat /\ MaxSteps \in Nat
      /\ \A f \in DOMAIN fields : fields[f] \in FieldRow
      /\ \A r \in DOMAIN rules : rules[r] \in RuleRow
  BY ConfigBounds DEF ConfigTypes, ConfigTypeOK
<1>3. /\ \A f \in DOMAIN fields' : fields'[f] \in FieldRow
      /\ \A r \in DOMAIN rules' : rules'[r] \in RuleRow
  BY <1>2 DEF FieldsWritten, RulesWritten
<1>4. second' \in 1..MaxNow /\ steps' \in 0..MaxSteps  BY <1>1, <1>2
<1>5. ASSUME NEW e \in Editors, NEW g \in draft'[e]
      PROVE  \E d \in draft[e] : g = [d EXCEPT !.stale = TRUE]
  BY <1>1, <1>5
<1>6. ASSUME NEW e \in Editors, NEW d \in draft[e], NEW g, g = [d EXCEPT !.stale = TRUE]
      PROVE  /\ g.stale = TRUE
             /\ \/ /\ g \in SaveDraft /\ g.new.base = g.id /\ g.new.depend = g.new.uses
                   /\ g.was = {} \/ \E w \in FieldRow : g.was = {w}
                \/ g \in DeleteDraft
  <2>1. CASE d \in SaveDraft /\ d.new.base = d.id /\ d.new.depend = d.new.uses
             /\ (d.was = {} \/ \E w \in FieldRow : d.was = {w})
    <3>1. g.was = d.was /\ g.new = d.new /\ g.id = d.id /\ g.stale = TRUE /\ g \in SaveDraft
      BY <2>1, <1>6 DEF SaveDraft
    <3> QED  BY <2>1, <3>1
  <2>2. CASE d \in DeleteDraft  BY <2>2, <1>6 DEF DeleteDraft
  <2> QED  BY <2>1, <2>2 DEF ConfigTypes, DraftTyped
<1>7. DraftTyped'
  <2>1. draft' = [e \in Editors |-> draft'[e]]  BY <1>1
  <2> SUFFICES ASSUME NEW e \in Editors, NEW g \in draft'[e]
               PROVE  \/ /\ g \in SaveDraft /\ g.new.base = g.id /\ g.new.depend = g.new.uses
                         /\ g.was = {} \/ \E w \in FieldRow : g.was = {w}
                      \/ g \in DeleteDraft
    BY <2>1, Zenon DEF DraftTyped
  <2>2. PICK d \in draft[e] : g = [d EXCEPT !.stale = TRUE]  BY <1>5
  <2> QED  BY <2>2, <1>6, Zenon
<1>8. DraftChecked'  BY <1>5, <1>6 DEF DraftChecked
<1>9. PayloadTyped'  BY <1>1 DEF ConfigTypes, PayloadTyped
<1>10. RowsDated'
  <2>1. \A f \in DOMAIN fields' : fields'[f].at <= second
    BY <1>2 DEF ConfigTypes, RowsDated, FieldsWritten
  <2>2. \A r \in DOMAIN rules' : rules'[r].at <= second
    BY <1>2 DEF ConfigTypes, RowsDated, RulesWritten
  <2> QED  BY <2>1, <2>2, <1>1 DEF RowsDated
<1>11. PageHolds'
  <2> SUFFICES ASSUME NEW p \in page
               PROVE  /\ \A f \in FieldsOf(p.type)' : fields'[f].at < p.at =>
                           f \in DOMAIN p.config[1] /\ p.config[1][f] = fields'[f]
                      /\ \A r \in RulesOf(p.type)' : rules'[r].at < p.at =>
                           r \in DOMAIN p.config[2] /\ p.config[2][r] = rules'[r]
    BY <1>1, Zenon DEF PageHolds
  <2>1. p.at \in 1..second /\ ~(second < p.at)
    <3>1. p.at \in 1..second  BY Zenon DEF ConfigTypes, PageTyped
    <3> QED  BY <3>1, <1>2
  <2>2. ASSUME NEW f \in FieldsOf(p.type)', fields'[f].at < p.at
        PROVE  f \in FieldsOf(p.type) /\ fields'[f] = fields[f]
    BY <2>1, <2>2 DEF FieldsWritten, FieldsOf
  <2>3. ASSUME NEW r \in RulesOf(p.type)', rules'[r].at < p.at
        PROVE  r \in RulesOf(p.type) /\ rules'[r] = rules[r]
    BY <2>1, <2>3 DEF RulesWritten, RulesOf
  <2> QED  BY <2>2, <2>3 DEF PageHolds
<1>12. PageTyped'  BY <1>1, Zenon DEF ConfigTypes, PageTyped
<1> QED  BY <1>3, <1>4, <1>7, <1>8, <1>9, <1>10, <1>11, <1>12

(* Going back from the ids of copies to the rows they were made of. *)
LEMMA BackToSource ==
  ASSUME NEW S, NEW X, NEW m \in [S -> X], IsInjective(m)
  PROVE  /\ \A f \in S : AntiFunction(m)[m[f]] = f
         /\ \A g \in {m[f] : f \in S} : AntiFunction(m)[g] \in S /\ m[AntiFunction(m)[g]] = g
<1>1. ASSUME NEW f \in S PROVE AntiFunction(m)[m[f]] = f
  <2>1. m[f] \in Range(m) /\ DOMAIN m = S  BY DEF Range
  <2>2. AntiFunction(m)[m[f]] = CHOOSE s \in S : m[f] \in Range(m) => m[s] = m[f]
    BY <2>1 DEF AntiFunction, Inverse
  <2>3. AntiFunction(m)[m[f]] \in S /\ m[AntiFunction(m)[m[f]]] = m[f]  BY <2>1, <2>2
  <2> QED  BY <2>1, <2>3 DEF IsInjective
<1> QED  BY <1>1

(* A row that is copied is a row, of the same columns but for the fields it *)
(* refers to.                                                               *)
LEMMA RemappedRow ==
  ASSUME NEW row \in FieldRow, NEW map, \A r \in DOMAIN map : map[r] \in FieldIds
  PROVE  /\ Remapped(row, map) \in FieldRow
         /\ Remapped(row, map).adv = row.adv /\ Remapped(row, map).type = row.type
         /\ row.adv => Remapped(row, map).depend =
              {IF r \in DOMAIN map THEN map[r] ELSE r : r \in row.depend}
<1> DEFINE moved(S) == {IF r \in DOMAIN map THEN map[r] ELSE r : r \in S}
<1>1. \A S \in SUBSET FieldIds : moved(S) \in SUBSET FieldIds  OBVIOUS
<1>2. row.uses \in SUBSET FieldIds /\ row.depend \in SUBSET FieldIds /\ row.adv \in BOOLEAN
  BY DEF FieldRow
<1>3. CASE ~ row.adv  BY <1>3 DEF Remapped
<1>4. CASE row.adv
  <2>1. Remapped(row, map) =
          [row EXCEPT !.depend = moved(row.depend),
                      !.uses = IF row.hybrid THEN row.uses ELSE moved(row.uses)]
    BY <1>4 DEF Remapped
  <2>2. moved(row.depend) \in SUBSET FieldIds /\ moved(row.uses) \in SUBSET FieldIds
    BY <1>1, <1>2
  <2> HIDE DEF moved
  <2>3. Remapped(row, map) \in FieldRow  BY <2>1, <2>2 DEF FieldRow
  <2>4. /\ Remapped(row, map).adv = row.adv /\ Remapped(row, map).type = row.type
        /\ Remapped(row, map).depend = moved(row.depend)
    BY <2>1 DEF FieldRow
  <2> QED  BY <2>3, <2>4 DEF moved
<1> QED  BY <1>2, <1>3, <1>4

(* The types, parameters, files and projects have their types.              *)
TablesTyped ==
  /\ DOMAIN types \subseteq TypeIds /\ Default \in DOMAIN types
  /\ \A t \in DOMAIN types : types[t] \in TypeRow
  /\ types[Default].project = None /\ types[Default].parent = None
  /\ params \subseteq TypeIds \X Keys
  /\ files \in UNION {[S -> DOMAIN types] : S \in SUBSET FileIds}
  /\ projects \subseteq Projects

Committed ==
  \E E \in SUBSET Editors, reported, gap \in SUBSET (FieldIds \X FieldIds) :
    Commit(E, reported, gap)

(* Every request that writes ends with one commit.                          *)
LEMMA EditCommits == ASSUME Edit PROVE Committed
BY DEF Edit, Committed

(* Rows that are left alone are written in no way. *)
LEMMA NothingWritten ==
  ASSUME ConfigTypes
  PROVE  /\ fields' = fields => FieldsWritten
         /\ rules' = rules => RulesWritten
BY DEF ConfigTypes, ConfigTypeOK, FieldsWritten, RulesWritten

(* The commit of a save writes a row of the table.                          *)
LEMMA SavedRow ==
  ASSUME ConfigTypes, NEW e \in Editors, NEW d \in draft[e], d.op = "save",
         (d.id \in DOMAIN fields) <=> (d.was # {})
  PROVE  /\ DOMAIN Saved(d) = DOMAIN fields \union {d.id}
         /\ Saved(d)[d.id] \in FieldRow /\ Saved(d)[d.id].at = second
         /\ \A f \in DOMAIN fields \ {d.id} : Saved(d)[f] = fields[f]
         /\ d.was = {} => Saved(d)[d.id] = [d.new EXCEPT !.at = second]
         /\ d.was = {fields[d.id]} =>
              /\ Saved(d)[d.id].type = d.new.type /\ Saved(d)[d.id].adv = d.new.adv
              /\ Saved(d)[d.id].depend = d.new.depend
<1>1. d \in SaveDraft /\ (d.was = {} \/ \E w \in FieldRow : d.was = {w})
  BY DEF ConfigTypes, DraftTyped, DeleteDraft
<1>2. d.id \in FieldIds /\ d.new \in FieldRow  BY <1>1 DEF SaveDraft
<1>3. second \in 0..MaxNow  BY ConfigBounds DEF ConfigTypes, ConfigTypeOK
<1> DEFINE was == CHOOSE w \in d.was : TRUE
           row == IF d.was = {} THEN [d.new EXCEPT !.at = second]
                  ELSE Updated(fields[d.id], was, d.new)
<1>4. Saved(d) = Merge(fields, [f \in {d.id} |-> row])  BY DEF Saved
<1>5. /\ DOMAIN Saved(d) = DOMAIN fields \union {d.id} /\ Saved(d)[d.id] = row
      /\ \A f \in DOMAIN fields \ {d.id} : Saved(d)[f] = fields[f]
  <2> HIDE DEF row
  <2> DEFINE g == [f \in {d.id} |-> row]
  <2>1. DOMAIN g = {d.id} /\ g[d.id] = row /\ Saved(d) = Merge(fields, g)  BY <1>4
  <2> HIDE DEF g
  <2> QED  BY <2>1, MergeRows, SMTT(60)
<1>6. CASE d.was = {}
  <2>1. row = [d.new EXCEPT !.at = second]  BY <1>6
  <2>2. row \in FieldRow /\ row.at = second  BY <2>1, <1>2, <1>3 DEF FieldRow
  <2> HIDE DEF row
  <2> QED  BY <1>5, <1>6, <2>1, <2>2
<1>7. CASE d.was # {}
  <2>1. PICK w \in FieldRow : d.was = {w}  BY <1>1, <1>7
  <2>2. was = w  BY <2>1
  <2>3. d.id \in DOMAIN fields /\ fields[d.id] \in FieldRow
    BY <1>7 DEF ConfigTypes, ConfigTypeOK
  <2> DEFINE now_ == fields[d.id]
  <2>4. row = [k \in DOMAIN now_ |->
                 IF k = "at" THEN second
                 ELSE IF k # "base" /\ d.new[k] # w[k] THEN d.new[k] ELSE now_[k]]
    BY <1>7, <2>2 DEF Updated
  <2>5. now_ \in FieldRow  BY <2>3
  <2> HIDE DEF row, now_
  <2>6. row \in FieldRow /\ row.at = second
    BY <2>1, <2>4, <2>5, <1>2, <1>3 DEF FieldRow
  <2>7. d.was = {now_} => row.type = d.new.type /\ row.adv = d.new.adv /\ row.depend = d.new.depend
    BY <2>1, <2>4, <2>5, <1>2 DEF FieldRow
  <2> QED  BY <1>5, <1>7, <2>6, <2>7 DEF now_
<1> QED  BY <1>6, <1>7

(* What a commit does to the tables, each of which keeps its type.          *)
Writes == FieldsWritten /\ RulesWritten /\ TablesTyped' /\ Committed

(* A table of files gives each of them a type.                              *)
LEMMA FilesTyped ==
  ASSUME NEW fs, NEW T
  PROVE  fs \in UNION {[S -> T] : S \in SUBSET FileIds} <=>
           /\ DOMAIN fs \subseteq FileIds /\ fs = [x \in DOMAIN fs |-> fs[x]]
           /\ \A x \in DOMAIN fs : fs[x] \in T
<1>1. ASSUME NEW S \in SUBSET FileIds, fs \in [S -> T]
      PROVE  /\ DOMAIN fs \subseteq FileIds /\ fs = [x \in DOMAIN fs |-> fs[x]]
             /\ \A x \in DOMAIN fs : fs[x] \in T
  BY <1>1
<1>2. ASSUME DOMAIN fs \subseteq FileIds, fs = [x \in DOMAIN fs |-> fs[x]],
             \A x \in DOMAIN fs : fs[x] \in T
      PROVE  fs \in UNION {[S -> T] : S \in SUBSET FileIds}
  <2>1. fs \in [DOMAIN fs -> T]  BY <1>2
  <2> QED  BY <1>2, <2>1
<1> QED  BY <1>1, <1>2

(* What ConfigTypes says of the tables.                                     *)
LEMMA TablesAre ==
  ASSUME ConfigTypes
  PROVE  /\ TablesTyped
         /\ \A f \in DOMAIN fields : fields[f] \in FieldRow
         /\ \A r \in DOMAIN rules : rules[r] \in RuleRow
         /\ DOMAIN fields \subseteq FieldIds /\ DOMAIN rules \subseteq RuleIds
         /\ second \in 0..MaxNow /\ second \in 1..MaxNow /\ MaxNow \in Nat
BY ConfigBounds DEF ConfigTypes, ConfigTypeOK, TablesTyped

(* A request that writes neither types nor files. *)
LEMMA OtherTables ==
  ASSUME ConfigTypes, types' = types, files' = files,
         params' \subseteq TypeIds \X Keys, projects' \subseteq Projects
  PROVE  TablesTyped'
BY TablesAre DEF TablesTyped

(* A field is saved or deleted.                                             *)
LEMMA FieldRequests ==
  ASSUME ConfigTypes, NEW e \in Editors, CommitSave(e) \/ CommitDelete(e)
  PROVE  Writes
<1>0. /\ TablesTyped /\ DOMAIN fields \subseteq FieldIds
      /\ \A f \in DOMAIN fields : fields[f] \in FieldRow
  BY TablesAre
<1>1. PICK d \in draft[e] :
        /\ \/ /\ d.op = "save"
              /\ (d.id \in DOMAIN fields) <=> (d.was # {})
              /\ fields' = Saved(d) /\ Commit({e}, {}, Gap(d, Saved(d)))
           \/ /\ d.op = "delete" /\ fields' = Drop(fields, {d.id})
              /\ Commit({e}, d.told, Gap(d, Drop(fields, {d.id})))
        /\ UNCHANGED <<types, rules, params, files, projects>>
  BY DEF CommitSave, CommitDelete
<1>2. d.id \in FieldIds /\ d.told \in SUBSET (FieldIds \X FieldIds)
  BY DEF ConfigTypes, DraftTyped, SaveDraft, DeleteDraft
<1>3. RulesWritten /\ TablesTyped'
  BY <1>0, <1>1, NothingWritten, OtherTables DEF TablesTyped
<1>4. \A fs : DOMAIN fs \subseteq FieldIds => Gap(d, fs) \in SUBSET (FieldIds \X FieldIds)
  BY DEF Gap, Unsound
<1>5. CASE d.op = "save"
  <2>1. /\ fields' = Saved(d) /\ Commit({e}, {}, Gap(d, Saved(d)))
        /\ (d.id \in DOMAIN fields) <=> (d.was # {})
    BY <1>1, <1>5
  <2>2. /\ DOMAIN Saved(d) = DOMAIN fields \union {d.id}
        /\ Saved(d)[d.id] \in FieldRow /\ Saved(d)[d.id].at = second
        /\ \A f \in DOMAIN fields \ {d.id} : Saved(d)[f] = fields[f]
    BY <1>5, <2>1, SavedRow
  <2>3. FieldsWritten  BY <1>0, <1>2, <2>1, <2>2 DEF FieldsWritten
  <2>4. Gap(d, Saved(d)) \in SUBSET (FieldIds \X FieldIds)  BY <1>0, <1>2, <1>4, <2>2
  <2>5. {e} \in SUBSET Editors /\ {} \in SUBSET (FieldIds \X FieldIds)  OBVIOUS
  <2>6. Committed  BY <2>1, <2>4, <2>5 DEF Committed
  <2> QED  BY <1>3, <2>3, <2>6 DEF Writes
<1>6. CASE d.op = "delete"
  <2>1. fields' = Drop(fields, {d.id}) /\ Commit({e}, d.told, Gap(d, Drop(fields, {d.id})))
    BY <1>1, <1>6
  <2>2. /\ DOMAIN fields' = DOMAIN fields \ {d.id}
        /\ \A f \in DOMAIN fields \ {d.id} : fields'[f] = fields[f]
    BY <2>1 DEF Drop, Restrict
  <2>3. FieldsWritten  BY <1>0, <2>2 DEF FieldsWritten
  <2>4. Gap(d, Drop(fields, {d.id})) \in SUBSET (FieldIds \X FieldIds)
    BY <1>0, <1>4, <2>1, <2>2
  <2>5. {e} \in SUBSET Editors  OBVIOUS
  <2>6. Committed  BY <1>2, <2>1, <2>4, <2>5 DEF Committed
  <2> QED  BY <1>3, <2>3, <2>6 DEF Writes
<1> QED  BY <1>1, <1>5, <1>6

(* A rule or a parameter is saved or deleted.                               *)
LEMMA RuleAndParamRequests ==
  ASSUME ConfigTypes, SaveRule \/ DeleteRule \/ SaveParam \/ DeleteParam
  PROVE  Writes
<1>0. /\ TablesTyped /\ DOMAIN rules \subseteq RuleIds /\ second \in 0..MaxNow
      /\ \A r \in DOMAIN rules : rules[r] \in RuleRow
  BY TablesAre
<1>1. Edit /\ fields' = fields /\ types' = types /\ files' = files /\ projects' = projects
  BY DEF SaveRule, DeleteRule, SaveParam, DeleteParam
<1>2. Committed /\ FieldsWritten  BY <1>1, EditCommits, NothingWritten
<1>3. CASE SaveRule
  <2>1. PICK t \in TypeIds, r \in RuleIds, n \in Names :
          rules' = Merge(rules, [x \in {r} |->
            [type |-> t, name |-> n, at |-> second,
             base |-> IF r \in DOMAIN rules THEN rules[r].base ELSE r]])
    BY <1>3 DEF SaveRule
  <2> DEFINE row == [type |-> t, name |-> n, at |-> second,
                     base |-> IF r \in DOMAIN rules THEN rules[r].base ELSE r]
             g == [x \in {r} |-> row]
  <2>2. row \in RuleRow /\ row.at = second  BY <1>0 DEF RuleRow
  <2> HIDE DEF row
  <2>3. DOMAIN g = {r} /\ g[r] = row /\ rules' = Merge(rules, g)  BY <2>1 DEF row
  <2> HIDE DEF g
  <2>4. /\ DOMAIN rules' = DOMAIN rules \union {r} /\ rules'[r] = row
        /\ \A x \in DOMAIN rules \ {r} : rules'[x] = rules[x]
    BY <2>3 DEF Merge
  <2>5. RulesWritten  BY <1>0, <2>2, <2>4 DEF RulesWritten
  <2>6. params' = params  BY <1>3 DEF SaveRule
  <2> QED  BY <1>0, <1>1, <1>2, <2>5, <2>6, OtherTables DEF Writes, TablesTyped
<1>4. CASE DeleteRule
  <2>1. PICK r \in DOMAIN rules : rules' = Drop(rules, {r})  BY <1>4 DEF DeleteRule
  <2>2. /\ DOMAIN rules' = DOMAIN rules \ {r}
        /\ \A x \in DOMAIN rules \ {r} : rules'[x] = rules[x]
    BY <2>1 DEF Drop, Restrict
  <2>3. RulesWritten  BY <1>0, <2>2 DEF RulesWritten
  <2>4. params' = params  BY <1>4 DEF DeleteRule
  <2> QED  BY <1>0, <1>1, <1>2, <2>4, <2>3, OtherTables DEF Writes, TablesTyped
<1>5. CASE SaveParam \/ DeleteParam
  <2>1. rules' = rules  BY <1>5 DEF SaveParam, DeleteParam
  <2>2. params' \subseteq TypeIds \X Keys
    BY <1>0, <1>5 DEF SaveParam, DeleteParam, TablesTyped
  <2>3. RulesWritten  BY <2>1, NothingWritten
  <2> QED  BY <1>0, <1>1, <1>2, <2>2, <2>3, OtherTables DEF Writes, TablesTyped
<1> QED  BY <1>3, <1>4, <1>5

(* The tables are typed after a step if what it writes is. *)
LEMMA TablesNext ==
  ASSUME DOMAIN types' \subseteq TypeIds, Default \in DOMAIN types',
         \A t \in DOMAIN types' : types'[t] \in TypeRow,
         types'[Default].project = None, types'[Default].parent = None,
         params' \subseteq TypeIds \X Keys, projects' \subseteq Projects,
         DOMAIN files' \subseteq FileIds, files' = [x \in DOMAIN files' |-> files'[x]],
         \A x \in DOMAIN files' : files'[x] \in DOMAIN types'
  PROVE  TablesTyped'
<1>1. files' \in UNION {[S -> DOMAIN types'] : S \in SUBSET FileIds}
  <2>1. files' \in [DOMAIN files' -> DOMAIN types']  OBVIOUS
  <2> QED  BY <2>1
<1> QED  BY <1>1, Zenon DEF TablesTyped

(* What TablesTyped says of the files.                                      *)
LEMMA FilesAre ==
  ASSUME TablesTyped
  PROVE  /\ DOMAIN files \subseteq FileIds /\ files = [x \in DOMAIN files |-> files[x]]
         /\ \A x \in DOMAIN files : files[x] \in DOMAIN types
BY FilesTyped DEF TablesTyped

(* Requests about types and files that leave fields and rules alone. *)
LEMMA TypeRequests ==
  ASSUME ConfigTypes, CreateType \/ MarkTemplate \/ Upload
  PROVE  Writes
<1>0. TablesTyped  BY TablesAre
<1>1. /\ DOMAIN files \subseteq FileIds /\ files = [x \in DOMAIN files |-> files[x]]
      /\ \A x \in DOMAIN files : files[x] \in DOMAIN types
  BY <1>0, FilesAre
<1>2. Edit /\ fields' = fields /\ rules' = rules /\ params' = params /\ projects' = projects
  BY DEF CreateType, MarkTemplate, Upload
<1>3. Committed /\ FieldsWritten /\ RulesWritten  BY <1>2, EditCommits, NothingWritten
<1>4. /\ DOMAIN types \subseteq TypeIds /\ Default \in DOMAIN types
      /\ \A t \in DOMAIN types : types[t] \in TypeRow
      /\ types[Default].project = None /\ types[Default].parent = None
      /\ params \subseteq TypeIds \X Keys /\ projects \subseteq Projects
  BY <1>0 DEF TablesTyped
<1>5. CASE CreateType
  <2>1. PICK t \in TypeIds \ DOMAIN types, p \in Projects \union {None} :
          types' = Merge(types, [u \in {t} |->
            [template |-> FALSE, parent |-> None, project |-> p]])
    BY <1>5 DEF CreateType
  <2> DEFINE row == [template |-> FALSE, parent |-> None, project |-> p]
  <2>2. row \in TypeRow  BY DEF TypeRow
  <2>3. types' = Merge(types, [u \in {t} |-> row])  BY <2>1
  <2> HIDE DEF row
  <2>4. /\ DOMAIN types' = DOMAIN types \union {t} /\ types'[t] = row
        /\ \A u \in DOMAIN types \ {t} : types'[u] = types[u]
    BY <2>3 DEF Merge
  <2>5. files' = files /\ Default # t  BY <1>4, <1>5 DEF CreateType
  <2>6. \A u \in DOMAIN types' : types'[u] \in TypeRow  BY <1>4, <2>2, <2>4
  <2>7. TablesTyped'  BY <1>1, <1>2, <1>4, <2>4, <2>5, <2>6, TablesNext
  <2> QED  BY <1>3, <2>7 DEF Writes
<1>6. CASE MarkTemplate
  <2>1. PICK t \in DOMAIN types \ {Default} : types' = [types EXCEPT ![t].template = ~ @]
    BY <1>6 DEF MarkTemplate
  <2>2. DOMAIN types' = DOMAIN types /\ \A u \in DOMAIN types \ {t} : types'[u] = types[u]
    BY <2>1
  <2>3. types'[t] = [types[t] EXCEPT !.template = ~ @]  BY <2>1
  <2>4. types'[t] \in TypeRow
    <3>1. types[t] \in TypeRow  BY <1>4
    <3> QED  BY <3>1, <2>3 DEF TypeRow
  <2>5. files' = files  BY <1>6 DEF MarkTemplate
  <2>6. \A u \in DOMAIN types' : types'[u] \in TypeRow  BY <1>4, <2>2, <2>4
  <2>7. TablesTyped'  BY <1>1, <1>2, <1>4, <2>1, <2>2, <2>5, <2>6, TablesNext
  <2> QED  BY <1>3, <2>7 DEF Writes
<1>7. CASE Upload
  <2>1. PICK f \in FileIds \ DOMAIN files, t \in DOMAIN types :
          files' = Merge(files, [x \in {f} |-> t])
    BY <1>7 DEF Upload
  <2>2. /\ DOMAIN files' = DOMAIN files \union {f} /\ files'[f] = t
        /\ \A g \in DOMAIN files \ {f} : files'[g] = files[g]
        /\ files' = [x \in DOMAIN files' |-> files'[x]]
    BY <2>1 DEF Merge
  <2>3. types' = types  BY <1>7 DEF Upload
  <2>4. \A g \in DOMAIN files' : files'[g] \in DOMAIN types'  BY <1>1, <2>2, <2>3
  <2>5. DOMAIN files' \subseteq FileIds  BY <1>1, <2>2
  <2>6. TablesTyped'  BY <1>2, <1>4, <2>2, <2>3, <2>4, <2>5, TablesNext
  <2> QED  BY <1>3, <2>6 DEF Writes
<1> QED  BY <1>5, <1>6, <1>7

(* A project is saved or deleted, or a type assigned to it.                 *)
LEMMA ProjectRequests ==
  ASSUME ConfigTypes, SaveProject \/ DeleteProject \/ AssignProject
  PROVE  Writes
<1>0. TablesTyped  BY TablesAre
<1>1. /\ DOMAIN files \subseteq FileIds /\ files = [x \in DOMAIN files |-> files[x]]
      /\ \A x \in DOMAIN files : files[x] \in DOMAIN types
  BY <1>0, FilesAre
<1>2. /\ Edit /\ fields' = fields /\ rules' = rules /\ params' = params /\ files' = files
      /\ projects' \subseteq Projects
  BY <1>0 DEF SaveProject, DeleteProject, AssignProject, TablesTyped
<1>3. Committed /\ FieldsWritten /\ RulesWritten  BY <1>2, EditCommits, NothingWritten
<1>4. /\ DOMAIN types \subseteq TypeIds /\ Default \in DOMAIN types
      /\ \A t \in DOMAIN types : types[t] \in TypeRow
      /\ types[Default].project = None /\ types[Default].parent = None
      /\ params \subseteq TypeIds \X Keys /\ projects \subseteq Projects
  BY <1>0 DEF TablesTyped
<1>5. CASE SaveProject
  <2>1. types' = types  BY <1>5 DEF SaveProject
  <2> QED  BY <1>2, <1>3, <1>4, <1>1, <2>1, TablesNext DEF Writes
<1>6. CASE DeleteProject
  <2>1. PICK p \in projects :
          types' = [t \in DOMAIN types |->
            [types[t] EXCEPT !.project = IF @ = p THEN None ELSE @]]
    BY <1>6 DEF DeleteProject
  <2>2. \A t \in DOMAIN types :
          types'[t] = [types[t] EXCEPT !.project = IF types[t].project = p THEN None ELSE types[t].project]
    BY <2>1
  <2>3. DOMAIN types' = DOMAIN types  BY <2>1
  <2>4. ASSUME NEW t \in DOMAIN types
        PROVE  types'[t] \in TypeRow /\ types'[t].parent = types[t].parent
               /\ (types[t].project = None => types'[t].project = None)
    <3>1. types[t] \in TypeRow  BY <1>4
    <3> QED  BY <3>1, <2>2 DEF TypeRow
  <2>5. TablesTyped'  BY <1>1, <1>2, <1>4, <2>3, <2>4, TablesNext
  <2> QED  BY <1>3, <2>5 DEF Writes
<1>7. CASE AssignProject
  <2>1. PICK p \in projects \union {None}, roots \in SUBSET DOMAIN types :
          types' = [t \in DOMAIN types |->
            IF t \in LineageClosure(roots) \ {Default}
              THEN [types[t] EXCEPT !.project = p] ELSE types[t]]
    BY <1>7 DEF AssignProject
  <2>2. DOMAIN types' = DOMAIN types /\ types'[Default] = types[Default]  BY <1>4, <2>1
  <2>3. ASSUME NEW t \in DOMAIN types PROVE types'[t] \in TypeRow
    <3>1. types[t] \in TypeRow /\ p \in Projects \union {None}  BY <1>4
    <3>2. types'[t] = [types[t] EXCEPT !.project = p] \/ types'[t] = types[t]  BY <2>1
    <3> QED  BY <3>1, <3>2 DEF TypeRow
  <2>4. TablesTyped'  BY <1>1, <1>2, <1>4, <2>2, <2>3, TablesNext
  <2> QED  BY <1>3, <2>4 DEF Writes
<1> QED  BY <1>5, <1>6, <1>7

(* A type that is renamed takes its files, fields and rules along. *)
LEMMA RenameWrites ==
  ASSUME ConfigTypes, RenameType
  PROVE  Writes
<1>0. /\ TablesTyped /\ second \in 0..MaxNow
      /\ \A f \in DOMAIN fields : fields[f] \in FieldRow
      /\ \A r \in DOMAIN rules : rules[r] \in RuleRow
      /\ DOMAIN fields \subseteq FieldIds /\ DOMAIN rules \subseteq RuleIds
  BY TablesAre
<1>1. /\ DOMAIN files \subseteq FileIds /\ files = [x \in DOMAIN files |-> files[x]]
      /\ \A x \in DOMAIN files : files[x] \in DOMAIN types
  BY <1>0, FilesAre
<1>2. /\ DOMAIN types \subseteq TypeIds /\ Default \in DOMAIN types
      /\ \A t \in DOMAIN types : types[t] \in TypeRow
      /\ types[Default].project = None /\ types[Default].parent = None
      /\ params \subseteq TypeIds \X Keys /\ projects \subseteq Projects
  BY <1>0 DEF TablesTyped
<1>3. PICK t \in DOMAIN types \ {Default}, u \in TypeIds \ DOMAIN types :
       /\ types' = [x \in (DOMAIN types \ {t}) \union {u} |->
            LET r == types[IF x = u THEN t ELSE x]
            IN  [r EXCEPT !.parent = IF @ = t THEN u ELSE @]]
       /\ files' = [f \in DOMAIN files |-> IF files[f] = t THEN u ELSE files[f]]
       /\ fields' = [f \in DOMAIN fields |->
            IF f \in FieldsOf(t) THEN [fields[f] EXCEPT !.type = u, !.at = second] ELSE fields[f]]
       /\ rules' = [r \in DOMAIN rules |->
            IF r \in RulesOf(t) THEN [rules[r] EXCEPT !.type = u, !.at = second] ELSE rules[r]]
  BY DEF RenameType
<1>4. Committed /\ params' = params /\ projects' = projects  BY EditCommits DEF RenameType
<1>5. FieldsWritten
  <2> SUFFICES ASSUME NEW f \in DOMAIN fields'
               PROVE  \/ fields'[f] = fields[f]
                      \/ fields'[f] \in FieldRow /\ fields'[f].at = second
    BY <1>0, <1>3 DEF FieldsWritten
  <2>1. f \in DOMAIN fields /\ fields[f] \in FieldRow  BY <1>0, <1>3
  <2>2. \/ fields'[f] = [fields[f] EXCEPT !.type = u, !.at = second]
        \/ fields'[f] = fields[f]
    BY <1>3
  <2> QED  BY <1>0, <2>1, <2>2 DEF FieldRow
<1>6. RulesWritten
  <2> SUFFICES ASSUME NEW r \in DOMAIN rules'
               PROVE  \/ rules'[r] = rules[r]
                      \/ rules'[r] \in RuleRow /\ rules'[r].at = second
    BY <1>0, <1>3 DEF RulesWritten
  <2>1. r \in DOMAIN rules /\ rules[r] \in RuleRow  BY <1>0, <1>3
  <2>2. \/ rules'[r] = [rules[r] EXCEPT !.type = u, !.at = second]
        \/ rules'[r] = rules[r]
    BY <1>3
  <2> QED  BY <1>0, <2>1, <2>2 DEF RuleRow
<1>7. TablesTyped'
  <2>1. DOMAIN types' = (DOMAIN types \ {t}) \union {u}  BY <1>3
  <2>2. ASSUME NEW w \in DOMAIN types'
        PROVE  \E x \in DOMAIN types :
                 /\ w # u => x = w
                 /\ types'[w] = [types[x] EXCEPT !.parent =
                                   IF types[x].parent = t THEN u ELSE types[x].parent]
    BY <1>3, <2>1
  <2>3. ASSUME NEW x \in DOMAIN types
        PROVE  [types[x] EXCEPT !.parent = IF types[x].parent = t THEN u ELSE types[x].parent]
                 \in TypeRow
    <3>1. types[x] \in TypeRow  BY <1>2
    <3> QED  BY <3>1 DEF TypeRow
  <2>4. \A w \in DOMAIN types' : types'[w] \in TypeRow  BY <2>2, <2>3
  <2>5. Default \in DOMAIN types' /\ Default # u  BY <1>2, <2>1
  <2>6. types'[Default].project = None /\ types'[Default].parent = None
    <3>1. types'[Default] = [types[Default] EXCEPT !.parent =
            IF types[Default].parent = t THEN u ELSE types[Default].parent]
      BY <2>2, <2>5
    <3>2. types[Default].parent # t  BY <1>2, NoneIsNoType
    <3>3. types[Default] \in TypeRow  BY <1>2
    <3> QED  BY <1>2, <3>1, <3>2, <3>3 DEF TypeRow
  <2>7. DOMAIN files' = DOMAIN files /\ files' = [f \in DOMAIN files' |-> files'[f]]  BY <1>3
  <2>8. \A f \in DOMAIN files' : files'[f] \in DOMAIN types'  BY <1>1, <1>3, <2>1
  <2> QED  BY <1>1, <1>2, <1>4, <2>1, <2>4, <2>5, <2>6, <2>7, <2>8, TablesNext
<1> QED  BY <1>4, <1>5, <1>6, <1>7 DEF Writes

(* Types that are deleted take their files, fields, rules and parameters    *)
(* along.                                                                   *)
LEMMA DeleteWrites ==
  ASSUME ConfigTypes, DeleteTypes
  PROVE  Writes
<1>0. /\ TablesTyped
      /\ DOMAIN fields \subseteq FieldIds /\ DOMAIN rules \subseteq RuleIds
  BY TablesAre
<1>1. /\ DOMAIN files \subseteq FileIds /\ files = [x \in DOMAIN files |-> files[x]]
      /\ \A x \in DOMAIN files : files[x] \in DOMAIN types
  BY <1>0, FilesAre
<1>2. /\ DOMAIN types \subseteq TypeIds /\ Default \in DOMAIN types
      /\ \A t \in DOMAIN types : types[t] \in TypeRow
      /\ types[Default].project = None /\ types[Default].parent = None
      /\ params \subseteq TypeIds \X Keys /\ projects \subseteq Projects
  BY <1>0 DEF TablesTyped
<1>3. PICK S \in SUBSET {t \in DOMAIN types \ {Default} : ~ types[t].template} :
       /\ types' = Drop(types, S)
       /\ fields' = Drop(fields, UNION {FieldsOf(t) : t \in S})
       /\ rules' = Drop(rules, UNION {RulesOf(t) : t \in S})
       /\ files' = Drop(files, {f \in DOMAIN files : files[f] \in S})
       /\ params' = {p \in params : p[1] \notin S}
  BY DEF DeleteTypes
<1>4. Committed /\ projects' = projects  BY EditCommits DEF DeleteTypes
<1>5. FieldsWritten  BY <1>0, <1>3 DEF FieldsWritten, Drop, Restrict
<1>6. RulesWritten  BY <1>0, <1>3 DEF RulesWritten, Drop, Restrict
<1>7. DOMAIN types' = DOMAIN types \ S /\ \A t \in DOMAIN types \ S : types'[t] = types[t]
  BY <1>3 DEF Drop, Restrict
<1>8. /\ DOMAIN files' = {f \in DOMAIN files : files[f] \notin S}
      /\ \A f \in DOMAIN files' : files'[f] = files[f]
      /\ files' = [f \in DOMAIN files' |-> files'[f]]
  BY <1>3 DEF Drop, Restrict
<1>9. Default \notin S  OBVIOUS
<1>10. \A f \in DOMAIN files' : files'[f] \in DOMAIN types'  BY <1>1, <1>7, <1>8
<1>11. TablesTyped'
  BY <1>1, <1>2, <1>3, <1>4, <1>7, <1>8, <1>9, <1>10, TablesNext
<1> QED  BY <1>4, <1>5, <1>6, <1>11 DEF Writes

(* Rows that are added to a table are written. *)
LEMMA FieldsAdded ==
  ASSUME DOMAIN fields \subseteq FieldIds, NEW g, DOMAIN g \subseteq FieldIds,
         \A x \in DOMAIN g : g[x] \in FieldRow /\ g[x].at = second,
         fields' = Merge(fields, g)
  PROVE  FieldsWritten
BY DEF FieldsWritten, Merge

(* And so do rules that are added.                                          *)
LEMMA RulesAdded ==
  ASSUME DOMAIN rules \subseteq RuleIds, NEW g, DOMAIN g \subseteq RuleIds,
         \A x \in DOMAIN g : g[x] \in RuleRow /\ g[x].at = second,
         rules' = Merge(rules, g)
  PROVE  RulesWritten
BY DEF RulesWritten, Merge

(* What a copy reports, and what it inherits, are pairs of fields. *)
LEMMA ReportsTyped ==
  ASSUME NEW source, \A f \in DOMAIN source : source[f] \in FieldRow,
         NEW m, DOMAIN m \subseteq DOMAIN source, \A f \in DOMAIN m : m[f] \in FieldIds,
         NEW map, \A f \in DOMAIN map : map[f] \in FieldIds
  PROVE  /\ Missing(source, m, map) \in SUBSET (FieldIds \X FieldIds)
         /\ Inherited(source, m, map) \in SUBSET (FieldIds \X FieldIds)
<1>1. \A f \in DOMAIN m : source[f].uses \subseteq FieldIds /\ source[f].depend \subseteq FieldIds
  BY DEF FieldRow
<1>2. Missing(source, m, map) \in SUBSET (FieldIds \X FieldIds)  BY <1>1 DEF Missing
<1>3. Inherited(source, m, map) \in SUBSET (FieldIds \X FieldIds)
  <2> SUFFICES ASSUME NEW f \in DOMAIN m, NEW S,
                      S \subseteq source[f].depend \intersect DOMAIN map
               PROVE  {m[f]} \X ({map[r] : r \in S} \union (source[f].depend \ source[f].uses))
                        \subseteq FieldIds \X FieldIds
    BY DEF Inherited
  <2>1. {map[r] : r \in S} \subseteq FieldIds  OBVIOUS
  <2> QED  BY <1>1, <2>1
<1> QED  BY <1>2, <1>3

(* What is copied was asked for.                                            *)
LEMMA ChosenAsked ==
  ASSUME NEW rows, NEW t, NEW asked, NEW skip, NEW S \in Chosen(rows, t, asked, skip)
  PROVE  S \subseteq asked
BY DEF Chosen

(* A copy writes new rows, and its target becomes a child of its source. *)
LEMMA CopyWrites ==
  ASSUME ConfigTypes, NEW t \in DOMAIN types, NEW s \in DOMAIN types,
         NEW asked \in SUBSET FieldsOf(s), NEW skip \in BOOLEAN, CopyFrom(t, s, asked, skip)
  PROVE  Writes
<1>0. /\ TablesTyped /\ second \in 0..MaxNow
      /\ \A f \in DOMAIN fields : fields[f] \in FieldRow
      /\ \A r \in DOMAIN rules : rules[r] \in RuleRow
      /\ DOMAIN fields \subseteq FieldIds /\ DOMAIN rules \subseteq RuleIds
  BY TablesAre
<1>1. /\ DOMAIN files \subseteq FileIds /\ files = [x \in DOMAIN files |-> files[x]]
      /\ \A x \in DOMAIN files : files[x] \in DOMAIN types
  BY <1>0, FilesAre
<1>2. /\ DOMAIN types \subseteq TypeIds /\ Default \in DOMAIN types
      /\ \A u \in DOMAIN types : types[u] \in TypeRow
      /\ types[Default].project = None /\ types[Default].parent = None
      /\ params \subseteq TypeIds \X Keys /\ projects \subseteq Projects
  BY <1>0 DEF TablesTyped
<1>30. PICK S \in Chosen(fields, t, asked, skip), R \in Chosen(rules, t, RulesOf(s), skip) :
       \E m \in Fresh(S, DOMAIN fields, FieldIds), n \in Fresh(R, DOMAIN rules, RuleIds) :
         /\ fields' = Merge(fields, [g \in {m[f] : f \in S} |->
              [Remapped(fields[AntiFunction(m)[g]], m) EXCEPT !.type = t, !.at = second]])
         /\ rules' = Merge(rules, [q \in {n[r] : r \in R} |->
              [rules[AntiFunction(n)[q]] EXCEPT !.type = t, !.at = second]])
         /\ Commit({}, Missing(fields, m, m), Inherited(fields, m, m))
  BY Zenon DEF CopyFrom
<1>3. PICK m \in Fresh(S, DOMAIN fields, FieldIds), n \in Fresh(R, DOMAIN rules, RuleIds) :
       /\ fields' = Merge(fields, [g \in {m[f] : f \in S} |->
            [Remapped(fields[AntiFunction(m)[g]], m) EXCEPT !.type = t, !.at = second]])
       /\ rules' = Merge(rules, [q \in {n[r] : r \in R} |->
            [rules[AntiFunction(n)[q]] EXCEPT !.type = t, !.at = second]])
       /\ Commit({}, Missing(fields, m, m), Inherited(fields, m, m))
  BY <1>30, Zenon
<1>4. S \subseteq DOMAIN fields /\ R \subseteq DOMAIN rules
  BY <1>3, ChosenAsked DEF FieldsOf, RulesOf
<1>5. /\ m \in [S -> FieldIds \ DOMAIN fields] /\ IsInjective(m)
      /\ n \in [R -> RuleIds \ DOMAIN rules] /\ IsInjective(n)
  BY <1>3 DEF Fresh
<1>6. FieldsWritten
  <2> DEFINE g == [x \in {m[f] : f \in S} |->
               [Remapped(fields[AntiFunction(m)[x]], m) EXCEPT !.type = t, !.at = second]]
  <2>1. DOMAIN g \subseteq FieldIds  BY <1>5
  <2>2. ASSUME NEW x \in DOMAIN g PROVE g[x] \in FieldRow /\ g[x].at = second
    <3>1. AntiFunction(m)[x] \in S  BY <1>5, <2>2, BackToSource
    <3>2. fields[AntiFunction(m)[x]] \in FieldRow  BY <1>0, <1>4, <3>1
    <3>3. Remapped(fields[AntiFunction(m)[x]], m) \in FieldRow
      BY <1>5, <3>2, RemappedRow
    <3>4. g[x] = [Remapped(fields[AntiFunction(m)[x]], m) EXCEPT !.type = t, !.at = second]
      BY <2>2
    <3> HIDE DEF g
    <3> QED  BY <1>0, <1>2, <3>3, <3>4 DEF FieldRow
  <2>3. fields' = Merge(fields, g)  BY <1>3
  <2> HIDE DEF g
  <2> QED  BY <1>0, <2>1, <2>2, <2>3, FieldsAdded
<1>7. RulesWritten
  <2> DEFINE g == [q \in {n[r] : r \in R} |->
               [rules[AntiFunction(n)[q]] EXCEPT !.type = t, !.at = second]]
  <2>1. DOMAIN g \subseteq RuleIds  BY <1>5
  <2>2. ASSUME NEW q \in DOMAIN g PROVE g[q] \in RuleRow /\ g[q].at = second
    <3>1. AntiFunction(n)[q] \in R  BY <1>5, <2>2, BackToSource
    <3>2. rules[AntiFunction(n)[q]] \in RuleRow  BY <1>0, <1>4, <3>1
    <3>3. g[q] = [rules[AntiFunction(n)[q]] EXCEPT !.type = t, !.at = second]  BY <2>2
    <3> HIDE DEF g
    <3> QED  BY <1>0, <1>2, <3>2, <3>3 DEF RuleRow
  <2>3. rules' = Merge(rules, g)  BY <1>3
  <2> HIDE DEF g
  <2> QED  BY <1>0, <2>1, <2>2, <2>3, RulesAdded
<1>8. Committed
  <2>1. DOMAIN m = S /\ \A f \in DOMAIN m : m[f] \in FieldIds  BY <1>5
  <2>2. /\ Missing(fields, m, m) \in SUBSET (FieldIds \X FieldIds)
        /\ Inherited(fields, m, m) \in SUBSET (FieldIds \X FieldIds)
    BY <1>0, <1>4, <2>1, ReportsTyped
  <2> QED  BY <1>3, <2>2 DEF Committed
<1>9. /\ params' = params \union ({t} \X KeysOf(s)) /\ files' = files /\ projects' = projects
      /\ types' = IF t = Default THEN types
                  ELSE [types EXCEPT ![t].parent = s,
                          ![t].project = IF @ = None THEN types[s].project ELSE @]
  BY DEF CopyFrom
<1>10. params' \subseteq TypeIds \X Keys  BY <1>2, <1>9 DEF KeysOf
<1>11. TablesTyped'
  <2>1. CASE t = Default
    <3>1. types' = types  BY <1>9, <2>1
    <3> QED  BY <1>1, <1>2, <1>9, <1>10, <3>1, TablesNext
  <2>2. CASE t # Default
    <3>1. types' = [types EXCEPT ![t].parent = s,
                      ![t].project = IF @ = None THEN types[s].project ELSE @]
      BY <1>9, <2>2
    <3>2. DOMAIN types' = DOMAIN types /\ \A u \in DOMAIN types \ {t} : types'[u] = types[u]
      BY <3>1
    <3>3. types[t] \in TypeRow /\ types[s] \in TypeRow /\ s \in TypeIds  BY <1>2
    <3>4. types'[t] = [types[t] EXCEPT !.parent = s,
                         !.project = IF types[t].project = None THEN types[s].project ELSE types[t].project]
      BY <3>1, <3>3 DEF TypeRow
    <3>5. types'[t] \in TypeRow  BY <3>3, <3>4 DEF TypeRow
    <3>6. \A u \in DOMAIN types' : types'[u] \in TypeRow  BY <1>2, <3>2, <3>5
    <3> QED  BY <1>1, <1>2, <1>9, <1>10, <2>2, <3>2, <3>6, TablesNext
  <2> QED  BY <2>1, <2>2
<1> QED  BY <1>6, <1>7, <1>8, <1>11 DEF Writes

(* The ids that an import leads to are of fields. *)
LEMMA MergedIds ==
  ASSUME NEW m, \A f \in DOMAIN m : m[f] \in FieldIds,
         NEW same, \A f \in DOMAIN same : same[f] \in FieldIds
  PROVE  \A f \in DOMAIN Merge(m, same) : Merge(m, same)[f] \in FieldIds
BY DEF Merge

(* An import writes new rows, and its target if that is not there. *)
LEMMA ImportWrites ==
  ASSUME ConfigTypes, NEW p \in payload, NEW t \in TypeIds, NEW skip \in BOOLEAN,
         ImportInto(p, t, skip)
  PROVE  Writes
<1>0. /\ TablesTyped /\ second \in 0..MaxNow
      /\ DOMAIN fields \subseteq FieldIds /\ DOMAIN rules \subseteq RuleIds
  BY TablesAre
<1>1. /\ DOMAIN files \subseteq FileIds /\ files = [x \in DOMAIN files |-> files[x]]
      /\ \A x \in DOMAIN files : files[x] \in DOMAIN types
  BY <1>0, FilesAre
<1>2. /\ DOMAIN types \subseteq TypeIds /\ Default \in DOMAIN types
      /\ \A u \in DOMAIN types : types[u] \in TypeRow
      /\ types[Default].project = None /\ types[Default].parent = None
      /\ params \subseteq TypeIds \X Keys /\ projects \subseteq Projects
  BY <1>0 DEF TablesTyped
<1>3. /\ DOMAIN p.fields \subseteq FieldIds /\ \A f \in DOMAIN p.fields : p.fields[f] \in FieldRow
      /\ DOMAIN p.rules \subseteq RuleIds /\ \A r \in DOMAIN p.rules : p.rules[r] \in RuleRow
      /\ p.keys \subseteq Keys
  BY DEF ConfigTypes, PayloadTyped
<1>4. PICK first \in Named(p.fields, {fields[f].name : f \in FieldsOf(t)}),
           firstR \in Named(p.rules, {rules[r].name : r \in RulesOf(t)}) :
       \E m \in OwnIds(IF skip THEN first ELSE DOMAIN p.fields, DOMAIN fields, FieldIds),
          n \in OwnIds(IF skip THEN firstR ELSE DOMAIN p.rules, DOMAIN rules, RuleIds) :
       \E same \in SameName(p.fields, IF skip THEN first ELSE DOMAIN p.fields, m, t) :
         /\ fields' = Merge(fields, [g \in {m[f] : f \in IF skip THEN first ELSE DOMAIN p.fields} |->
              LET f == AntiFunction(m)[g]
              IN  Arrived(Remapped(p.fields[f], Merge(m, same)), g, f, first, t)])
         /\ rules' = Merge(rules, [q \in {n[r] : r \in IF skip THEN firstR ELSE DOMAIN p.rules} |->
              LET r == AntiFunction(n)[q] IN Arrived(p.rules[r], q, r, firstR, t)])
         /\ Commit({}, Missing(p.fields, m, Merge(m, same)),
                   Inherited(p.fields, m, Merge(m, same)))
  BY Zenon DEF ImportInto
<1> DEFINE S == IF skip THEN first ELSE DOMAIN p.fields
           R == IF skip THEN firstR ELSE DOMAIN p.rules
<1>5. S \subseteq DOMAIN p.fields /\ R \subseteq DOMAIN p.rules  BY DEF Named
<1> HIDE DEF S, R
<1>6. PICK m \in OwnIds(S, DOMAIN fields, FieldIds), n \in OwnIds(R, DOMAIN rules, RuleIds) :
       \E same \in SameName(p.fields, S, m, t) :
         /\ fields' = Merge(fields, [g \in {m[f] : f \in S} |->
              LET f == AntiFunction(m)[g]
              IN  Arrived(Remapped(p.fields[f], Merge(m, same)), g, f, first, t)])
         /\ rules' = Merge(rules, [q \in {n[r] : r \in R} |->
              LET r == AntiFunction(n)[q] IN Arrived(p.rules[r], q, r, firstR, t)])
         /\ Commit({}, Missing(p.fields, m, Merge(m, same)),
                   Inherited(p.fields, m, Merge(m, same)))
  BY <1>4, Zenon DEF S, R
<1>7. PICK same \in SameName(p.fields, S, m, t) :
         /\ fields' = Merge(fields, [g \in {m[f] : f \in S} |->
              LET f == AntiFunction(m)[g]
              IN  Arrived(Remapped(p.fields[f], Merge(m, same)), g, f, first, t)])
         /\ rules' = Merge(rules, [q \in {n[r] : r \in R} |->
              LET r == AntiFunction(n)[q] IN Arrived(p.rules[r], q, r, firstR, t)])
         /\ Commit({}, Missing(p.fields, m, Merge(m, same)),
                   Inherited(p.fields, m, Merge(m, same)))
  BY <1>6, Zenon
<1>8. /\ m \in [S -> FieldIds \ DOMAIN fields] /\ IsInjective(m)
      /\ n \in [R -> RuleIds \ DOMAIN rules] /\ IsInjective(n)
  BY <1>6 DEF OwnIds, Fresh
<1>9. same \in [DOMAIN p.fields \ S -> FieldIds]  BY <1>7 DEF SameName
<1> DEFINE map == Merge(m, same)
<1>10. \A f \in DOMAIN map : map[f] \in FieldIds
  <2>1. \A f \in DOMAIN m : m[f] \in FieldIds  BY <1>8
  <2>2. \A f \in DOMAIN same : same[f] \in FieldIds  BY <1>9
  <2> QED  BY <2>1, <2>2, MergedIds
<1> HIDE DEF map
<1>11. FieldsWritten
  <2> DEFINE g == [x \in {m[f] : f \in S} |->
               LET f == AntiFunction(m)[x] IN Arrived(Remapped(p.fields[f], map), x, f, first, t)]
  <2>1. DOMAIN g \subseteq FieldIds  BY <1>8
  <2>2. ASSUME NEW x \in DOMAIN g PROVE g[x] \in FieldRow /\ g[x].at = second
    <3> DEFINE f == AntiFunction(m)[x]
               row == Remapped(p.fields[f], map)
    <3>1. f \in S  BY <1>8, <2>2, BackToSource
    <3>2. row \in FieldRow  BY <1>3, <1>5, <1>10, <3>1, RemappedRow
    <3>3. g[x] = Arrived(row, x, f, first, t) /\ x \in FieldIds  BY <2>1, <2>2
    <3> HIDE DEF g, f, row
    <3> QED  BY <1>0, <3>2, <3>3 DEF FieldRow, Arrived
  <2>3. fields' = Merge(fields, g)  BY <1>7, Zenon DEF map
  <2> HIDE DEF g
  <2> QED  BY <1>0, <2>1, <2>2, <2>3, FieldsAdded
<1>12. RulesWritten
  <2> DEFINE g == [q \in {n[r] : r \in R} |->
               LET r == AntiFunction(n)[q] IN Arrived(p.rules[r], q, r, firstR, t)]
  <2>1. DOMAIN g \subseteq RuleIds  BY <1>8
  <2>2. ASSUME NEW q \in DOMAIN g PROVE g[q] \in RuleRow /\ g[q].at = second
    <3> DEFINE r == AntiFunction(n)[q]
    <3>1. r \in R  BY <1>8, <2>2, BackToSource
    <3>2. p.rules[r] \in RuleRow  BY <1>3, <1>5, <3>1
    <3>3. g[q] = Arrived(p.rules[r], q, r, firstR, t) /\ q \in RuleIds  BY <2>1, <2>2
    <3> HIDE DEF g, r
    <3> QED  BY <1>0, <3>2, <3>3 DEF RuleRow, Arrived
  <2>3. rules' = Merge(rules, g)  BY <1>7, Zenon
  <2> HIDE DEF g
  <2> QED  BY <1>0, <2>1, <2>2, <2>3, RulesAdded
<1>13. Committed
  <2>1. DOMAIN m \subseteq DOMAIN p.fields /\ \A f \in DOMAIN m : m[f] \in FieldIds
    BY <1>5, <1>8
  <2>2. /\ Missing(p.fields, m, map) \in SUBSET (FieldIds \X FieldIds)
        /\ Inherited(p.fields, m, map) \in SUBSET (FieldIds \X FieldIds)
    BY <1>3, <1>10, <2>1, ReportsTyped
  <2> QED  BY <1>7, <2>2 DEF Committed, map
<1>14. /\ params' = params \union ({t} \X p.keys) /\ files' = files /\ projects' = projects
       /\ types' = IF t \in DOMAIN types THEN types
                   ELSE Merge(types, [u \in {t} |->
                          [template |-> FALSE, parent |-> None, project |-> None]])
  BY Zenon DEF ImportInto
<1>15. params' \subseteq TypeIds \X Keys  BY <1>2, <1>3, <1>14
<1>16. TablesTyped'
  <2>1. CASE t \in DOMAIN types
    <3>1. types' = types  BY <1>14, <2>1
    <3> QED  BY <1>1, <1>2, <1>14, <1>15, <3>1, TablesNext
  <2>2. CASE t \notin DOMAIN types
    <3> DEFINE row == [template |-> FALSE, parent |-> None, project |-> None]
    <3>1. row \in TypeRow  BY DEF TypeRow
    <3>2. types' = Merge(types, [u \in {t} |-> row])  BY <1>14, <2>2
    <3> HIDE DEF row
    <3>3. /\ DOMAIN types' = DOMAIN types \union {t} /\ types'[t] = row
          /\ \A u \in DOMAIN types \ {t} : types'[u] = types[u]
      BY <3>2 DEF Merge
    <3>4. \A u \in DOMAIN types' : types'[u] \in TypeRow  BY <1>2, <3>1, <3>3
    <3> QED  BY <1>1, <1>2, <1>14, <1>15, <2>2, <3>3, <3>4, TablesNext
  <2> QED  BY <2>1, <2>2
<1> QED  BY <1>11, <1>12, <1>13, <1>16 DEF Writes

-----------------------------------------------------------------------------
(* Steps that write no table *)

Still == UNCHANGED <<types, fields, rules, params, files, projects>>

(* The tables keep their types then.                                        *)
LEMMA TablesStay ==
  ASSUME ConfigTypes, Still, second' \in 1..MaxNow, second <= second', steps' \in 0..MaxSteps,
         DraftTyped', PayloadTyped', PageTyped'
  PROVE  ConfigTypes'
<1>1. ConfigTypeOK'  BY DEF ConfigTypes, ConfigTypeOK, Still
<1>2. RowsDated'
  <2>1. /\ \A f \in DOMAIN fields : fields[f].at \in Nat /\ fields[f].at <= second
        /\ \A r \in DOMAIN rules : rules[r].at \in Nat /\ rules[r].at <= second
    BY DEF ConfigTypes, RowsDated, ConfigTypeOK, FieldRow, RuleRow
  <2>2. second \in Nat /\ second' \in Nat  BY ConfigBounds DEF ConfigTypes, ConfigTypeOK
  <2> QED  BY <2>1, <2>2 DEF RowsDated, Still
<1> QED  BY <1>1, <1>2 DEF ConfigTypes

(* What a step that leaves tables, page and payload alone does to drafts. *)
LEMMA DraftStep ==
  ASSUME ConfigInv, Step, Still, NEW e \in Editors, NEW S, draft' = [draft EXCEPT ![e] = S],
         UNCHANGED <<payload, page, second, told, known>>,
         \A d \in S :
           /\ \/ /\ d \in SaveDraft /\ d.new.base = d.id /\ d.new.depend = d.new.uses
                 /\ d.was = {} \/ \E w \in FieldRow : d.was = {w}
              \/ d \in DeleteDraft
           /\ d.op = "save" => SaveChecked(d)
           /\ d.op = "delete" => DeleteChecked(d)
  PROVE  ConfigInv'
<1>1. draft = [i \in Editors |-> draft[i]]  BY Zenon DEF ConfigInv, ConfigTypes, DraftTyped
<1>2. /\ draft'[e] = S /\ \A i \in Editors \ {e} : draft'[i] = draft[i]
      /\ draft' = [i \in Editors |-> draft'[i]]
  BY <1>1
<1>3. DraftTyped'
  <2> SUFFICES ASSUME NEW i \in Editors, NEW d \in draft'[i]
               PROVE  \/ /\ d \in SaveDraft /\ d.new.base = d.id /\ d.new.depend = d.new.uses
                         /\ d.was = {} \/ \E w \in FieldRow : d.was = {w}
                      \/ d \in DeleteDraft
    BY <1>2, Zenon DEF DraftTyped
  <2>1. CASE i = e  BY <1>2, <2>1, Zenon
  <2>2. CASE i # e  BY <1>2, <2>2, Zenon DEF ConfigInv, ConfigTypes, DraftTyped
  <2> QED  BY <2>1, <2>2
<1>4. DraftChecked'
  <2>1. \A d : SaveChecked(d)' <=> SaveChecked(d)
    BY DEF SaveChecked, Still, FieldsOf, Referrers
  <2>2. \A d : DeleteChecked(d)' <=> DeleteChecked(d)
    BY DEF DeleteChecked, Still, FieldsOf, Referrers
  <2> SUFFICES ASSUME NEW i \in Editors, NEW d \in draft'[i], ~ d.stale
               PROVE  /\ d.op = "save" => SaveChecked(d)
                      /\ d.op = "delete" => DeleteChecked(d)
    BY <2>1, <2>2, Zenon DEF DraftChecked
  <2>3. CASE i = e  BY <1>2, <2>3, Zenon
  <2>4. CASE i # e  BY <1>2, <2>4, Zenon DEF ConfigInv, DraftChecked
  <2> QED  BY <2>3, <2>4
<1>5. /\ second \in 1..MaxNow /\ second <= second /\ steps' \in 0..MaxSteps
  BY ConfigBounds DEF ConfigInv, ConfigTypes, ConfigTypeOK, Step
<1>6. PayloadTyped' /\ PageTyped'
  BY Zenon DEF ConfigInv, ConfigTypes, PayloadTyped, PageTyped
<1>7. ConfigTypes'  BY <1>3, <1>5, <1>6, TablesStay DEF ConfigInv
<1>8. PageHolds'  BY DEF ConfigInv, PageHolds, FieldsOf, RulesOf, Still
<1>9. ReferencesSound'  BY Zenon DEF ConfigInv, ReferencesSound, Still
<1> QED  BY <1>4, <1>7, <1>8, <1>9 DEF ConfigInv

(* A save and a deletion are checked before they are committed.             *)
LEMMA CheckSteps ==
  ASSUME ConfigInv, NEW e \in Editors, CheckSave(e) \/ SaveFails(e) \/ CheckDelete(e)
  PROVE  ConfigInv'
<1>1. Step /\ Still /\ UNCHANGED <<payload, page, second, told, known>>
  BY DEF CheckSave, SaveFails, CheckDelete, Still
<1>2. /\ DOMAIN fields \subseteq FieldIds /\ \A f \in DOMAIN fields : fields[f] \in FieldRow
      /\ second \in 0..MaxNow
  BY TablesAre DEF ConfigInv
<1>3. CASE CheckSave(e)
  <2>1. PICK c_ \in Contents :
          /\ Accepts(c_)
          /\ draft' = [draft EXCEPT ![e] =
               {[op |-> "save", id |-> c_.id, stale |-> FALSE, told |-> {},
                 was |-> IF c_.id \in DOMAIN fields THEN {fields[c_.id]} ELSE {},
                 new |-> [type |-> c_.type, base |-> c_.id, name |-> c_.name, adv |-> c_.adv,
                          hybrid |-> c_.hybrid, uses |-> c_.uses, depend |-> c_.uses,
                          at |-> second]]}]
    BY <1>3 DEF CheckSave
  <2> DEFINE new == [type |-> c_.type, base |-> c_.id, name |-> c_.name, adv |-> c_.adv,
                     hybrid |-> c_.hybrid, uses |-> c_.uses, depend |-> c_.uses, at |-> second]
             was == IF c_.id \in DOMAIN fields THEN {fields[c_.id]} ELSE {}
             d == [op |-> "save", id |-> c_.id, stale |-> FALSE, told |-> {}, was |-> was,
                   new |-> new]
  <2>2. draft' = [draft EXCEPT ![e] = {d}]  BY <2>1
  <2>3. c_ \in [type: TypeIds, id: FieldIds, name: Names, adv: BOOLEAN,
                hybrid: BOOLEAN, uses: SUBSET FieldIds]
    BY ContentsSound
  <2>4. new \in FieldRow /\ new.base = c_.id /\ new.depend = new.uses /\ new.uses = c_.uses
        /\ new.type = c_.type /\ new.adv = c_.adv
    BY <1>2, <2>3 DEF FieldRow
  <2>5. was = {} \/ \E w \in FieldRow : was = {w}  BY <1>2
  <2> HIDE DEF new
  <2>6. d \in SaveDraft  BY <1>2, <2>3, <2>4 DEF SaveDraft
  <2>7. SaveChecked(d)
    <3>1. d.was = was /\ d.id = c_.id /\ d.new = new  OBVIOUS
    <3> HIDE DEF d
    <3> QED  BY <2>1, <2>4, <3>1 DEF SaveChecked, Accepts
  <2>8. d.op = "save" /\ d.was = was /\ d.new = new /\ d.id = c_.id  OBVIOUS
  <2> HIDE DEF d, was
  <2>9. d.op # "delete"  BY <2>8
  <2>10. \A x \in {d} :
           /\ \/ /\ x \in SaveDraft /\ x.new.base = x.id /\ x.new.depend = x.new.uses
                 /\ x.was = {} \/ \E w \in FieldRow : x.was = {w}
              \/ x \in DeleteDraft
           /\ x.op = "save" => SaveChecked(x)
           /\ x.op = "delete" => DeleteChecked(x)
    BY <2>4, <2>5, <2>6, <2>7, <2>8, <2>9, Zenon
  <2> QED  BY <1>1, <2>2, <2>10, DraftStep
<1>4. CASE SaveFails(e)
  <2>1. draft' = [draft EXCEPT ![e] = {}]  BY <1>4 DEF SaveFails
  <2> QED  BY <1>1, <2>1, DraftStep
<1>5. CASE CheckDelete(e)
  <2>1. PICK f \in DOMAIN fields :
          draft' = [draft EXCEPT ![e] =
            {[op |-> "delete", id |-> f, stale |-> FALSE,
              told |-> Referrers(fields[f].type, f) \X {f}]}]
    BY <1>5 DEF CheckDelete
  <2> DEFINE d == [op |-> "delete", id |-> f, stale |-> FALSE,
                   told |-> Referrers(fields[f].type, f) \X {f}]
  <2>2. draft' = [draft EXCEPT ![e] = {d}]  BY <2>1
  <2>3. Referrers(fields[f].type, f) \subseteq FieldIds  BY <1>2 DEF Referrers, FieldsOf
  <2>4. d \in DeleteDraft  BY <1>2, <2>3 DEF DeleteDraft
  <2>5. DeleteChecked(d)  BY DEF DeleteChecked
  <2>6. d.op # "save"  OBVIOUS
  <2> HIDE DEF d
  <2> QED  BY <1>1, <2>2, <2>4, <2>5, <2>6, DraftStep
<1> QED  BY <1>3, <1>4, <1>5

(* An export, a page that is opened and the time write no table.            *)
LEMMA OtherSteps ==
  ASSUME ConfigInv, Export \/ OpenPage \/ NextSecond
  PROVE  ConfigInv'
<1>1. Step /\ Still /\ UNCHANGED <<draft, told, known>>
  BY DEF Export, OpenPage, NextSecond, Still
<1>2. /\ DOMAIN fields \subseteq FieldIds /\ \A f \in DOMAIN fields : fields[f] \in FieldRow
      /\ DOMAIN rules \subseteq RuleIds /\ \A r \in DOMAIN rules : rules[r] \in RuleRow
      /\ second \in 1..MaxNow /\ MaxNow \in Nat /\ DOMAIN types \subseteq TypeIds
  BY TablesAre DEF ConfigInv, TablesTyped
<1>3. steps' \in 0..MaxSteps  BY <1>1, ConfigBounds DEF ConfigInv, ConfigTypes, ConfigTypeOK, Step
<1>4. DraftTyped'  BY <1>1, Zenon DEF ConfigInv, ConfigTypes, DraftTyped
<1>5. DraftChecked'
  BY <1>1 DEF ConfigInv, DraftChecked, SaveChecked, DeleteChecked, FieldsOf, Referrers, Still
<1>6. ReferencesSound'  BY <1>1, Zenon DEF ConfigInv, ReferencesSound, Still
<1>7. second' \in 1..MaxNow /\ second <= second'
  BY <1>2 DEF Export, OpenPage, NextSecond
<1>8. PayloadTyped'
  <2>1. CASE payload' = payload  BY <2>1, Zenon DEF ConfigInv, ConfigTypes, PayloadTyped
  <2>2. CASE Export
    <3>1. PICK t \in DOMAIN types :
            payload' = {[fields |-> Restrict(fields, FieldsOf(t)),
                         rules |-> Restrict(rules, RulesOf(t)), keys |-> KeysOf(t)]}
      BY <2>2 DEF Export
    <3>2. /\ DOMAIN Restrict(fields, FieldsOf(t)) \subseteq FieldIds
          /\ \A f \in DOMAIN Restrict(fields, FieldsOf(t)) : Restrict(fields, FieldsOf(t))[f] \in FieldRow
          /\ DOMAIN Restrict(rules, RulesOf(t)) \subseteq RuleIds
          /\ \A r \in DOMAIN Restrict(rules, RulesOf(t)) : Restrict(rules, RulesOf(t))[r] \in RuleRow
          /\ KeysOf(t) \subseteq Keys
      BY <1>2 DEF Restrict, FieldsOf, RulesOf, KeysOf
    <3> QED  BY <3>1, <3>2 DEF PayloadTyped
  <2> QED  BY <2>1, <2>2 DEF OpenPage, NextSecond
<1>9. PageTyped' /\ PageHolds'
  <2>1. CASE page' = page
    <3>1. \A p \in page : p.at \in 1..second'
      <4>1. \A p \in page : p.at \in 1..second  BY Zenon DEF ConfigInv, ConfigTypes, PageTyped
      <4> QED  BY <4>1, <1>2, <1>7
    <3>2. PageTyped'  BY <2>1, <3>1, Zenon DEF ConfigInv, ConfigTypes, PageTyped
    <3>3. PageHolds'  BY <1>1, <2>1 DEF ConfigInv, PageHolds, FieldsOf, RulesOf, Still
    <3> QED  BY <3>2, <3>3
  <2>2. CASE OpenPage
    <3>1. PICK t \in DOMAIN types :
            page' = {[type |-> t, config |-> Config(t), version |-> Version(t), at |-> second]}
      BY <2>2 DEF OpenPage
    <3> DEFINE F == Restrict(fields, FieldsOf(t))
               R == Restrict(rules, RulesOf(t))
    <3>2. /\ DOMAIN F = FieldsOf(t) /\ F = [f \in DOMAIN F |-> F[f]]
          /\ \A f \in FieldsOf(t) : F[f] = fields[f]
          /\ DOMAIN R = RulesOf(t) /\ R = [r \in DOMAIN R |-> R[r]]
          /\ \A r \in RulesOf(t) : R[r] = rules[r]
      BY DEF Restrict, FieldsOf, RulesOf
    <3>3. /\ FieldsOf(t) \subseteq FieldIds /\ RulesOf(t) \subseteq RuleIds
      BY <1>2 DEF FieldsOf, RulesOf
    <3>4. Config(t) = <<F, R>>  BY DEF Config
    <3>5. Version(t)[3] = Cardinality(FieldsOf(t)) /\ Version(t)[4] = Cardinality(RulesOf(t))
      BY DEF Version
    <3> HIDE DEF F, R
    <3>6. ASSUME NEW p \in page'
          PROVE  /\ p.type = t /\ p.at = second /\ p.config[1] = F /\ p.config[2] = R
                 /\ p.config = <<F, R>>
                 /\ p.version[3] = Cardinality(DOMAIN F) /\ p.version[4] = Cardinality(DOMAIN R)
      <4>1. p = [type |-> t, config |-> Config(t), version |-> Version(t), at |-> second]
        BY <3>1, <3>6
      <4>2. p.type = t /\ p.config = Config(t) /\ p.version = Version(t) /\ p.at = second
        BY <4>1
      <4> QED  BY <4>2, <3>2, <3>4, <3>5
    <3>7. second' = second /\ t \in TypeIds /\ second \in 1..second
      BY <2>2, <1>2 DEF OpenPage
    <3>8. PageTyped'
      <4> SUFFICES ASSUME NEW p \in page'
                   PROVE  /\ p.type \in TypeIds /\ p.at \in 1..second'
                          /\ p.config = <<[f \in DOMAIN p.config[1] |-> p.config[1][f]],
                                          [r \in DOMAIN p.config[2] |-> p.config[2][r]]>>
                          /\ DOMAIN p.config[1] \subseteq FieldIds
                          /\ DOMAIN p.config[2] \subseteq RuleIds
                          /\ p.version[3] = Cardinality(DOMAIN p.config[1])
                          /\ p.version[4] = Cardinality(DOMAIN p.config[2])
        BY Zenon DEF PageTyped
      <4>1. p.config = <<[f \in DOMAIN p.config[1] |-> p.config[1][f]],
                         [r \in DOMAIN p.config[2] |-> p.config[2][r]]>>
        BY <3>2, <3>6, Zenon
      <4> QED  BY <3>2, <3>3, <3>6, <3>7, <4>1
    <3>9. PageHolds'
      <4>1. /\ \A f \in FieldsOf(t)' : f \in FieldsOf(t) /\ fields'[f] = fields[f]
            /\ \A r \in RulesOf(t)' : r \in RulesOf(t) /\ rules'[r] = rules[r]
        BY <1>1 DEF FieldsOf, RulesOf, Still
      <4> SUFFICES ASSUME NEW p \in page'
                   PROVE  /\ \A f \in FieldsOf(p.type)' : fields'[f].at < p.at =>
                               f \in DOMAIN p.config[1] /\ p.config[1][f] = fields'[f]
                          /\ \A r \in RulesOf(p.type)' : rules'[r].at < p.at =>
                               r \in DOMAIN p.config[2] /\ p.config[2][r] = rules'[r]
        BY Zenon DEF PageHolds
      <4>2. p.type = t /\ p.config[1] = F /\ p.config[2] = R  BY <3>6
      <4>3. FieldsOf(p.type)' = FieldsOf(t)' /\ RulesOf(p.type)' = RulesOf(t)'
        BY <4>2 DEF FieldsOf, RulesOf
      <4> QED  BY <3>2, <4>1, <4>2, <4>3
    <3> QED  BY <3>8, <3>9
  <2> QED  BY <2>1, <2>2 DEF Export, NextSecond
<1>10. ConfigTypes'  BY <1>1, <1>3, <1>4, <1>7, <1>8, <1>9, TablesStay DEF ConfigInv
<1> QED  BY <1>5, <1>6, <1>9, <1>10 DEF ConfigInv

-----------------------------------------------------------------------------
(* References.  What a step makes unsound is reported by it or comes of a   *)
(* gap: so no reference leads nowhere in silence.                           *)

(* A reference is unsound if what it names is no field it may lead to.      *)
LEMMA UnsoundIs ==
  ASSUME NEW fs, NEW p
  PROVE  p \in Unsound(fs) <=>
           \E f \in DOMAIN fs, r \in FieldIds :
             p = <<f, r>> /\ fs[f].adv /\ r \in fs[f].depend /\ ~ Leads(fs, f, r)
<1>1. ASSUME p \in Unsound(fs)
      PROVE  \E f \in DOMAIN fs, r \in FieldIds :
               p = <<f, r>> /\ fs[f].adv /\ r \in fs[f].depend /\ ~ Leads(fs, f, r)
  <2>1. /\ p \in {f \in DOMAIN fs : fs[f].adv} \X FieldIds
        /\ p[2] \in fs[p[1]].depend /\ ~ Leads(fs, p[1], p[2])
    BY <1>1, Zenon DEF Unsound
  <2>2. PICK f \in DOMAIN fs, r \in FieldIds : p = <<f, r>> /\ fs[f].adv  BY <2>1
  <2>3. p[1] = f /\ p[2] = r  BY <2>2
  <2> QED  BY <2>1, <2>2, <2>3, Zenon
<1>2. ASSUME NEW f \in DOMAIN fs, NEW r \in FieldIds, p = <<f, r>>, fs[f].adv,
             r \in fs[f].depend, ~ Leads(fs, f, r)
      PROVE  p \in Unsound(fs)
  <2>1. p[1] = f /\ p[2] = r /\ p \in {i \in DOMAIN fs : fs[i].adv} \X FieldIds
    BY <1>2
  <2>2. p[2] \in fs[p[1]].depend /\ ~ Leads(fs, p[1], p[2])  BY <1>2, <2>1, Zenon
  <2> QED  BY <2>1, <2>2, Zenon DEF Unsound
<1> QED  BY <1>1, <1>2, Zenon

(* A commit that reports all it makes unsound leaves the references sound.  *)
LEMMA ReportsHold ==
  ASSUME ReferencesSound, NEW E, NEW reported, NEW gap, Commit(E, reported, gap),
         Unsound(fields') \ Unsound(fields) \subseteq reported \union gap
  PROVE  ReferencesSound'
<1>1. /\ told' = (told \union reported) \intersect Unsound(fields')
      /\ known' = (known \union gap) \intersect Unsound(fields')
  BY Zenon DEF Commit
<1>2. Unsound(fields)' = Unsound(fields')  OBVIOUS
<1> HIDE DEF Unsound
<1>3. Unsound(fields') \subseteq told' \union known'  BY <1>1 DEF ReferencesSound
<1> QED  BY <1>3, Zenon DEF ReferencesSound

(* Fields that are left alone refer to what they referred to. *)
LEMMA EditSound ==
  ASSUME ReferencesSound, Edit, fields' = fields
  PROVE  ReferencesSound'
<1>1. Unsound(fields') \ Unsound(fields) \subseteq {} \union {}  OBVIOUS
<1> QED  BY <1>1, ReportsHold DEF Edit

(* A field that is saved with nothing committed since its checks makes no   *)
(* reference unsound but one to itself: what it refers to was found, and    *)
(* those that refer to it were found when it turned advanced.               *)
LEMMA SaveSound ==
  ASSUME ConfigInv, NEW e \in Editors, CommitSave(e)
  PROVE  ReferencesSound'
<1>1. PICK d \in draft[e] :
        /\ d.op = "save"
        /\ (d.id \in DOMAIN fields) <=> (d.was # {})
        /\ fields' = Saved(d) /\ Commit({e}, {}, Gap(d, Saved(d)))
  BY DEF CommitSave
<1>2. /\ DOMAIN Saved(d) = DOMAIN fields \union {d.id}
      /\ \A f \in DOMAIN fields \ {d.id} : Saved(d)[f] = fields[f]
      /\ d.was = {} => Saved(d)[d.id] = [d.new EXCEPT !.at = second]
      /\ d.was = {fields[d.id]} =>
           /\ Saved(d)[d.id].type = d.new.type /\ Saved(d)[d.id].adv = d.new.adv
           /\ Saved(d)[d.id].depend = d.new.depend
  BY <1>1, SavedRow DEF ConfigInv
<1>3. d \in SaveDraft /\ d.new.depend = d.new.uses
  BY <1>1 DEF ConfigInv, ConfigTypes, DraftTyped, DeleteDraft
<1> DEFINE N == Saved(d)
<1>4. ASSUME NEW p \in Unsound(N) \ Unsound(fields) PROVE p \in Gap(d, N)
  <2>1. CASE d.stale  BY <1>4, <2>1 DEF Gap
  <2>2. CASE ~ d.stale
    <3>1. SaveChecked(d)  BY <1>1, <2>2 DEF ConfigInv, DraftChecked
    <3>2. N[d.id].type = d.new.type /\ N[d.id].adv = d.new.adv /\ N[d.id].depend = d.new.uses
      <4>1. CASE d.was = {}
        <5>1. d.new \in FieldRow  BY <1>3 DEF SaveDraft
        <5> QED  BY <4>1, <5>1, <1>2, <1>3 DEF FieldRow
      <4>2. CASE d.was = {fields[d.id]}  BY <4>2, <1>2, <1>3
      <4> QED  BY <4>1, <4>2, <3>1 DEF SaveChecked
    <3>3. PICK f \in DOMAIN N, r \in FieldIds :
            p = <<f, r>> /\ N[f].adv /\ r \in N[f].depend /\ ~ Leads(N, f, r)
      BY <1>4, UnsoundIs
    <3>4. p[1] = f /\ p[2] = r  BY <3>3
    <3> HIDE DEF N
    <3>5. /\ DOMAIN N = DOMAIN fields \union {d.id}
          /\ \A i \in DOMAIN fields \ {d.id} : N[i] = fields[i]
      BY <1>2 DEF N
    <3>6. CASE f = r  BY <1>4, <3>4, <3>6 DEF Gap
    <3>7. CASE f # r /\ f = d.id
      <4>1. r \in FieldsOf(d.new.type) /\ ~ fields[r].adv
        BY <3>1, <3>2, <3>3, <3>7 DEF SaveChecked
      <4>2. r \in DOMAIN fields /\ fields[r].type = d.new.type  BY <4>1 DEF FieldsOf
      <4>3. Leads(N, f, r)  BY <3>2, <3>5, <3>7, <4>1, <4>2 DEF Leads
      <4> QED  BY <3>3, <4>3
    <3>8. CASE f # r /\ f # d.id
      <4>1. f \in DOMAIN fields /\ N[f] = fields[f]  BY <3>5, <3>8
      <4>2. Leads(fields, f, r)
        <5> SUFFICES ASSUME ~ Leads(fields, f, r) PROVE p \in Unsound(fields)
          BY <1>4
        <5> QED  BY <3>3, <4>1, UnsoundIs
      <4>3. r = d.id
        <5> SUFFICES ASSUME r # d.id PROVE Leads(N, f, r)
          BY <3>3
        <5> QED  BY <3>5, <4>1, <4>2 DEF Leads
      <4>4. d.id \in DOMAIN fields /\ fields[f].type = fields[d.id].type /\ ~ fields[d.id].adv
        BY <4>2, <4>3 DEF Leads
      <4>5. fields[d.id].type = d.new.type /\ (d.new.adv => Referrers(d.new.type, d.id) = {})
        BY <3>1, <4>4 DEF SaveChecked
      <4>6. d.new.adv
        <5> SUFFICES ASSUME ~ d.new.adv PROVE Leads(N, f, r)
          BY <3>3
        <5> QED  BY <3>2, <3>5, <4>1, <4>3, <4>4, <4>5 DEF Leads
      <4>7. f \in Referrers(d.new.type, d.id)
        BY <3>3, <4>1, <4>3, <4>4, <4>5 DEF Referrers, FieldsOf
      <4> QED  BY <4>5, <4>6, <4>7
    <3> QED  BY <3>6, <3>7, <3>8
  <2> QED  BY <2>1, <2>2
<1>5. Unsound(fields') \ Unsound(fields) \subseteq {} \union Gap(d, Saved(d))
  BY <1>1, <1>4
<1> HIDE DEF N
<1>6. Commit({e}, {}, Gap(d, Saved(d))) /\ ReferencesSound  BY <1>1 DEF ConfigInv
<1> QED  BY <1>5, <1>6, ReportsHold

(* Those that refer to a field that is deleted were named. *)
LEMMA DeleteSound ==
  ASSUME ConfigInv, NEW e \in Editors, CommitDelete(e)
  PROVE  ReferencesSound'
<1>1. PICK d \in draft[e] :
        /\ d.op = "delete"
        /\ fields' = Drop(fields, {d.id}) /\ Commit({e}, d.told, Gap(d, Drop(fields, {d.id})))
  BY DEF CommitDelete
<1> DEFINE N == Drop(fields, {d.id})
<1>2. /\ DOMAIN N = DOMAIN fields \ {d.id}
      /\ \A f \in DOMAIN fields \ {d.id} : N[f] = fields[f]
  BY DropRows
<1>3. fields' = N /\ Commit({e}, d.told, Gap(d, N)) /\ ReferencesSound  BY <1>1 DEF ConfigInv
<1> HIDE DEF N
<1>4. ASSUME NEW p \in Unsound(N) \ Unsound(fields) PROVE p \in d.told \union Gap(d, N)
  <2>1. CASE d.stale  BY <1>4, <2>1 DEF Gap
  <2>2. CASE ~ d.stale
    <3>1. DeleteChecked(d)  BY <1>1, <2>2 DEF ConfigInv, DraftChecked
    <3>2. PICK f \in DOMAIN N, r \in FieldIds :
            p = <<f, r>> /\ N[f].adv /\ r \in N[f].depend /\ ~ Leads(N, f, r)
      BY <1>4, UnsoundIs
    <3>3. f \in DOMAIN fields /\ N[f] = fields[f]  BY <1>2
    <3>4. Leads(fields, f, r)
      <4> SUFFICES ASSUME ~ Leads(fields, f, r) PROVE p \in Unsound(fields)
        BY <1>4
      <4> QED  BY <3>2, <3>3, UnsoundIs
    <3>5. r = d.id
      <4> SUFFICES ASSUME r # d.id PROVE Leads(N, f, r)
        BY <3>2
      <4> QED  BY <1>2, <3>3, <3>4 DEF Leads
    <3>6. f \in Referrers(fields[d.id].type, d.id)
      BY <3>2, <3>3, <3>4, <3>5 DEF Leads, Referrers, FieldsOf
    <3> QED  BY <3>1, <3>2, <3>5, <3>6 DEF DeleteChecked
  <2> QED  BY <2>1, <2>2
<1>5. Unsound(fields') \ Unsound(fields) \subseteq d.told \union Gap(d, N)
  BY <1>3, <1>4
<1> QED  BY <1>3, <1>5, ReportsHold

(* Fields of a type are renamed together, and deleted together. *)
LEMMA TypesSound ==
  ASSUME ConfigInv, RenameType \/ DeleteTypes
  PROVE  ReferencesSound'
<1>1. Edit  BY DEF RenameType, DeleteTypes
<1>2. /\ \A f \in DOMAIN fields' :
           /\ f \in DOMAIN fields /\ fields'[f].adv = fields[f].adv
           /\ fields'[f].depend = fields[f].depend
      /\ \A f \in DOMAIN fields', r \in DOMAIN fields :
           fields[r].type = fields[f].type =>
             r \in DOMAIN fields' /\ fields'[r].type = fields'[f].type
  <2>0. \A f \in DOMAIN fields : fields[f] \in FieldRow  BY TablesAre DEF ConfigInv
  <2>1. CASE RenameType
    <3>1. PICK t \in DOMAIN types \ {Default}, u \in TypeIds \ DOMAIN types :
            fields' = [f \in DOMAIN fields |->
              IF f \in FieldsOf(t) THEN [fields[f] EXCEPT !.type = u, !.at = second] ELSE fields[f]]
      BY <2>1, Zenon DEF RenameType
    <3>2. DOMAIN fields' = DOMAIN fields  BY <3>1
    <3>3. ASSUME NEW f \in DOMAIN fields
          PROVE  /\ fields'[f].adv = fields[f].adv /\ fields'[f].depend = fields[f].depend
                 /\ fields'[f].type = IF fields[f].type = t THEN u ELSE fields[f].type
      <4>1. fields[f] \in FieldRow  BY <2>0
      <4>2. CASE fields[f].type = t
        <5>1. fields'[f] = [fields[f] EXCEPT !.type = u, !.at = second]
          BY <3>1, <4>2 DEF FieldsOf
        <5> QED  BY <4>1, <4>2, <5>1 DEF FieldRow
      <4>3. CASE fields[f].type # t
        <5>1. fields'[f] = fields[f]  BY <3>1, <4>3 DEF FieldsOf
        <5> QED  BY <4>3, <5>1
      <4> QED  BY <4>2, <4>3
    <3> QED  BY <3>2, <3>3
  <2>2. CASE DeleteTypes
    <3>1. PICK S : fields' = Drop(fields, UNION {FieldsOf(t) : t \in S})
      BY <2>2 DEF DeleteTypes
    <3>2. /\ DOMAIN fields' = {f \in DOMAIN fields : fields[f].type \notin S}
          /\ \A f \in DOMAIN fields' : fields'[f] = fields[f]
      BY <3>1 DEF Drop, Restrict, FieldsOf
    <3> QED  BY <3>2
  <2> QED  BY <2>1, <2>2
<1>3. Unsound(fields') \subseteq Unsound(fields)
  <2> SUFFICES ASSUME NEW p \in Unsound(fields') PROVE p \in Unsound(fields)
    OBVIOUS
  <2>1. PICK f \in DOMAIN fields', r \in FieldIds :
          p = <<f, r>> /\ fields'[f].adv /\ r \in fields'[f].depend /\ ~ Leads(fields', f, r)
    BY UnsoundIs
  <2>2. f \in DOMAIN fields /\ fields[f].adv /\ r \in fields[f].depend  BY <1>2, <2>1
  <2>3. ~ Leads(fields, f, r)
    <3> SUFFICES ASSUME Leads(fields, f, r) PROVE Leads(fields', f, r)
      BY <2>1
    <3> QED  BY <1>2, <2>1 DEF Leads
  <2> QED  BY <2>1, <2>2, <2>3, UnsoundIs
<1>4. Unsound(fields') \ Unsound(fields) \subseteq {} \union {}  BY <1>3
<1>5. ReferencesSound /\ Commit({}, {}, {})  BY <1>1 DEF ConfigInv, Edit
<1> QED  BY <1>4, <1>5, ReportsHold

(* New rows g of type t for the rows S of a source: m has their ids, and    *)
(* map where what they refer to has gone.                                   *)
Copies(source, S, m, map, t, g) ==
  /\ DOMAIN source \subseteq FieldIds /\ \A f \in DOMAIN source : source[f] \in FieldRow
  /\ S \subseteq DOMAIN source /\ m \in [S -> FieldIds \ DOMAIN fields]
  /\ S \subseteq DOMAIN map /\ \A f \in S : map[f] = m[f]
  /\ DOMAIN g = {m[f] : f \in S}
  /\ \A f \in S :
       /\ g[m[f]].type = t /\ g[m[f]].adv = source[f].adv
       /\ source[f].adv => g[m[f]].depend =
            {IF r \in DOMAIN map THEN map[r] ELSE r : r \in source[f].depend}

(* Of the references of fields that are copied to a type, those that lead   *)
(* nowhere are reported or inherited: what is copied along is referred to   *)
(* under its new id.                                                        *)
LEMMA CopiesReported ==
  ASSUME NEW source, NEW S, NEW m, NEW map, NEW t, NEW g,
         Copies(source, S, m, map, t, g), fields' = Merge(fields, g)
  PROVE  Unsound(fields') \ Unsound(fields) \subseteq
           Missing(source, m, map) \union Inherited(source, m, map)
<1>0. /\ \A f \in DOMAIN source : source[f] \in FieldRow
      /\ S \subseteq DOMAIN source /\ m \in [S -> FieldIds \ DOMAIN fields]
      /\ S \subseteq DOMAIN map /\ \A f \in S : map[f] = m[f]
      /\ DOMAIN g = {m[f] : f \in S}
      /\ \A f \in S :
           /\ g[m[f]].type = t /\ g[m[f]].adv = source[f].adv
           /\ source[f].adv => g[m[f]].depend =
                {IF r \in DOMAIN map THEN map[r] ELSE r : r \in source[f].depend}
  BY DEF Copies
<1>1. /\ DOMAIN fields' = DOMAIN fields \union DOMAIN g
      /\ \A i \in DOMAIN g : fields'[i] = g[i]
      /\ \A i \in DOMAIN fields \ DOMAIN g : fields'[i] = fields[i]
  BY DEF Merge
<1>2. DOMAIN m = S /\ DOMAIN g \intersect DOMAIN fields = {}  BY <1>0
<1> SUFFICES ASSUME NEW p \in Unsound(fields') \ Unsound(fields)
             PROVE  p \in Missing(source, m, map) \union Inherited(source, m, map)
  OBVIOUS
<1>3. PICK i \in DOMAIN fields', j \in FieldIds :
        p = <<i, j>> /\ fields'[i].adv /\ j \in fields'[i].depend /\ ~ Leads(fields', i, j)
  BY UnsoundIs
<1>4. CASE i \in DOMAIN fields
  <2>1. fields'[i] = fields[i]  BY <1>1, <1>2, <1>4
  <2>2. Leads(fields, i, j)
    <3> SUFFICES ASSUME ~ Leads(fields, i, j) PROVE p \in Unsound(fields)
      OBVIOUS
    <3> QED  BY <1>3, <1>4, <2>1, UnsoundIs
  <2>3. j \in DOMAIN fields /\ fields'[j] = fields[j]  BY <1>1, <1>2, <2>2 DEF Leads
  <2> QED  BY <1>1, <1>3, <2>1, <2>2, <2>3 DEF Leads
<1>5. CASE i \in DOMAIN g
  <2>1. PICK f \in S : i = m[f]  BY <1>0, <1>5
  <2>2. /\ fields'[i].type = t /\ source[f].adv
        /\ fields'[i].depend = {IF r \in DOMAIN map THEN map[r] ELSE r : r \in source[f].depend}
    BY <1>0, <1>1, <1>3, <1>5, <2>1
  <2>3. PICK r \in source[f].depend : j = IF r \in DOMAIN map THEN map[r] ELSE r
    BY <1>3, <2>2
  <2>4. f \in {h \in DOMAIN m : source[h].adv}  BY <1>2, <2>2
  <2>5. r \in FieldIds  BY <1>0 DEF FieldRow
  <2>6. CASE r \in DOMAIN map /\ (<<f, r>> \in Unsound(source) \/ r \notin DOMAIN m)
    <3> DEFINE led(h) == {map[q] : q \in {s \in source[h].depend \intersect DOMAIN map :
                                       \/ <<h, s>> \in Unsound(source)
                                       \/ s \notin DOMAIN m}}
               pairs(h) == {m[h]} \X (led(h) \union (source[h].depend \ source[h].uses))
    <3>1. j \in led(f)  BY <2>3, <2>6
    <3>2. Inherited(source, m, map) = UNION {pairs(h) : h \in {x \in DOMAIN m : source[x].adv}}
      BY Zenon DEF Inherited
    <3> HIDE DEF led
    <3>3. p \in pairs(f)  BY <1>3, <2>1, <3>1
    <3> HIDE DEF pairs
    <3> QED  BY <2>4, <3>2, <3>3
  <2>7. CASE r \in DOMAIN m /\ <<f, r>> \notin Unsound(source)
    <3>1. Leads(source, f, r)  BY <1>0, <2>2, <2>5, <2>7, UnsoundIs
    <3>2. j = m[r] /\ r \in S  BY <1>0, <1>2, <2>3, <2>7
    <3>3. fields'[j] = g[j] /\ j \in DOMAIN fields'  BY <1>0, <1>1, <3>2
    <3>4. fields'[j].type = t /\ fields'[j].adv = source[r].adv  BY <1>0, <3>2, <3>3
    <3>5. Leads(fields', i, j)  BY <2>2, <3>1, <3>3, <3>4 DEF Leads
    <3> QED  BY <1>3, <3>5
  <2>8. CASE r \notin DOMAIN map
    <3>1. j = r  BY <2>3, <2>8
    <3>2. CASE r \in source[f].uses
      <4>1. j \in source[f].uses \ DOMAIN map  BY <2>8, <3>1, <3>2
      <4> QED  BY <1>3, <2>1, <2>4, <4>1 DEF Missing
    <3>3. CASE r \notin source[f].uses
      <4>1. j \in source[f].depend \ source[f].uses  BY <3>1, <3>3
      <4> QED  BY <1>3, <2>1, <2>4, <4>1 DEF Inherited
    <3> QED  BY <3>2, <3>3
  <2> QED  BY <1>0, <1>2, <2>6, <2>7, <2>8
<1> QED  BY <1>1, <1>4, <1>5

(* So a copy does,                                                          *)
LEMMA CopySound ==
  ASSUME ConfigInv, NEW t \in DOMAIN types, NEW s \in DOMAIN types,
         NEW asked \in SUBSET FieldsOf(s), NEW skip \in BOOLEAN, CopyFrom(t, s, asked, skip)
  PROVE  ReferencesSound'
<1>0. \A f \in DOMAIN fields : fields[f] \in FieldRow  BY TablesAre DEF ConfigInv
<1>1. DOMAIN fields \subseteq FieldIds  BY TablesAre DEF ConfigInv
<1>2. PICK S \in Chosen(fields, t, asked, skip) :
       \E m \in Fresh(S, DOMAIN fields, FieldIds) :
         /\ fields' = Merge(fields, [g \in {m[f] : f \in S} |->
              [Remapped(fields[AntiFunction(m)[g]], m) EXCEPT !.type = t, !.at = second]])
         /\ Commit({}, Missing(fields, m, m), Inherited(fields, m, m))
  BY Zenon DEF CopyFrom
<1>3. PICK m \in Fresh(S, DOMAIN fields, FieldIds) :
         /\ fields' = Merge(fields, [g \in {m[f] : f \in S} |->
              [Remapped(fields[AntiFunction(m)[g]], m) EXCEPT !.type = t, !.at = second]])
         /\ Commit({}, Missing(fields, m, m), Inherited(fields, m, m))
  BY <1>2, Zenon
<1>4. S \subseteq DOMAIN fields  BY ChosenAsked DEF FieldsOf
<1>5. m \in [S -> FieldIds \ DOMAIN fields] /\ IsInjective(m)  BY <1>3 DEF Fresh
<1> DEFINE g == [x \in {m[f] : f \in S} |->
             [Remapped(fields[AntiFunction(m)[x]], m) EXCEPT !.type = t, !.at = second]]
<1>6. DOMAIN g = {m[f] : f \in S} /\ fields' = Merge(fields, g)  BY <1>3
<1>7. DOMAIN m = S /\ \A f \in DOMAIN m : m[f] \in FieldIds  BY <1>5
<1>8. ASSUME NEW f \in S
      PROVE  /\ g[m[f]].type = t /\ g[m[f]].adv = fields[f].adv
             /\ fields[f].adv => g[m[f]].depend =
                  {IF r \in DOMAIN m THEN m[r] ELSE r : r \in fields[f].depend}
  <2> DEFINE row == Remapped(fields[f], m)
  <2>1. AntiFunction(m)[m[f]] = f  BY <1>5, BackToSource
  <2>2. g[m[f]] = [row EXCEPT !.type = t, !.at = second]  BY <2>1
  <2>3. fields[f] \in FieldRow  BY <1>0, <1>4
  <2>4. /\ row \in FieldRow /\ row.adv = fields[f].adv
        /\ fields[f].adv => row.depend =
             {IF r \in DOMAIN m THEN m[r] ELSE r : r \in fields[f].depend}
    BY <1>7, <2>3, RemappedRow
  <2> HIDE DEF g, row
  <2>5. g[m[f]].type = t /\ g[m[f]].adv = row.adv /\ g[m[f]].depend = row.depend
    BY <2>2, <2>4 DEF FieldRow
  <2> QED  BY <2>4, <2>5
<1> HIDE DEF g
<1>9. Copies(fields, S, m, m, t, g)
  BY <1>0, <1>1, <1>4, <1>5, <1>6, <1>7, <1>8 DEF Copies
<1>10. Unsound(fields') \ Unsound(fields) \subseteq
        Missing(fields, m, m) \union Inherited(fields, m, m)
  BY <1>6, <1>9, CopiesReported
<1>11. ReferencesSound  BY DEF ConfigInv
<1> QED  BY <1>3, <1>10, <1>11, ReportsHold

(* and an import.                                                           *)
LEMMA ImportSound ==
  ASSUME ConfigInv, NEW p \in payload, NEW t \in TypeIds, NEW skip \in BOOLEAN,
         ImportInto(p, t, skip)
  PROVE  ReferencesSound'
<1>0. /\ DOMAIN p.fields \subseteq FieldIds /\ \A f \in DOMAIN p.fields : p.fields[f] \in FieldRow
  BY DEF ConfigInv, ConfigTypes, PayloadTyped
<1>1. PICK first \in Named(p.fields, {fields[f].name : f \in FieldsOf(t)}) :
       \E m \in OwnIds(IF skip THEN first ELSE DOMAIN p.fields, DOMAIN fields, FieldIds) :
       \E same \in SameName(p.fields, IF skip THEN first ELSE DOMAIN p.fields, m, t) :
         /\ fields' = Merge(fields, [g \in {m[f] : f \in IF skip THEN first ELSE DOMAIN p.fields} |->
              LET f == AntiFunction(m)[g]
              IN  Arrived(Remapped(p.fields[f], Merge(m, same)), g, f, first, t)])
         /\ Commit({}, Missing(p.fields, m, Merge(m, same)),
                   Inherited(p.fields, m, Merge(m, same)))
  BY ZenonT(60) DEF ImportInto
<1> DEFINE S == IF skip THEN first ELSE DOMAIN p.fields
<1>2. S \subseteq DOMAIN p.fields  BY DEF Named
<1> HIDE DEF S
<1>3. PICK m \in OwnIds(S, DOMAIN fields, FieldIds) :
       \E same \in SameName(p.fields, S, m, t) :
         /\ fields' = Merge(fields, [g \in {m[f] : f \in S} |->
              LET f == AntiFunction(m)[g]
              IN  Arrived(Remapped(p.fields[f], Merge(m, same)), g, f, first, t)])
         /\ Commit({}, Missing(p.fields, m, Merge(m, same)),
                   Inherited(p.fields, m, Merge(m, same)))
  BY <1>1, Zenon DEF S
<1>4. PICK same \in SameName(p.fields, S, m, t) :
         /\ fields' = Merge(fields, [g \in {m[f] : f \in S} |->
              LET f == AntiFunction(m)[g]
              IN  Arrived(Remapped(p.fields[f], Merge(m, same)), g, f, first, t)])
         /\ Commit({}, Missing(p.fields, m, Merge(m, same)),
                   Inherited(p.fields, m, Merge(m, same)))
  BY <1>3, Zenon
<1>5. m \in [S -> FieldIds \ DOMAIN fields] /\ IsInjective(m)  BY <1>3 DEF OwnIds, Fresh
<1>6. same \in [DOMAIN p.fields \ S -> FieldIds]  BY <1>4 DEF SameName
<1>7. DOMAIN m = S /\ \A f \in DOMAIN m : m[f] \in FieldIds  BY <1>5
<1> DEFINE map == Merge(m, same)
           g == [x \in {m[f] : f \in S} |->
             LET f == AntiFunction(m)[x] IN Arrived(Remapped(p.fields[f], map), x, f, first, t)]
<1>8. \A f \in DOMAIN map : map[f] \in FieldIds
  <2>1. \A f \in DOMAIN same : same[f] \in FieldIds  BY <1>6
  <2> QED  BY <1>7, <2>1, MergedIds
<1>9. S \subseteq DOMAIN map /\ \A f \in S : map[f] = m[f]  BY <1>6, <1>7 DEF Merge
<1>10. DOMAIN g = {m[f] : f \in S} /\ fields' = Merge(fields, g)
  <2>1. fields' = Merge(fields, g)  BY <1>4, Zenon
  <2> QED  BY <2>1
<1> HIDE DEF map
<1>11. ASSUME NEW f \in S
       PROVE  /\ g[m[f]].type = t /\ g[m[f]].adv = p.fields[f].adv
              /\ p.fields[f].adv => g[m[f]].depend =
                   {IF r \in DOMAIN map THEN map[r] ELSE r : r \in p.fields[f].depend}
  <2> DEFINE row == Remapped(p.fields[f], map)
  <2>1. AntiFunction(m)[m[f]] = f  BY <1>5, BackToSource
  <2>2. g[m[f]] = Arrived(row, m[f], f, first, t)  BY <2>1
  <2>3. p.fields[f] \in FieldRow  BY <1>0, <1>2
  <2>4. /\ row \in FieldRow /\ row.adv = p.fields[f].adv
        /\ p.fields[f].adv => row.depend =
             {IF r \in DOMAIN map THEN map[r] ELSE r : r \in p.fields[f].depend}
    BY <1>8, <2>3, RemappedRow
  <2> HIDE DEF g, row
  <2>5. g[m[f]].type = t /\ g[m[f]].adv = row.adv /\ g[m[f]].depend = row.depend
    BY <2>2, <2>4 DEF FieldRow, Arrived
  <2> QED  BY <2>4, <2>5
<1> HIDE DEF g
<1>12. Copies(p.fields, S, m, map, t, g)
  BY <1>0, <1>2, <1>5, <1>9, <1>10, <1>11, Zenon DEF Copies
<1>13. Unsound(fields') \ Unsound(fields) \subseteq
         Missing(p.fields, m, map) \union Inherited(p.fields, m, map)
  BY <1>10, <1>12, CopiesReported
<1>14. Commit({}, Missing(p.fields, m, map), Inherited(p.fields, m, map))
  BY <1>4 DEF map
<1>15. ReferencesSound  BY DEF ConfigInv
<1> QED  BY <1>13, <1>14, <1>15, ReportsHold

-----------------------------------------------------------------------------
(* The invariant *)

(* Where a configuration starts from, nothing was left unsound. *)
LEMMA ConfigBegins ==
  ASSUME ConfigInit
  PROVE  ConfigInv
<1>1. PICK s \in Start :
        /\ types = s.types /\ fields = s.fields /\ rules = s.rules
        /\ params = s.params /\ files = s.files /\ projects = s.projects
  BY DEF ConfigInit
<1>2. /\ draft = [e \in Editors |-> {}] /\ payload = {} /\ page = {} /\ second = 1 /\ steps = 0
      /\ told = {} /\ known = {}
  BY DEF ConfigInit
<1>3. /\ DOMAIN types \subseteq TypeIds /\ \A t \in DOMAIN types : types[t] \in TypeRow
      /\ Default \in DOMAIN types
      /\ types[Default].project = None /\ types[Default].parent = None
      /\ DOMAIN fields \subseteq FieldIds
      /\ \A f \in DOMAIN fields : fields[f] \in FieldRow /\ fields[f].at <= 1
      /\ DOMAIN rules \subseteq RuleIds
      /\ \A r \in DOMAIN rules : rules[r] \in RuleRow /\ rules[r].at <= 1
      /\ params \subseteq TypeIds \X Keys /\ projects \subseteq Projects
      /\ files \in UNION {[S -> DOMAIN types] : S \in SUBSET FileIds}
      /\ Unsound(fields) = {}
  BY <1>1, StartSound, Zenon
<1>4. second \in 1..MaxNow /\ steps \in 0..MaxSteps  BY <1>2, ConfigBounds
<1>5. ConfigTypeOK  BY <1>3, <1>4, Zenon DEF ConfigTypeOK
<1>6. \A e \in Editors : draft[e] = {}  BY <1>2
<1>7. DraftTyped /\ DraftChecked  BY <1>2, <1>6 DEF DraftTyped, DraftChecked
<1>8. PayloadTyped /\ PageTyped /\ PageHolds  BY <1>2 DEF PayloadTyped, PageTyped, PageHolds
<1>9. RowsDated  BY <1>2, <1>3 DEF RowsDated
<1>10. ReferencesSound  BY <1>3 DEF ReferencesSound
<1> QED  BY <1>5, <1>7, <1>8, <1>9, <1>10 DEF ConfigInv, ConfigTypes

(* A commit that writes what has a type, and makes nothing unsound in       *)
(* silence, keeps the invariant.                                            *)
LEMMA CommitHolds ==
  ASSUME ConfigInv, Writes, ReferencesSound'
  PROVE  ConfigInv'
<1>1. FieldsWritten /\ RulesWritten /\ TablesTyped' /\ Committed  BY Zenon DEF Writes
<1>2. PICK E \in SUBSET Editors, reported \in SUBSET (FieldIds \X FieldIds),
           gap \in SUBSET (FieldIds \X FieldIds) : Commit(E, reported, gap)
  BY <1>1, Zenon DEF Committed
<1>3. /\ \A f \in DOMAIN fields' : fields'[f] \in FieldRow
      /\ \A r \in DOMAIN rules' : rules'[r] \in RuleRow
      /\ second' \in 1..MaxNow /\ steps' \in 0..MaxSteps
      /\ DraftTyped' /\ PayloadTyped' /\ RowsDated' /\ DraftChecked'
      /\ PageTyped' /\ PageHolds'
  BY <1>1, <1>2, CommitKeeps DEF ConfigInv
<1>4. ConfigTypeOK'
  BY <1>1, <1>3, Zenon DEF ConfigTypeOK, TablesTyped, FieldsWritten, RulesWritten
<1> QED  BY <1>3, <1>4 DEF ConfigInv, ConfigTypes

(* No step breaks the invariant.                                            *)
LEMMA ConfigStep ==
  ASSUME ConfigInv, [ConfigNext]_configVars
  PROVE  ConfigInv'
<1>0. ConfigTypes /\ ReferencesSound  BY DEF ConfigInv
<1>1. CASE UNCHANGED configVars
  <2>1. /\ Still /\ draft' = draft /\ payload' = payload /\ page' = page /\ second' = second
        /\ steps' = steps /\ told' = told /\ known' = known
    BY <1>1 DEF configVars, Still
  <2>2. ConfigTypeOK'  BY <1>0, <2>1 DEF Still, ConfigTypes, ConfigTypeOK
  <2>3. DraftTyped' /\ PayloadTyped' /\ PageTyped'
    BY <1>0, <2>1, Zenon DEF ConfigTypes, DraftTyped, PayloadTyped, PageTyped
  <2>4. RowsDated'  BY <1>0, <2>1, Zenon DEF Still, ConfigTypes, RowsDated
  <2>5. DraftChecked'
    BY <2>1 DEF ConfigInv, DraftChecked, SaveChecked, DeleteChecked, FieldsOf, Referrers, Still
  <2>6. PageHolds'  BY <2>1 DEF ConfigInv, PageHolds, FieldsOf, RulesOf, Still
  <2>7. ReferencesSound'  BY <2>1, <1>0, Zenon DEF ReferencesSound, Still
  <2> QED  BY <2>2, <2>3, <2>4, <2>5, <2>6, <2>7 DEF ConfigInv, ConfigTypes
<1>2. CASE \E e \in Editors :
             CheckSave(e) \/ CommitSave(e) \/ SaveFails(e) \/ CheckDelete(e) \/ CommitDelete(e)
  <2>1. PICK e \in Editors :
          CheckSave(e) \/ CommitSave(e) \/ SaveFails(e) \/ CheckDelete(e) \/ CommitDelete(e)
    BY <1>2
  <2>2. CASE CheckSave(e) \/ SaveFails(e) \/ CheckDelete(e)  BY <2>2, CheckSteps
  <2>3. CASE CommitSave(e)  BY <1>0, <2>3, FieldRequests, SaveSound, CommitHolds
  <2>4. CASE CommitDelete(e)  BY <1>0, <2>4, FieldRequests, DeleteSound, CommitHolds
  <2> QED  BY <2>1, <2>2, <2>3, <2>4
<1>3. CASE SaveRule \/ DeleteRule \/ SaveParam \/ DeleteParam
  <2>1. Edit /\ fields' = fields  BY <1>3 DEF SaveRule, DeleteRule, SaveParam, DeleteParam
  <2> QED  BY <1>0, <1>3, <2>1, RuleAndParamRequests, EditSound, CommitHolds
<1>4. CASE CreateType \/ MarkTemplate \/ Upload
  <2>1. Edit /\ fields' = fields  BY <1>4 DEF CreateType, MarkTemplate, Upload
  <2> QED  BY <1>0, <1>4, <2>1, TypeRequests, EditSound, CommitHolds
<1>5. CASE SaveProject \/ DeleteProject \/ AssignProject
  <2>1. Edit /\ fields' = fields  BY <1>5 DEF SaveProject, DeleteProject, AssignProject
  <2> QED  BY <1>0, <1>5, <2>1, ProjectRequests, EditSound, CommitHolds
<1>6. CASE RenameType  BY <1>0, <1>6, RenameWrites, TypesSound, CommitHolds
<1>7. CASE DeleteTypes  BY <1>0, <1>7, DeleteWrites, TypesSound, CommitHolds
<1>8. CASE Copy
  <2>1. PICK t \in DOMAIN types, s \in DOMAIN types :
          \E asked \in SUBSET FieldsOf(s), skip \in BOOLEAN : CopyFrom(t, s, asked, skip)
    BY <1>8, Zenon DEF Copy
  <2>2. PICK asked \in SUBSET FieldsOf(s), skip \in BOOLEAN : CopyFrom(t, s, asked, skip)
    BY <2>1, Zenon
  <2> QED  BY <1>0, <2>2, CopyWrites, CopySound, CommitHolds
<1>9. CASE Import
  <2>1. PICK p \in payload, t \in TypeIds, skip \in BOOLEAN : ImportInto(p, t, skip)
    BY <1>9, Zenon DEF Import
  <2> QED  BY <1>0, <2>1, ImportWrites, ImportSound, CommitHolds
<1>10. CASE Export \/ OpenPage \/ NextSecond  BY <1>10, OtherSteps
<1> QED
  BY <1>1, <1>2, <1>3, <1>4, <1>5, <1>6, <1>7, <1>8, <1>9, <1>10, Zenon DEF ConfigNext

(* What ConfigInv says holds at every time.                                 *)
LEMMA ConfigAlways == ConfigSpec => []ConfigInv
BY ConfigBegins, ConfigStep, PTL DEF ConfigSpec

-----------------------------------------------------------------------------
(* The theorems *)

(* The tables, drafts and clocks have their types; the default type never   *)
(* goes, and has neither a parent nor a project, whatever is renamed,       *)
(* deleted, copied to it or assigned.                                       *)
THEOREM ConfigTyped == ConfigSpec => []ConfigTypeOK
BY ConfigAlways, PTL DEF ConfigInv, ConfigTypes

(* No reference between fields leads nowhere in silence: the checks of      *)
(* upsert_field and delete_field, and the mapping of copy_configs and       *)
(* import_configs, leave out nothing but the gaps that are named.           *)
THEOREM ReferencesHold == ConfigSpec => []ReferencesSound
BY ConfigAlways, PTL DEF ConfigInv

(* _lineage_closure is exact in every state: the roots and all that descend *)
(* from them, through cycles and parents that were deleted.                 *)
THEOREM ClosureExact == ConfigSpec => []ClosureIsDescendants
<1>1. ConfigInv => ClosureIsDescendants
  BY ClosureReaches DEF ConfigInv, ConfigTypes, ConfigTypeOK
<1> QED  BY <1>1, ConfigAlways, PTL

(* The latest time of some rows is no less than that of each.               *)
LEMMA LatestIs ==
  ASSUME NEW rows, NEW S, NEW N \in Nat, \A i \in S : rows[i].at \in 0..N
  PROVE  /\ Latest(rows, S) \in Nat
         /\ \A i \in S : rows[i].at <= Latest(rows, S)
<1> DEFINE T == {0} \union {rows[i].at : i \in S}
           D == {N - i : i \in T}
<1>1. T \subseteq 0..N /\ D \subseteq Nat /\ D # {}  OBVIOUS
<1>2. PICK d \in D : \A y \in D : d <= y  BY <1>1, LeastNumber
<1>3. PICK l \in T : d = N - l  OBVIOUS
<1>4. \A i \in T : l >= i
  <2> SUFFICES ASSUME NEW i \in T PROVE l >= i
    OBVIOUS
  <2>1. N - l <= N - i  BY <1>2, <1>3
  <2> QED  BY <1>1, <2>1
<1>5. Latest(rows, S) = CHOOSE x \in T : \A y \in T : x >= y  BY DEF Latest, Max
<1>6. \A i \in S : rows[i].at \in T  OBVIOUS
<1> HIDE DEF T, D
<1>7. Latest(rows, S) \in T /\ \A y \in T : Latest(rows, S) >= y  BY <1>4, <1>5
<1>8. T \subseteq Nat  BY <1>1
<1> DEFINE last == Latest(rows, S)
<1> HIDE DEF last
<1>9. last \in Nat /\ \A i \in S : rows[i].at <= last
  <2>1. last \in Nat /\ \A y \in T : y \in Nat /\ last >= y  BY <1>7, <1>8 DEF last
  <2> QED  BY <1>6, <2>1
<1> QED  BY <1>9 DEF last

(* The larger of two numbers. *)
LEMMA LargerOfTwo ==
  ASSUME NEW m \in Nat, NEW n \in Nat
  PROVE  Max({m, n}) \in Nat /\ m <= Max({m, n}) /\ n <= Max({m, n})
<1>1. \E x \in {m, n} : \A y \in {m, n} : x >= y  OBVIOUS
<1> QED  BY <1>1 DEF Max

(* Rows that are all on a page, which has as many, are what it shows.       *)
LEMMA SameRows ==
  ASSUME NEW rows, NEW S, NEW Ids, IsFiniteSet(Ids), NEW shown, DOMAIN shown \subseteq Ids,
         shown = [i \in DOMAIN shown |-> shown[i]],
         \A i \in S : i \in DOMAIN shown /\ shown[i] = rows[i],
         Cardinality(S) = Cardinality(DOMAIN shown)
  PROVE  shown = Restrict(rows, S)
<1>1. IsFiniteSet(DOMAIN shown) /\ S \subseteq DOMAIN shown  BY FS_Subset
<1>2. S = DOMAIN shown  BY <1>1, FS_Subset
<1> QED  BY <1>2 DEF Restrict

(* get_config_version shows every change to a page that was opened after    *)
(* the second of the latest one.                                            *)
THEOREM ProbeSees == ConfigSpec => []ProbeSeesChanges
<1>1. ASSUME ConfigInv PROVE ProbeSeesChanges
  <2> SUFFICES ASSUME NEW p \in page, Version(p.type) = p.version,
                      p.at > Max({p.version[1], p.version[2]})
               PROVE  Config(p.type) = p.config
    BY DEF ProbeSeesChanges
  <2> DEFINE F == FieldsOf(p.type)
             R == RulesOf(p.type)
  <2>1. /\ p.at \in 1..second
        /\ p.config = <<[f \in DOMAIN p.config[1] |-> p.config[1][f]],
                        [r \in DOMAIN p.config[2] |-> p.config[2][r]]>>
        /\ DOMAIN p.config[1] \subseteq FieldIds /\ DOMAIN p.config[2] \subseteq RuleIds
        /\ p.version[3] = Cardinality(DOMAIN p.config[1])
        /\ p.version[4] = Cardinality(DOMAIN p.config[2])
    BY <1>1, Zenon DEF ConfigInv, ConfigTypes, PageTyped
  <2>2. /\ \A f \in DOMAIN fields : fields[f].at \in 0..MaxNow
        /\ \A r \in DOMAIN rules : rules[r].at \in 0..MaxNow
        /\ MaxNow \in Nat /\ second \in Nat
    BY <1>1, TablesAre DEF ConfigInv, FieldRow, RuleRow
  <2>3. F \subseteq DOMAIN fields /\ R \subseteq DOMAIN rules  BY DEF FieldsOf, RulesOf
  <2>4. /\ p.version[1] = Latest(fields, F) /\ p.version[2] = Latest(rules, R)
        /\ p.version[3] = Cardinality(F) /\ p.version[4] = Cardinality(R)
    BY DEF Version
  <2> HIDE DEF F, R
  <2>5. Latest(fields, F) \in Nat /\ \A f \in F : fields[f].at <= Latest(fields, F)
    BY <2>2, <2>3, LatestIs
  <2>6. Latest(rules, R) \in Nat /\ \A r \in R : rules[r].at <= Latest(rules, R)
    BY <2>2, <2>3, LatestIs
  <2>7. Latest(fields, F) < p.at /\ Latest(rules, R) < p.at
    <3> DEFINE l == Latest(fields, F)
               k == Latest(rules, R)
    <3>1. l \in Nat /\ k \in Nat /\ p.at > Max({l, k})  BY <2>4, <2>5, <2>6
    <3>2. p.at \in Nat  BY <2>1, <2>2
    <3> HIDE DEF l, k
    <3>3. Max({l, k}) \in Nat /\ l <= Max({l, k}) /\ k <= Max({l, k})  BY <3>1, LargerOfTwo
    <3>4. l < p.at /\ k < p.at  BY <3>1, <3>2, <3>3
    <3> QED  BY <3>4 DEF l, k
  <2>8. /\ \A f \in F : fields[f].at < p.at
        /\ \A r \in R : rules[r].at < p.at
    BY <2>1, <2>2, <2>3, <2>5, <2>6, <2>7
  <2>9. /\ \A f \in F : f \in DOMAIN p.config[1] /\ p.config[1][f] = fields[f]
        /\ \A r \in R : r \in DOMAIN p.config[2] /\ p.config[2][r] = rules[r]
    BY <1>1, <2>8 DEF ConfigInv, PageHolds, F, R
  <2>10. p.config[1] = Restrict(fields, F)
    <3>1. p.config[1] = [f \in DOMAIN p.config[1] |-> p.config[1][f]]  BY <2>1
    <3> QED  BY <2>1, <2>4, <2>9, <3>1, IdsFinite, SameRows
  <2>11. p.config[2] = Restrict(rules, R)
    <3>1. p.config[2] = [r \in DOMAIN p.config[2] |-> p.config[2][r]]  BY <2>1
    <3> QED  BY <2>1, <2>4, <2>9, <3>1, IdsFinite, SameRows
  <2>12. p.config = <<p.config[1], p.config[2]>>
    <3>1. p.config[1] = [f \in DOMAIN p.config[1] |-> p.config[1][f]]  BY <2>1
    <3>2. p.config[2] = [r \in DOMAIN p.config[2] |-> p.config[2][r]]  BY <2>1
    <3> QED  BY <2>1, <3>1, <3>2
  <2> QED  BY <2>10, <2>11, <2>12 DEF Config, F, R
<1> QED  BY <1>1, ConfigAlways, PTL

-----------------------------------------------------------------------------
(* Settings, logins and configuration together: each step is one part's and *)
(* leaves the variables of the others alone.                                *)
AdminInv == SettingsInv /\ LoginInv /\ ConfigInv

(* The variables of every part have their types. *)
THEOREM AdminTypes == AdminSpec => []AdminTypeOK
<1>1. AdminInit => AdminInv
  BY InitInv, LoginBegins, ConfigBegins DEF AdminInit, AdminInv
<1>2. AdminInv /\ [AdminNext]_adminVars => AdminInv'
  <2> SUFFICES ASSUME AdminInv, [AdminNext]_adminVars PROVE AdminInv'
    OBVIOUS
  <2>1. [SettingsNext]_settingsVars /\ [LoginNext]_loginVars /\ [ConfigNext]_configVars
    BY DEF AdminNext, adminVars
  <2>2. SettingsInv'  BY <2>1, StepInv DEF AdminInv
  <2>3. LoginInv'  BY <2>1, LoginTypeStep, LockoutStep, TokenStep DEF AdminInv, LoginInv
  <2>4. ConfigInv'  BY <2>1, ConfigStep DEF AdminInv
  <2> QED  BY <2>2, <2>3, <2>4, Zenon DEF AdminInv
<1>3. AdminInv => AdminTypeOK
  BY DEF AdminInv, SettingsInv, LoginInv, LoginTypes, ConfigInv, ConfigTypes, AdminTypeOK
<1> QED  BY <1>1, <1>2, <1>3, PTL DEF AdminSpec
=============================================================================
