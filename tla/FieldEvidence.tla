---------------------------- MODULE FieldEvidence ----------------------------
(***************************************************************************)
(* The extraction of ONE field: what evidence is gathered for it, what the  *)
(* model is shown, when an attempt counts as empty and is repeated, and     *)
(* when the field has succeeded (_extract_field_result and the executors it *)
(* calls in service/extraction_service.py, utils/empty_retry.py,            *)
(* service/vl_service/locate.py).                                           *)
(*                                                                         *)
(* A field has one channel, or a hybrid search over several: "union" joins  *)
(* what they find, "fallback" takes the first that finds something.  A      *)
(* channel searches the text, the pages, the tables, or shows pages to the  *)
(* vision model ("vl").  A hit is its key (_hybrid_ref_key); of a value the *)
(* module keeps whether it is blank.                                        *)
(***************************************************************************)
EXTENDS Orders, SequencesExt

CONSTANTS Configs,     \* the fields: [strategy, items, llm, prompt, budget,
                       \* linked, maxPages]; `linked`: the pages of the field
                       \* that page_source_field names, as sets of at most one
          TextKeys,    \* what a search of the text can hit
          TableKeys,   \* the tables of the file
          PageCount,
          PagePieces,  \* the pages of each piece of the page projection, in order
          Length,      \* of the text of a hit, with its page mark
          MaxLength,   \* max_length of the union
          PageLimit,   \* max_length of a search by page
          KeyLimit,    \* key_pages_limit
          FallbackPages,
          GridPages    \* pages on one contact sheet

ASSUME LengthsPositive ==
  \A k \in TextKeys \union TableKeys \union 1..PageCount \union DOMAIN PagePieces :
    Length[k] \in Nat \ {0}
ASSUME LimitsNatural ==
  {PageCount, MaxLength, PageLimit, KeyLimit, FallbackPages} \subseteq Nat /\ GridPages \in Nat \ {0}

(* A piece is text of one page, or a table with all the pages it spans. *)
ASSUME PagePiecesOK == PagePieces \in Seq(SUBSET (1..PageCount))

(* The editor offers the vision model to a fallback only, and only once; an *)
(* executor that meets another configuration raises.                        *)
ASSUME ConfigsOK ==
  \A f \in Configs :
    /\ f.strategy \in {"single", "union", "fallback"} /\ f.budget \in Nat
    /\ f.items \in Seq({"text", "table", "page", "vl"}) /\ Len(f.items) > 0
    /\ f.strategy = "union" => \A i \in DOMAIN f.items : f.items[i] # "vl"
    /\ f.strategy = "fallback" =>
         \A i, j \in DOMAIN f.items : f.items[i] = "vl" /\ f.items[j] = "vl" => i = j

VARIABLES field,    \* what is extracted
          phase,    \* "start", "search", "ask", "over"
          entries,  \* the channels of this attempt: [status, adopted, refs, value]
          merged,   \* the evidence of a union: [key, len, whole]
          seen,     \* keys that were taken
          inner,    \* how often the channel was repeated on its own
          ended,    \* the attempts that ended: [value, refs, marked, broke]
          runs,     \* how often each channel was run
          outcome   \* "none", "success", "failed"

evidenceVars == <<field, phase, entries, merged, seen, inner, ended, runs, outcome>>

Separator == 1   \* the length of what stands between two pieces
Hybrid == field.strategy # "single"

EvidenceInit ==
  /\ field \in Configs
  /\ phase = "start"
  /\ entries = <<>> /\ merged = <<>> /\ seen = {} /\ inner = 0
  /\ ended = <<>>
  /\ runs = [i \in DOMAIN field.items |-> 0]
  /\ outcome = "none"

-----------------------------------------------------------------------------
(* Pages *)

FirstOf(S, n) == {x \in S : Cardinality({y \in S : y < x}) < n}

(* derive_page_range_from_model_pages: one range, cut at maxPages. *)
PageRange(S, max) ==
  LET from == Least(S)
      to == Most(S)
  IN from..(IF max # 0 /\ to - from + 1 > max THEN from + max - 1 ELSE to)

(* pick_model_pages: the pages themselves. *)
PickedPages(S, max) == IF max > 0 THEN FirstOf(S, max) ELSE S

(* The pages a channel may read: those of the field it is linked to, which  *)
(* a model may have named wrongly, or all pages of the file.                *)
PagesFor(kind) ==
  IF field.linked = {} THEN 1..PageCount
  ELSE LET S == CHOOSE T \in field.linked : TRUE
       IN 1..PageCount \intersect
            (IF kind = "vl" THEN PickedPages(S, field.maxPages) ELSE PageRange(S, field.maxPages))

(* resolve_advanced_field: a link to a field without pages is an error. *)
Resolve ==
  /\ phase = "start"
  /\ IF field.linked = {{}}
       THEN phase' = "over" /\ outcome' = "failed"
       ELSE phase' = "search" /\ UNCHANGED outcome
  /\ UNCHANGED <<field, entries, merged, seen, inner, ended, runs>>

(* select_page_projection: the pieces that meet a range of pages.  A table  *)
(* over several pages comes whole, also with pages outside the range.       *)
Meeting(range) == {s \in DOMAIN PagePieces : PagePieces[s] \intersect range # {}}

(* The pieces of _extract_page_field: as many as fit, the last one cut. *)
PageHits(S) ==
  LET Take(acc, p) ==
        IF acc.full THEN acc
        ELSE [used |-> acc.used + Length[p], full |-> acc.used + Length[p] > PageLimit,
              out |-> Append(acc.out, p)]
  IN FoldLeft(Take, [used |-> 0, full |-> FALSE, out |-> <<>>], Ordered(S)).out

(* Mutant of KeyPages: what a sheet reports is not compared with it. *)
MutKeyPagesAny(S, report) ==
  LET found == UNION {report[g] : g \in DOMAIN report} \intersect 1..PageCount
      chosen == FirstOf(found, KeyLimit)
  IN IF chosen = {} THEN FirstOf(S, FallbackPages) ELSE chosen

(* vl_locate_extract: the target pages S are shown as contact sheets, all   *)
(* at once; `report` is what the model says of each, {} for a sheet that    *)
(* failed.  A page that is not on the sheet does not count.                 *)
Sheets(S) == 1..((Cardinality(S) + GridPages - 1) \div GridPages)
Sheet(S, g) == {p \in S : Cardinality({q \in S : q < p}) \div GridPages = g - 1}
KeyPages(S, report) ==
  LET found == UNION {report[g] \intersect Sheet(S, g) : g \in DOMAIN report}
      chosen == FirstOf(found, KeyLimit)
  IN IF chosen = {} THEN FirstOf(S, FallbackPages) ELSE chosen

-----------------------------------------------------------------------------
(* Channels *)

Hits(keys) == {<<>>} \union {<<k>> : k \in keys} \union {<<k, m>> : k, m \in keys}
Reply(refs, value) == [refs |-> refs, value |-> value, read |-> FALSE, status |-> "ok"]
Nothing == Reply(<<>>, FALSE)
Raises == [Nothing EXCEPT !.status = "raised"]
Marks == [Nothing EXCEPT !.status = "marked"]
Looked(S, report, v) == [Reply(Ordered(KeyPages(S, report)), v) EXCEPT !.read = TRUE]

(* The vision model may report any pages of any sheet, and give a value if  *)
(* it was shown a page.                                                     *)
Reports(S) == [Sheets(S) -> SUBSET (1..PageCount)]
Values(S) == {FALSE, S # {}}
VisionReplies(S) ==
  {Looked(S, report, v) : report \in Reports(S), v \in Values(S)} \union {Marks, Nothing}

(* What a channel may return.  A search by vectors raises; the choice of    *)
(* sections or of tables by the model and the vision model mark a failure   *)
(* and return nothing, as a file without its PDF does.  A PDF that was read *)
(* counts even if the vision model gave no value, or had no page to look    *)
(* at.                                                                      *)
Replies(kind) ==
  CASE kind = "text" -> {Reply(h, h # <<>>) : h \in Hits(TextKeys)} \union {Raises, Marks}
    [] kind = "table" -> {Reply(h, h # <<>>) : h \in Hits(TableKeys)} \union {Marks}
    [] kind = "page" ->
         {LET h == PageHits(S) IN Reply(h, h # <<>>) : S \in SUBSET Meeting(PagesFor("page"))}
    [] kind = "vl" -> VisionReplies(PagesFor("vl"))

(* Mutant of OwnBudget: every executor repeats on its own. *)
MutOwnBudgetAlways(nested) == field.budget

(* retry_empty: an executor within an attempt does not repeat. *)
OwnBudget(nested) == IF nested THEN 0 ELSE field.budget

(* _hybrid_evidence: the pieces of a channel that are new, as far as the    *)
(* limit of a search by page goes; a piece that is cut keeps a key of its   *)
(* own, so that a later channel may still show all of it.                   *)
Pieces(reply, limit, taken) ==
  LET Take(acc, k) ==
        LET n == IF limit.set /\ Length[k] > acc.room THEN acc.room ELSE Length[k]
            key == IF n < Length[k] THEN <<"partial", k, n>> ELSE <<"whole", k>>
        IN IF <<"whole", k>> \in acc.seen \/ (limit.set /\ acc.room <= 0) \/ key \in acc.seen
             THEN acc
           ELSE [seen |-> acc.seen \union {key},
                 room |-> acc.room - n - Separator,
                 out |-> Append(acc.out, [key |-> k, len |-> n, whole |-> n = Length[k]])]
  IN FoldLeft(Take, [seen |-> taken, room |-> limit.room, out |-> <<>>], reply.refs)

Total(pieces) == FoldLeft(LAMBDA n, p : n + p.len + Separator, 0, pieces) - Separator

(* Mutant of RoomLeft: the separator is not counted. *)
MutRoomLeftBare(shown) == IF shown = <<>> THEN MaxLength ELSE MaxLength - Total(shown)

RoomLeft(shown) ==
  IF shown = <<>> THEN MaxLength ELSE MaxLength - Total(shown) - Separator

(* The pieces join the evidence until there is no room, the last one cut. *)
JoinPieces(shown, pieces) ==
  LET Add(acc, p) ==
        LET room == RoomLeft(acc)
        IN IF room <= 0 THEN acc
           ELSE Append(acc, [p EXCEPT !.len = IF @ > room THEN room ELSE @,
                                      !.whole = @ /\ p.len <= room])
  IN FoldLeft(Add, shown, pieces)

Entry(status, adopted, reply) ==
  [status |-> status, adopted |-> adopted, refs |-> reply.refs, value |-> reply.value]

Chosen == {i \in DOMAIN entries : entries[i].adopted}

(* Mutant of Passed: every channel of a fallback is asked. *)
MutPassedNever == FALSE

(* A channel after the one that was taken is skipped. *)
Passed == field.strategy = "fallback" /\ Chosen # {}

Skip ==
  /\ phase = "search"
  /\ Len(entries) < Len(field.items)
  /\ Passed
  /\ entries' = Append(entries, Entry("skipped", FALSE, Nothing))
  /\ UNCHANGED <<field, phase, merged, seen, inner, ended, runs, outcome>>

(* A channel of a hybrid search: an exception and a failure that it marked  *)
(* (retry_failure_boundary) are an error of the channel, no more.           *)
RunChannel ==
  /\ Hybrid /\ phase = "search"
  /\ Len(entries) < Len(field.items)
  /\ ~Passed
  /\ LET i == Len(entries) + 1
         kind == field.items[i]
     IN /\ runs' = [runs EXCEPT ![i] = @ + 1]
        /\ \E reply \in Replies(kind) :
             LET matched == reply.value \/ reply.refs # <<>> \/ reply.read
                 limit == [set |-> kind = "page", room |-> PageLimit]
                 new == Pieces(reply, limit, seen)
                 all == JoinPieces(merged, new.out)
                 status == IF reply.status # "ok" THEN "error"
                           ELSE IF matched THEN "matched" ELSE "empty"
             IN IF ~matched /\ reply.status = "ok" /\ inner < OwnBudget(TRUE)
                  THEN inner' = inner + 1 /\ UNCHANGED <<entries, merged, seen>>
                ELSE IF field.strategy = "union"
                  THEN /\ merged' = all /\ seen' = new.seen /\ inner' = 0
                       /\ entries' = Append(entries, Entry(status, Len(all) > Len(merged), reply))
                ELSE /\ entries' = Append(entries, Entry(status, status = "matched", reply))
                     /\ inner' = 0 /\ UNCHANGED <<merged, seen>>
  /\ UNCHANGED <<field, phase, ended, outcome>>

-----------------------------------------------------------------------------
(* Attempts *)

(* Mutant of Repeats: a failure is taken for an empty result. *)
MutRepeatsFailed(result) == ~result.value /\ Len(ended) < field.budget

(* retry_empty: only an honest empty result is worth another attempt. *)
Repeats(result) == ~result.marked /\ ~result.value /\ Len(ended) < field.budget

(* An attempt ends with a result; the field has succeeded with a value or   *)
(* with real references (_ensure_valid_extraction_result).                  *)
Conclude(result) ==
  /\ ended' = Append(ended, result)
  /\ IF Repeats(result)
       THEN /\ phase' = "search" /\ UNCHANGED outcome
            /\ entries' = <<>> /\ merged' = <<>> /\ seen' = {}
       ELSE /\ phase' = "over"
            /\ outcome' = IF result.value \/ result.refs # {} THEN "success" ELSE "failed"
            /\ UNCHANGED <<entries, merged, seen>>
  /\ UNCHANGED <<field, inner>>

Result(value, refs, marked) ==
  [value |-> value, refs |-> refs, marked |-> marked, broke |-> marked]

(* An exception passes through retry_empty and fails the field. *)
Raise ==
  /\ phase' = "over" /\ outcome' = "failed"
  /\ ended' = Append(ended, [Result(FALSE, {}, FALSE) EXCEPT !.broke = TRUE])
  /\ UNCHANGED <<field, entries, merged, seen, inner>>

(* A field with one channel: nothing found and a failure end the attempt,   *)
(* the vision model has given the value.                                    *)
RunSingle ==
  /\ ~Hybrid /\ phase = "search" /\ entries = <<>>
  /\ runs' = [runs EXCEPT ![1] = @ + 1]
  /\ LET kind == field.items[1]
     IN \E reply \in Replies(kind) :
          CASE reply.status = "raised" -> Raise
            [] reply.status = "marked" -> Conclude(Result(FALSE, {}, TRUE))
            [] reply.status = "ok" /\ (kind = "vl" \/ reply.refs = <<>>) ->
                 Conclude(Result(reply.value, {}, FALSE))
            [] OTHER ->
                 /\ entries' = <<Entry("matched", TRUE, reply)>>
                 /\ phase' = "ask"
                 /\ UNCHANGED <<field, merged, seen, inner, ended, outcome>>

(* All channels were asked. *)
Gathered ==
  /\ Hybrid /\ phase = "search"
  /\ Len(entries) = Len(field.items)
  /\ phase' = "ask"
  /\ UNCHANGED <<field, entries, merged, seen, inner, ended, runs, outcome>>

(* What the model would be shown, as keys. *)
Shown ==
  IF field.strategy = "union" THEN {merged[j].key : j \in DOMAIN merged}
  ELSE UNION {ToSet(entries[i].refs) : i \in Chosen}

(* A hybrid search that fell back on the vision model has its value, and no *)
(* reference that counts.                                                   *)
ByVision == Hybrid /\ \E i \in Chosen : field.items[i] = "vl"

(* Without a model the evidence is the value; a single field whose prompt   *)
(* has no placeholder gives up.                                             *)
Answered ==
  /\ phase = "ask"
  /\ CASE ByVision -> Conclude(Result(\E i \in Chosen : entries[i].value, {}, FALSE))
       [] ~ByVision /\ (Shown = {} \/ ~field.llm) ->
            Conclude(Result(Shown # {}, Shown, FALSE))
       [] ~ByVision /\ Shown # {} /\ field.llm /\ ~Hybrid /\ ~field.prompt ->
            Conclude(Result(FALSE, {}, FALSE))
       [] OTHER -> \E v \in BOOLEAN : Conclude(Result(v, Shown, FALSE))
  /\ UNCHANGED runs

(* The model fails: a hybrid search fails with it, a single field marks the *)
(* failure and is empty.                                                    *)
ModelFails ==
  /\ phase = "ask"
  /\ Shown # {} /\ field.llm /\ ~ByVision /\ (Hybrid \/ field.prompt)
  /\ IF Hybrid THEN Raise ELSE Conclude(Result(FALSE, {}, TRUE))
  /\ UNCHANGED runs

EvidenceNext ==
  \/ Resolve \/ Skip \/ RunChannel \/ RunSingle \/ Gathered \/ Answered \/ ModelFails
  \/ phase = "over" /\ UNCHANGED evidenceVars

EvidenceSpec == EvidenceInit /\ [][EvidenceNext]_evidenceVars

-----------------------------------------------------------------------------
(* Properties *)

AllKeys == TextKeys \union TableKeys \union 1..PageCount \union DOMAIN PagePieces

(* Type correctness. *)
EvidenceTypeOK ==
  /\ phase \in {"start", "search", "ask", "over"}
  /\ outcome \in {"none", "success", "failed"}
  /\ \A j \in DOMAIN merged : merged[j].key \in AllKeys /\ merged[j].len \in 1..Length[merged[j].key]
  /\ \A i \in DOMAIN entries :
       entries[i].status \in {"matched", "empty", "error", "skipped"} /\ ToSet(entries[i].refs) \subseteq AllKeys
  /\ inner \in Nat /\ (outcome = "none" <=> phase # "over")

(* A fallback takes the first channel that found something, and none after  *)
(* it.                                                                      *)
FirstTaken ==
  field.strategy = "fallback" =>
    /\ Cardinality(Chosen) <= 1
    /\ \A i \in Chosen :
         /\ \A j \in 1..i - 1 : entries[j].status \in {"empty", "error"}
         /\ \A j \in i + 1..Len(entries) : entries[j].status = "skipped"

(* A union keeps to its length, separators included, and shows no hit       *)
(* twice, unless it was cut before.                                         *)
UnionWithin ==
  field.strategy = "union" /\ merged # <<>> =>
    /\ Total(merged) <= MaxLength
    /\ \A i, j \in DOMAIN merged : i < j /\ merged[i].key = merged[j].key => ~merged[i].whole

(* The vision model looks closely at pages of its field and at no others,   *)
(* whatever it reported of the contact sheets.                              *)
SheetsKept ==
  \A i \in DOMAIN entries :
    field.items[i] = "vl" => ToSet(entries[i].refs) \subseteq PagesFor("vl")

(* The evidence of a field is what its configuration promises.              *)
EvidenceSound == FirstTaken /\ UnionWithin /\ SheetsKept

(* Only an honest empty result is repeated, as often as was configured: a   *)
(* failure of the model is not, and the failure of a channel that a hybrid  *)
(* search survived keeps nothing from being repeated.  Channels share the   *)
(* attempts of their field, and the field succeeds only with a value or a   *)
(* reference of its last attempt.                                           *)
RetriesHonest ==
  /\ Len(ended) <= field.budget + 1
  /\ \A k \in 1..Len(ended) - 1 : ~ended[k].value /\ ~ended[k].broke
  /\ outcome # "none" /\ ended # <<>> =>
       Last(ended).value \/ Last(ended).broke \/ Len(ended) = field.budget + 1
  /\ \A i \in DOMAIN runs : runs[i] <= Len(ended) + 1
  /\ outcome = "success" => ended # <<>> /\ (Last(ended).value \/ Last(ended).refs # {})
=============================================================================
