----------------------------- MODULE MCDocument -----------------------------
(* FieldExtraction, Indexing and FieldEvidence for TLC, in one run.  They   *)
(* share no state: a behaviour moves one part and leaves the others where   *)
(* they start.                                                              *)
EXTENDS FieldExtraction, MCIndexing, FieldEvidence, TLC

VARIABLE part
docVars == <<vars, indexVars, evidenceVars, part>>

-----------------------------------------------------------------------------
(* Fields to start from *)

CONSTANTS c1, c2, tb

MCLength == (c1 :> 2) @@ (c2 :> 3) @@ (tb :> 2) @@ (1 :> 2) @@ (2 :> 3) @@ (3 :> 1)

(* A page of text, a table over two pages, and the rest of the last page. *)
MCPagePieces == <<{1}, {2, 3}, {3}>>

ConfigOf(s, items, llm, budget, linked) ==
  [strategy |-> s, items |-> items, llm |-> llm, prompt |-> TRUE, budget |-> budget,
   linked |-> linked, maxPages |-> 2]

SearchKinds == {"text", "page", "table"}

MCConfigs ==
  {[ConfigOf("single", <<k>>, l, b, {}) EXCEPT !.prompt = p] :
     k \in SearchKinds \union {"vl"}, l, p \in BOOLEAN, b \in 0..2}
  \union {ConfigOf("single", <<k>>, TRUE, 1, {S}) :
            k \in {"page", "vl"}, S \in SUBSET (1..3) \union {{2, 4}, {5}}}
  \union {ConfigOf("union", <<j, k>>, TRUE, b, {}) : j, k \in SearchKinds, b \in 0..1}
  \union {ConfigOf("fallback", <<j, "vl", k>>, l, b, {{1, 3}}) :
            j, k \in SearchKinds, l \in BOOLEAN, b \in 0..1}

-----------------------------------------------------------------------------

IdleField == ConfigOf("single", <<"text">>, TRUE, 0, {})

DocInit ==
  /\ part \in {"fields", "index", "evidence"}
  /\ Init /\ IndexInit /\ EvidenceInit
  /\ part # "fields" => debug = {}
  /\ part # "index" => input = IdleDocument
  /\ part # "evidence" => field = IdleField

(* An index may rest when its stages have ended. *)
DocNext ==
  \/ part = "fields" /\ Next /\ UNCHANGED <<indexVars, evidenceVars, part>>
  \/ part = "index" /\ IndexNext /\ UNCHANGED <<vars, evidenceVars, part>>
  \/ part = "index" /\ stage \in {"done", "failed"} /\ UNCHANGED docVars
  \/ part = "evidence" /\ EvidenceNext /\ UNCHANGED <<vars, indexVars, part>>

DocSpec == DocInit /\ [][DocNext]_docVars /\ Fairness

(* The variables of every part have their types. *)
DocTypeOK == TypeOK /\ IndexTypeOK /\ EvidenceTypeOK
=============================================================================
