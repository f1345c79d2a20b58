--------------------------- MODULE MCFilePipeline ---------------------------
(* FilePipeline for TLC.                                                    *)
EXTENDS FilePipeline, TLC

(* A document that yields something at every stage. *)
OneDoc == {Artifacts}

(* Also: a type without embedding and a document without tables; a text     *)
(* that yields no chunk; a type without fields and rules.                   *)
SeveralDocs ==
  {Artifacts,
   {"content", "chunks", "extraction", "analysis"},
   {"content", "extraction", "analysis"},
   {"content", "tables", "chunks", "vectors"}}

(* The least a document must yield to come through every stage; for runs    *)
(* whose properties do not look at what is stored.                          *)
SmallDoc == {{"content", "chunks", "vectors"}}

World(faults, retries) == {[faults |-> faults, retries |-> retries]}

(* Anything at any time. *)
AnyWorld == World(FaultKinds, {"any"})

(* Clients with one request per file: those that retry the failed stage and *)
(* those that also retry earlier stages and complete files.  Each kind once *)
(* where anything may fail, and once without the faults the properties make *)
(* an exemption for, which then say exactly what is stored.                 *)
PoliteWorlds ==
  World(FaultKinds \ {"deletebusy"}, {"failed"})
  \cup World(FaultKinds \ {"deletebusy", "milvus", "db"}, {"failed"})
  \cup World(FaultKinds \ {"deletebusy"}, {"failed", "earlier", "complete"})
  \cup World(FaultKinds \ {"deletebusy", "milvus", "db"},
             {"failed", "earlier", "complete"})

(* The worlds of the three findings. *)
RestartWorld == World({"crash"}, {"complete"})
BusyWorld == World({"deletebusy"}, {"failed"})

RunSymmetry == Permutations(Runs)
=============================================================================
