----------------------------- MODULE Embedding ------------------------------
(***************************************************************************)
(* The vectors of ONE file (service/embedding_service.py, get_embeddings of *)
(* utils/llm_client.py, insert of utils/milvus_client.py).                  *)
(*                                                                         *)
(* A CALL is one run of the embedding stage: it sends the texts of the      *)
(* subchunks in batches, concurrently, each batch under the file's pool and *)
(* the global one and each with its own retries; it puts the answers into   *)
(* slots, joins the slots and inserts rows into Milvus.  A batch that fails *)
(* for good ends the call, but its sibling batches run on: their answers    *)
(* may come when a retry of the stage, perhaps with other texts, is under   *)
(* way.                                                                     *)
(*                                                                         *)
(* The vector of a text is written as the text.                             *)
(***************************************************************************)
EXTENDS Integers, FiniteSets, SequencesExt

CONSTANTS Texts,        \* what a subchunk may say
          Calls,        \* the runs of the stage, 1..n
          Retries,      \* embedding.retry_count
          TaskSlots,    \* concurrency.task_embedding
          GlobalSlots,  \* concurrency.global_embedding
          InsertRows    \* rows that fit into max_insert_bytes

ASSUME CallsNumbered == IsFiniteSet(Calls) /\ Calls = 1..Cardinality(Calls)
ASSUME BoundsPositive == {Retries, TaskSlots, GlobalSlots, InsertRows} \subseteq Nat \ {0}

VARIABLES stage,    \* of the file: "none", "sending", "inserting", "done", "failed"
          current,  \* the call of the stage, 0 before the first
          texts,    \* the texts of each call, as it was started
          size,     \* embedding.batch_size
          faults,   \* what may go wrong: "refuse", "drop", "short", "milvus"
          batch,    \* the state of each batch of each call
          tries,    \* how often each batch was sent
          slots,    \* the answers of each call
          stored    \* the rows of the file in Milvus

embeddingVars == <<stage, current, texts, size, faults, batch, tries, slots, stored>>

EmbeddingFaults == {"refuse", "drop", "short", "milvus"}

EmbeddingInit ==
  /\ stage = "none" /\ current = 0
  /\ size \in Nat \ {0} /\ faults \in SUBSET EmbeddingFaults
  /\ texts = [c \in Calls |-> <<>>]
  /\ batch = [c \in Calls |-> <<>>]
  /\ tries = [c \in Calls |-> <<>>]
  /\ slots = [c \in Calls |-> <<>>]
  /\ stored = <<>>

-----------------------------------------------------------------------------
(* range(0, len(texts), batch_size) *)
BatchCount(n) == (n + size - 1) \div size
BatchTexts(c, b) ==
  SubSeq(texts[c], (b - 1) * size + 1, IF b * size < Len(texts[c]) THEN b * size ELSE Len(texts[c]))

Batches(c) == DOMAIN batch[c]
InFlight(c) == {b \in Batches(c) : batch[c][b] = "sent"}

(* The stage starts, or is retried: the retry has deleted the vectors of    *)
(* the file.  Without texts there is nothing to send.                       *)
StartCall(given) ==
  /\ stage \in {"none", "done", "failed"}
  /\ current + 1 \in Calls
  /\ current' = current + 1
  /\ texts' = [texts EXCEPT ![current'] = given]
  /\ LET n == BatchCount(Len(given))
     IN /\ batch' = [batch EXCEPT ![current'] = [b \in 1..n |-> "waiting"]]
        /\ tries' = [tries EXCEPT ![current'] = [b \in 1..n |-> 0]]
        /\ slots' = [slots EXCEPT ![current'] = [b \in 1..n |-> <<>>]]
  /\ stage' = IF given = <<>> THEN "done" ELSE "sending"
  /\ stored' = <<>>
  /\ UNCHANGED <<size, faults>>

(* Mutant of Admitted: the global pool is not asked. *)
MutAdmittedLocally(c) == Cardinality(InFlight(c)) < TaskSlots

(* The pool of the file is made by the call; the global one is shared with  *)
(* the calls that were left behind.                                         *)
Admitted(c) ==
  /\ Cardinality(InFlight(c)) < TaskSlots
  /\ Cardinality(UNION {{<<d, b>> : b \in InFlight(d)} : d \in Calls}) < GlobalSlots

(* The HTTP client is closed when its call ends: a batch that is sent later *)
(* fails, one that was on its way may still be answered.                    *)
Left(c) == c # current \/ stage # "sending"

Send(c, b) ==
  /\ batch[c][b] = "waiting"
  /\ Admitted(c)
  /\ batch' = [batch EXCEPT ![c][b] = IF Left(c) THEN "failed" ELSE "sent"]
  /\ tries' = [tries EXCEPT ![c][b] = @ + 1]
  /\ UNCHANGED <<stage, current, texts, size, faults, slots, stored>>

(* Mutant of Put: the answers are kept in the order in which they come. *)
MutPutNext(kept, b, vectors) ==
  LET free == {i \in DOMAIN kept : kept[i] = <<>>}
  IN [kept EXCEPT ![CHOOSE i \in free : \A j \in free : i <= j] = vectors]

(* slots[batch_index] = ... *)
Put(kept, b, vectors) == [kept EXCEPT ![b] = vectors]

(* An answer; "short": one vector less than there were texts. *)
Answer(c, b) ==
  /\ batch[c][b] = "sent"
  /\ LET all == BatchTexts(c, b)
     IN \E n \in {Len(all)} \union (IF "short" \in faults THEN {Len(all) - 1} ELSE {}) :
          slots' = [slots EXCEPT ![c] = Put(@, b, SubSeq(all, 1, n))]
  /\ batch' = [batch EXCEPT ![c][b] = "answered"]
  /\ UNCHANGED <<stage, current, texts, size, faults, tries, stored>>

(* The first failure of a batch ends the call that waits for it. *)
Broken(c) == stage' = IF c = current /\ stage = "sending" THEN "failed" ELSE stage

(* No answer, or one that asks to come back: the batch waits and is sent    *)
(* again, unless this was the last try.                                     *)
DropAnswer(c, b) ==
  /\ "drop" \in faults
  /\ batch[c][b] = "sent"
  /\ IF tries[c][b] < Retries
       THEN batch' = [batch EXCEPT ![c][b] = "waiting"] /\ UNCHANGED stage
       ELSE batch' = [batch EXCEPT ![c][b] = "failed"] /\ Broken(c)
  /\ UNCHANGED <<current, texts, size, faults, tries, slots, stored>>

(* A refusal is not tried again, nor an answer that cannot be read. *)
RefuseBatch(c, b) ==
  /\ "refuse" \in faults \/ Left(c)
  /\ batch[c][b] = "sent"
  /\ batch' = [batch EXCEPT ![c][b] = "failed"]
  /\ Broken(c)
  /\ UNCHANGED <<current, texts, size, faults, tries, slots, stored>>

-----------------------------------------------------------------------------
(* The vectors of a call, slot after slot. *)
Joined(c) == FlattenSeq(slots[c])

(* Every batch was answered.  submit_to_milvus compares the numbers, but    *)
(* takes no vectors at all for nothing to do.                               *)
Collect ==
  /\ stage = "sending"
  /\ \A b \in Batches(current) : batch[current][b] = "answered"
  /\ stage' = IF Joined(current) = <<>> THEN "done"
              ELSE IF Len(Joined(current)) = Len(texts[current]) THEN "inserting" ELSE "failed"
  /\ UNCHANGED <<current, texts, size, faults, batch, tries, slots, stored>>

(* The next batch of rows, of those that plan_insert_batches makes. *)
Insert ==
  /\ stage = "inserting"
  /\ LET done == Len(stored)
         last == IF done + InsertRows < Len(texts[current]) THEN done + InsertRows
                 ELSE Len(texts[current])
     IN /\ stored' = stored \o [i \in 1..last - done |->
                              [call |-> current, at |-> done + i,
                               text |-> texts[current][done + i],
                               vector |-> Joined(current)[done + i]]]
        /\ stage' = IF last = Len(texts[current]) THEN "done" ELSE stage
  /\ UNCHANGED <<current, texts, size, faults, batch, tries, slots>>

(* Milvus fails at a batch: the batches before it are stored. *)
InsertFails ==
  /\ "milvus" \in faults
  /\ stage = "inserting"
  /\ stage' = "failed"
  /\ UNCHANGED <<current, texts, size, faults, batch, tries, slots, stored>>

CallStep ==
  \/ \E c \in Calls : \E b \in Batches(c) :
       Send(c, b) \/ Answer(c, b) \/ DropAnswer(c, b) \/ RefuseBatch(c, b)
  \/ Collect \/ Insert \/ InsertFails

EmbeddingNext == CallStep \/ \E given \in Seq(Texts) : StartCall(given)

EmbeddingSpec == EmbeddingInit /\ [][EmbeddingNext]_embeddingVars

-----------------------------------------------------------------------------
(* Properties *)

Stages == {"none", "sending", "inserting", "done", "failed"}
BatchStates == {"waiting", "sent", "answered", "failed"}

(* Type correctness; the requests stay within both pools and their tries. *)
EmbeddingTypeOK ==
  /\ stage \in Stages /\ current \in {0} \union Calls
  /\ \A c \in Calls :
       /\ \A b \in Batches(c) : batch[c][b] \in BatchStates /\ tries[c][b] \in 0..Retries
       /\ DOMAIN tries[c] = Batches(c) /\ DOMAIN slots[c] = Batches(c)
       /\ Cardinality(InFlight(c)) <= TaskSlots
  /\ Cardinality(UNION {{<<c, b>> : b \in InFlight(c)} : c \in Calls}) <= GlobalSlots

(* get_embeddings fills the slots by the number of the batch, because       *)
(* vectors that slip against their texts raise no error: every row has the  *)
(* vector of its own text, whatever batches were repeated, overtaken or     *)
(* left behind, and a stage that is done has stored each text of its call   *)
(* once, in order, and nothing of an earlier call.  (It is also done,       *)
(* without a row, when the service answered without a single vector.)       *)
VectorsMatch ==
  /\ \A i \in DOMAIN stored :
       /\ stored[i].vector = stored[i].text
       /\ stored[i].call = current /\ stored[i].text = texts[current][i]
  /\ stage = "done" => Len(stored) = Len(texts[current]) \/ Joined(current) = <<>>
=============================================================================
