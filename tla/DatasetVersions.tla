----------------------------- MODULE DatasetVersions -----------------------------
(***************************************************************************)
(* The versions of evaluation datasets in storage-write                    *)
(* (core/storage-write/internal/ingest/ai_handler.go and                   *)
(* adapters/surrealdb/writer.go): a dataset is created, rows are appended  *)
(* to it and its settings replaced, each edit making a new version.        *)
(*                                                                         *)
(* Every replica subscribes to every subject without a queue group, so     *)
(* each request is performed by each replica it reaches.  What keeps an    *)
(* edit from taking effect twice is a look at the idempotency records      *)
(* before the transaction and the version check inside it.                 *)
(*                                                                         *)
(* A dataset has the name of the request that creates it, a version that   *)
(* of its number (its id holds both), a revision that of its append.       *)
(***************************************************************************)
EXTENDS Naturals, Sequences

CONSTANTS
  Replicas,   \* of storage-write
  Requests,   \* their ids; a client that repeats a request gives it a new id ...
  Subject,    \* ... and the subject ...
  Key,        \* ... and idempotency key of the first
  NoDataset   \* in the place of an input, before the request is sent

Create == "eval.dataset.create"
Append_ == "eval.dataset.items.append"
Settings == "eval.dataset.settings.update"
Subjects == {Create, Append_, Settings}
Slots == Replicas \X Subjects

ASSUME DatasetsAssumption ==
  /\ Subject \in [Requests -> Subjects]
  /\ DOMAIN Key = Requests
  /\ NoDataset \notin Requests

NotSent == [dataset |-> NoDataset, expected |-> 0]
Creates == {q \in Requests : Subject[q] = Create}
Edits == Requests \ Creates
\* A version: the number of its parent, its revisions and the request it is from
Version(parent, items, by) == [parent |-> parent, items |-> items, by |-> by]
Versions == [parent: Nat, items: SUBSET Requests, by: Requests]

\* The identity of an idempotency record: the subject and the key.
Record(q) == <<Subject[q], Key[q]>>

VARIABLES
  sent,        \* the input of each request: the dataset, the version it expects
  queue,       \* what a subscription of a replica has yet to handle
  at,          \* where the handler of the subscription stands
  datasets,    \* ai_dataset: the current version of each dataset, 0 if there is none
  versions,    \* ai_dataset_version of each dataset, by number
  revisions,   \* ai_dataset_item_revision
  results,     \* ai_eval_idempotency
  answers,     \* the first reply to each request
  performed    \* how often a dataset was written by a create (history)

stored == <<datasets, versions, revisions, results, performed>>
vars == <<sent, queue, at, stored, answers>>

Dataset(q) == sent[q].dataset

-----------------------------------------------------------------------------

Init ==
  /\ sent = [q \in Requests |-> NotSent]
  /\ queue = [slot \in Slots |-> <<>>]
  /\ at = [slot \in Slots |-> "lookup"]
  /\ datasets = [d \in Creates |-> 0]
  /\ versions = [d \in Creates |-> [n \in {} |-> n]]
  /\ revisions = {}
  /\ results = {}
  /\ answers = [q \in Requests |-> "none"]
  /\ performed = [d \in Creates |-> 0]

\* The BFF publishes a request, which reaches some of the replicas.
Publish(q, input) ==
  /\ sent' = [sent EXCEPT ![q] = input]
  /\ \E reached \in SUBSET Replicas :
       queue' = [slot \in Slots |->
                   IF slot[1] \in reached /\ slot[2] = Subject[q]
                   THEN Append(queue[slot], q) ELSE queue[slot]]
  /\ UNCHANGED <<at, stored, answers>>

SendCreate(q) ==
  /\ q \in Creates
  /\ sent[q] = NotSent
  /\ Publish(q, [dataset |-> q, expected |-> 0])

\* The client has read the dataset and sends the version it has seen.
SendEdit(q) ==
  /\ q \in Edits
  /\ sent[q] = NotSent
  /\ \A p \in Edits : sent[p] # NotSent => Record(p) # Record(q)
  /\ \E d \in Creates :
       /\ datasets[d] > 0
       /\ Publish(q, [dataset |-> d, expected |-> datasets[d]])

\* The same input under the same key.
RepeatEdit(q) ==
  /\ q \in Edits
  /\ sent[q] = NotSent
  /\ \E p \in Edits :
       /\ sent[p] # NotSent /\ Record(p) = Record(q)
       /\ Publish(q, sent[p])

-----------------------------------------------------------------------------
\* PersistEvalMutation, in the callback of a subscription

Current(slot) == Head(queue[slot])

\* The callback ends with a reply; the requester takes the first.
Reply(slot, answer) ==
  /\ queue' = [queue EXCEPT ![slot] = Tail(@)]
  /\ at' = [at EXCEPT ![slot] = "lookup"]
  /\ answers' = [answers EXCEPT ![Current(slot)] = IF @ = "none" THEN answer ELSE @]

\* The idempotency record of the request is read.
Lookup(slot) ==
  /\ queue[slot] # <<>>
  /\ at[slot] = "lookup"
  /\ IF Record(Current(slot)) \in results
     THEN Reply(slot, "ok")
     ELSE at' = [at EXCEPT ![slot] = "write"] /\ UNCHANGED <<queue, answers>>
  /\ UNCHANGED <<sent, stored>>

\* UPSERT of a record
Upsert(table, n, record) ==
  [m \in DOMAIN table \cup {n} |-> IF m = n THEN record ELSE table[m]]

\* BuildEvalMutationPersistQuery gives a new dataset its first version.
WriteDataset(q) ==
  /\ Subject[q] = Create
  /\ datasets' = [datasets EXCEPT ![q] = 1]
  /\ versions' = [versions EXCEPT ![q] = Upsert(@, 1, Version(0, {}, q))]
  /\ performed' = [performed EXCEPT ![q] = @ + 1]
  /\ UNCHANGED revisions

\* Mutant: the version is read when the transaction runs.
Latest(q) == datasets[Dataset(q)]

\* datasetVersionNumberFromInput
Expected(q) == sent[q].expected

\* Mutant: the transaction does not compare versions.
AnyVersion(q) == datasets[Dataset(q)] > 0

\* The version check in the transaction
VersionMatches(q) ==
  /\ datasets[Dataset(q)] > 0
  /\ datasets[Dataset(q)] = Expected(q)

NewVersion(q) == Expected(q) + 1

PutVersion(q, items) ==
  LET d == Dataset(q)
      version == Version(Expected(q), items, q)
  IN  /\ datasets' = [datasets EXCEPT ![d] = NewVersion(q)]
      /\ versions' = [versions EXCEPT ![d] = Upsert(@, NewVersion(q), version)]
      /\ UNCHANGED performed

\* An append writes the revision of its row and a version that lists it.
WriteRows(q) ==
  /\ Subject[q] = Append_
  /\ VersionMatches(q)
  /\ revisions' = revisions \cup {q}
  /\ PutVersion(q, {q})

\* An update of the settings copies the list of the parent version.
WriteSettings(q) ==
  /\ Subject[q] = Settings
  /\ VersionMatches(q)
  /\ PutVersion(q, versions[Dataset(q)][Expected(q)].items)
  /\ UNCHANGED revisions

\* One transaction, with the idempotency record.
Transaction(q) ==
  /\ WriteDataset(q) \/ WriteRows(q) \/ WriteSettings(q)
  /\ results' = results \cup {Record(q)}

\* An edit is followed by a read of the dataset, a create by its reply.
Commit(slot) ==
  /\ queue[slot] # <<>>
  /\ at[slot] = "write"
  /\ Transaction(Current(slot))
  /\ IF Current(slot) \in Creates
     THEN Reply(slot, "ok")
     ELSE at' = [at EXCEPT ![slot] = "read"] /\ UNCHANGED <<queue, answers>>
  /\ UNCHANGED sent

\* THROW 'stale dataset version'
Reject(slot) ==
  /\ queue[slot] # <<>>
  /\ at[slot] = "write"
  /\ Current(slot) \in Edits
  /\ ~VersionMatches(Current(slot))
  /\ Reply(slot, "error")
  /\ UNCHANGED <<sent, stored>>

ReadBack(slot) ==
  /\ at[slot] = "read"
  /\ Reply(slot, "ok")
  /\ UNCHANGED <<sent, stored>>

\* A query fails; a transaction that fails may have been committed.
Fail(slot) ==
  /\ queue[slot] # <<>>
  /\ Reply(slot, "error")
  /\ UNCHANGED sent
  /\ UNCHANGED stored \/ (at[slot] = "write" /\ Transaction(Current(slot)))

-----------------------------------------------------------------------------

Next ==
  \/ \E q \in Requests : SendCreate(q) \/ SendEdit(q) \/ RepeatEdit(q)
  \/ \E slot \in Slots :
       Lookup(slot) \/ Commit(slot) \/ Reject(slot) \/ ReadBack(slot) \/ Fail(slot)

Spec == Init /\ [][Next]_vars

-----------------------------------------------------------------------------

TypeOK ==
  /\ sent \in [Requests -> [dataset: Creates \cup {NoDataset}, expected: Nat]]
  /\ queue \in [Slots -> Seq(Requests)]
  /\ at \in [Slots -> {"lookup", "write", "read"}]
  /\ datasets \in [Creates -> Nat]
  /\ \A d \in Creates : \A n \in DOMAIN versions[d] : versions[d][n] \in Versions
  /\ revisions \subseteq Requests
  /\ results \subseteq {Record(q) : q \in Requests}
  /\ answers \in [Requests -> {"none", "ok", "error"}]
  /\ performed \in [Creates -> Nat]

\* The versions of a dataset, from the current one back to the first
History(d) == 1..datasets[d]

\* The versions of a dataset form a chain back to the create: each is from one
\* edit, which was sent against its parent and whose key is on record; no key has
\* two of them, whichever replicas performed its requests; and the revisions
\* each lists are stored.
ChainOfEdits ==
  \A d \in Creates :
    /\ History(d) \subseteq DOMAIN versions[d]
    /\ \A n \in History(d) :
         LET version == versions[d][n]
         IN  /\ version.parent = n - 1
             /\ n = 1 <=> version.by = d
             /\ sent[version.by] = [dataset |-> d, expected |-> n - 1]
             /\ Record(version.by) \in results
             /\ version.items \subseteq revisions
    /\ \A m, n \in History(d) :
         Record(versions[d][m].by) = Record(versions[d][n].by) => m = n

\* The edit of a request, or of one with its key, is in the history of its dataset.
InHistory(q) ==
  \E n \in History(Dataset(q)) : Record(versions[Dataset(q)][n].by) = Record(q)

\* An edit that was answered without an error stays in the history, unless the
\* create of its dataset is performed once more: later edits, stale ones and
\* repeats do not take it away.
AnsweredEditKept ==
  \A q \in Edits :
    answers[q] = "ok" => InHistory(q) \/ performed[Dataset(q)] > 1

\* "Repeated idempotent requests return the existing entity"
\* (specs/04-backend/ai-eval-message-contracts.md:114).  It fails: a second replica
\* that performs the create late puts the dataset back to its first version.
CreateKeepsEdits ==
  \A q \in Edits : answers[q] = "ok" => InHistory(q)
=============================================================================
