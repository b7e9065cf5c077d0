------------------------- MODULE DatasetVersionsProofs -------------------------
(***************************************************************************)
(* Theorems of DatasetVersions, for any replicas, requests and keys: the   *)
(* versions of a dataset are a chain of edits without repeats, and an edit *)
(* that was answered stays in it.                                          *)
(*                                                                         *)
(* The argument: requests with one key carry one input, so they expect one *)
(* version.  When a transaction adds version n + 1 for an edit, an earlier *)
(* version of the same key would be from an edit that expected less than   *)
(* n.  And a record of an idempotency key is written with the version.     *)
(***************************************************************************)
EXTENDS DatasetVersions, TLAPS

IsSent(q) == sent[q] # NotSent

SentOK ==
  /\ sent \in [Requests -> [dataset: Creates \cup {NoDataset}, expected: Nat]]
  /\ \A q \in Creates : IsSent(q) => sent[q] = [dataset |-> q, expected |-> 0]
  /\ \A q \in Edits : IsSent(q) => Dataset(q) \in Creates /\ Expected(q) > 0
  /\ \A p, q \in Edits : IsSent(p) /\ IsSent(q) /\ Record(p) = Record(q) => sent[p] = sent[q]

StoreOK ==
  /\ datasets \in [Creates -> Nat]
  /\ DOMAIN versions = Creates
  /\ \A d \in Creates : \A n \in DOMAIN versions[d] : versions[d][n] \in Versions
  /\ revisions \subseteq Requests
  /\ results \subseteq {Record(q) : q \in Requests}
  /\ performed \in [Creates -> Nat]
  /\ \A d \in Creates : datasets[d] > 0 => performed[d] > 0

\* What is stored comes from requests, and edits are sent to what is stored.
Sourced ==
  /\ \A record \in results : \E p \in Requests : IsSent(p) /\ Record(p) = record
  /\ \A q \in Edits : IsSent(q) => performed[Dataset(q)] > 0

RecordedEditKept ==
  \A q \in Edits :
    IsSent(q) /\ Record(q) \in results => InHistory(q) \/ performed[Dataset(q)] > 1

DataInv == SentOK /\ StoreOK /\ Sourced /\ ChainOfEdits /\ RecordedEditKept

Handled(slot) ==
  /\ \A i \in 1..Len(queue[slot]) : IsSent(queue[slot][i]) /\ Subject[queue[slot][i]] = slot[2]
  /\ at[slot] # "lookup" => queue[slot] # <<>>
  /\ at[slot] = "read" => Record(Current(slot)) \in results

QueueInv ==
  /\ queue \in [Slots -> Seq(Requests)]
  /\ at \in [Slots -> {"lookup", "write", "read"}]
  /\ \A slot \in Slots : Handled(slot)

AnswersInv ==
  /\ answers \in [Requests -> {"none", "ok", "error"}]
  /\ \A q \in Edits : answers[q] = "ok" => IsSent(q) /\ Record(q) \in results

DatasetsInv == DataInv /\ QueueInv /\ AnswersInv

-----------------------------------------------------------------------------

LEMMA EditsAndCreates ==
  /\ Creates \subseteq Requests /\ Edits \subseteq Requests /\ Requests = Creates \cup Edits
  /\ \A p \in Edits, q \in Creates : p # q /\ Record(p) # Record(q)
  BY DEF Edits, Creates, Record

\* The two writes of an edit: a version above the current one
LEMMA EditWrites ==
  ASSUME DataInv, NEW q \in Requests, IsSent(q), WriteRows(q) \/ WriteSettings(q)
  PROVE  /\ q \in Edits /\ VersionMatches(q) /\ UNCHANGED performed
         /\ revisions \subseteq revisions' /\ revisions' \subseteq Requests
         /\ \E items \in SUBSET revisions' : PutVersion(q, items)
<1>1. q \in Edits /\ VersionMatches(q) /\ UNCHANGED performed
  BY DEF WriteRows, WriteSettings, PutVersion, Edits, Creates, Create, Append_, Settings
<1>2. CASE WriteRows(q)
  BY <1>1, <1>2 DEF WriteRows, DataInv, StoreOK
<1>3. CASE WriteSettings(q)
  <2> DEFINE items == versions[Dataset(q)][Expected(q)].items
  <2>1. UNCHANGED revisions /\ PutVersion(q, items)
    BY <1>3 DEF WriteSettings
  <2>2. items \subseteq revisions
    <3>1. Dataset(q) \in Creates /\ Expected(q) \in History(Dataset(q))
      BY <1>1 DEF DataInv, SentOK, StoreOK, VersionMatches, History
    <3> QED
      BY <3>1 DEF DataInv, ChainOfEdits
  <2> QED
    BY <1>1, <2>1, <2>2 DEF DataInv, StoreOK
<1> QED
  BY <1>2, <1>3

\* A create puts the dataset back to its first version.
LEMMA CreateKeeps ==
  ASSUME DataInv, NEW q \in Requests, IsSent(q), WriteDataset(q), sent' = sent,
         results' = results \cup {Record(q)}
  PROVE  DataInv'
<1> DEFINE first == Version(0, {}, q)
<1>1. /\ q \in Creates /\ q \notin Edits /\ sent[q] = [dataset |-> q, expected |-> 0]
      /\ first \in Versions /\ first.parent = 0 /\ first.items = {} /\ first.by = q
  BY DEF WriteDataset, Creates, Edits, DataInv, SentOK, Version, Versions
<1>2. /\ datasets' = [datasets EXCEPT ![q] = 1]
      /\ performed' = [performed EXCEPT ![q] = performed[q] + 1]
      /\ revisions' = revisions
      /\ versions' = [versions EXCEPT ![q] = Upsert(versions[q], 1, first)]
  BY DEF WriteDataset
<1>3. /\ DOMAIN versions' = Creates /\ versions'[q] = Upsert(versions[q], 1, first)
      /\ \A d \in Creates \ {q} : versions'[d] = versions[d]
  BY <1>1, <1>2 DEF DataInv, StoreOK
<1>4. /\ DOMAIN versions'[q] = DOMAIN versions[q] \cup {1} /\ versions'[q][1] = first
      /\ \A n \in DOMAIN versions[q] : versions'[q][n] \in {versions[q][n], first}
  BY <1>3 DEF Upsert
<1>5. /\ datasets'[q] = 1 /\ performed'[q] = performed[q] + 1
      /\ \A d \in Creates \ {q} : datasets'[d] = datasets[d] /\ performed'[d] = performed[d]
  BY <1>1, <1>2 DEF DataInv, StoreOK
<1>6. SentOK'
  BY DEF DataInv, SentOK, IsSent, Dataset, Expected, Record
<1>7. StoreOK'
  <2>1. \A d \in Creates : \A n \in DOMAIN versions'[d] : versions'[d][n] \in Versions
    BY <1>1, <1>3, <1>4 DEF DataInv, StoreOK
  <2>2. \A d \in Creates : datasets'[d] > 0 => performed'[d] > 0
    BY <1>1, <1>5 DEF DataInv, StoreOK
  <2> QED
    BY <1>1, <1>2, <1>3, <2>1, <2>2 DEF DataInv, StoreOK, Record
<1>8. Sourced'
  <2>1. \A p \in Edits : IsSent(p) => performed'[Dataset(p)] > 0
    BY <1>5 DEF DataInv, SentOK, StoreOK, Sourced
  <2> QED
    BY <2>1 DEF DataInv, Sourced, IsSent, Record, Dataset
<1>9. ChainOfEdits'
  <2> SUFFICES ASSUME NEW d \in Creates
               PROVE  /\ History(d)' \subseteq DOMAIN versions'[d]
                      /\ \A n \in History(d)' :
                           LET version == versions'[d][n]
                           IN  /\ version.parent = n - 1
                               /\ n = 1 <=> version.by = d
                               /\ sent[version.by] = [dataset |-> d, expected |-> n - 1]
                               /\ Record(version.by) \in results'
                               /\ version.items \subseteq revisions'
                      /\ \A m, n \in History(d)' :
                           Record(versions'[d][m].by) = Record(versions'[d][n].by) => m = n
    BY DEF ChainOfEdits, Record
  <2>1. CASE d = q
    BY <1>1, <1>2, <1>4, <1>5, <2>1 DEF History
  <2>2. CASE d # q
    BY <1>2, <1>3, <1>5, <2>2 DEF DataInv, ChainOfEdits, History
  <2> QED
    BY <2>1, <2>2
<1>10. RecordedEditKept'
  <2> SUFFICES ASSUME NEW p \in Edits, IsSent(p), Record(p) \in results'
               PROVE  InHistory(p)' \/ performed'[Dataset(p)] > 1
    BY DEF RecordedEditKept, IsSent, Record, Dataset
  <2>1. Record(p) \in results /\ Dataset(p) \in Creates
    BY <1>1, EditsAndCreates DEF DataInv, SentOK
  <2>2. CASE Dataset(p) = q
    BY <1>1, <1>5, <2>1, <2>2 DEF DataInv, StoreOK, Sourced
  <2>3. CASE Dataset(p) # q
    <3>1. InHistory(p) \/ performed[Dataset(p)] > 1
      BY <2>1 DEF DataInv, RecordedEditKept
    <3>2. /\ Dataset(p)' = Dataset(p) /\ History(Dataset(p))' = History(Dataset(p))
          /\ versions'[Dataset(p)] = versions[Dataset(p)]
          /\ performed'[Dataset(p)] = performed[Dataset(p)]
      BY <1>3, <1>5, <2>1, <2>3 DEF History, Dataset
    <3>3. InHistory(p) => InHistory(p)'
      BY <3>2 DEF InHistory, Record
    <3> QED
      BY <3>1, <3>2, <3>3
  <2> QED
    BY <2>2, <2>3
<1> QED
  BY <1>6, <1>7, <1>8, <1>9, <1>10 DEF DataInv

\* An edit adds the version after the one it expects, which is the current one.
LEMMA EditKeeps ==
  ASSUME DataInv, NEW q \in Requests, IsSent(q), WriteRows(q) \/ WriteSettings(q), sent' = sent,
         results' = results \cup {Record(q)}
  PROVE  DataInv'
<1>0. q \in Edits /\ Dataset(q) \in Creates /\ Expected(q) \in Nat
  BY EditWrites DEF DataInv, SentOK, Expected
<1> SUFFICES ASSUME NEW d \in Creates, NEW n \in Nat, d = Dataset(q), n = Expected(q)
             PROVE  DataInv'
  BY <1>0
<1>1. /\ q \in Edits /\ d \in Creates /\ n \in Nat /\ n > 0 /\ datasets[d] = n
      /\ sent[q] = [dataset |-> d, expected |-> n] /\ q # d
  BY EditWrites, EditsAndCreates DEF DataInv, SentOK, VersionMatches, Dataset, Expected
<1>2. PICK items \in SUBSET revisions' : PutVersion(q, items)
  BY EditWrites
<1> DEFINE version == Version(n, items, q)
<1>3. /\ datasets' = [datasets EXCEPT ![d] = n + 1] /\ performed' = performed
      /\ versions' = [versions EXCEPT ![d] = Upsert(versions[d], n + 1, version)]
      /\ revisions \subseteq revisions' /\ revisions' \subseteq Requests
  BY <1>2, EditWrites DEF PutVersion, NewVersion
<1>4. version \in Versions /\ version.parent = n /\ version.items = items /\ version.by = q
  BY <1>1, <1>2, <1>3 DEF Version, Versions
<1>5. /\ DOMAIN versions' = Creates /\ versions'[d] = Upsert(versions[d], n + 1, version)
      /\ \A e \in Creates \ {d} : versions'[e] = versions[e]
  BY <1>1, <1>3 DEF DataInv, StoreOK
<1>6. /\ DOMAIN versions'[d] = DOMAIN versions[d] \cup {n + 1} /\ versions'[d][n + 1] = version
      /\ \A m \in DOMAIN versions[d] : m # n + 1 => versions'[d][m] = versions[d][m]
  BY <1>5 DEF Upsert
<1>7. /\ datasets'[d] = n + 1 /\ \A e \in Creates \ {d} : datasets'[e] = datasets[e]
      /\ datasets' \in [Creates -> Nat]
  BY <1>1, <1>3 DEF DataInv, StoreOK
<1>8. History(d)' = History(d) \cup {n + 1} /\ n + 1 \notin History(d)
  BY <1>1, <1>7 DEF History
<1>9. SentOK'
  BY DEF DataInv, SentOK, IsSent, Dataset, Expected, Record
<1>10. StoreOK'
  <2>1. \A e \in Creates : \A m \in DOMAIN versions'[e] : versions'[e][m] \in Versions
    BY <1>4, <1>5, <1>6 DEF DataInv, StoreOK
  <2>2. \A e \in Creates : datasets'[e] > 0 => performed'[e] > 0
    BY <1>1, <1>3, <1>7 DEF DataInv, StoreOK
  <2> QED
    BY <1>3, <1>5, <1>7, <2>1, <2>2 DEF DataInv, StoreOK, Record
<1>11. Sourced'
  BY <1>3 DEF DataInv, Sourced, IsSent, Record, Dataset
<1>12. ASSUME NEW m \in History(d) PROVE Record(versions[d][m].by) # Record(q)
  <2>1. /\ versions[d][m].by \in Requests
        /\ sent[versions[d][m].by] = [dataset |-> d, expected |-> m - 1]
    BY <1>1, <1>12 DEF DataInv, ChainOfEdits, StoreOK, Versions
  <2>2. CASE versions[d][m].by \in Creates
    BY <1>1, <2>2, EditsAndCreates
  <2>3. CASE versions[d][m].by \in Edits
    <3>1. IsSent(versions[d][m].by)
      BY <1>1, <2>1, DatasetsAssumption DEF IsSent, NotSent, Creates
    <3>2. SUFFICES ASSUME Record(versions[d][m].by) = Record(q) PROVE FALSE
      OBVIOUS
    <3>3. sent[versions[d][m].by] = sent[q]
      BY <1>1, <2>3, <3>1, <3>2 DEF DataInv, SentOK
    <3>4. m - 1 = n /\ m <= n /\ m \in Nat
      BY <1>1, <1>12, <2>1, <3>3 DEF History
    <3> QED
      BY <1>1, <3>4
  <2> QED
    BY <2>1, <2>2, <2>3, EditsAndCreates
<1>13. ChainOfEdits'
  <2> SUFFICES ASSUME NEW e \in Creates
               PROVE  /\ History(e)' \subseteq DOMAIN versions'[e]
                      /\ \A m \in History(e)' :
                           LET v == versions'[e][m]
                           IN  /\ v.parent = m - 1
                               /\ m = 1 <=> v.by = e
                               /\ sent[v.by] = [dataset |-> e, expected |-> m - 1]
                               /\ Record(v.by) \in results'
                               /\ v.items \subseteq revisions'
                      /\ \A l, m \in History(e)' :
                           Record(versions'[e][l].by) = Record(versions'[e][m].by) => l = m
    BY DEF ChainOfEdits, Record
  <2>1. CASE e # d
    <3>1. versions'[e] = versions[e] /\ History(e)' = History(e)
      BY <1>5, <1>7, <2>1 DEF History
    <3> QED
      BY <1>3, <3>1 DEF DataInv, ChainOfEdits
  <2>2. CASE e = d
    <3>1. History(d) \subseteq DOMAIN versions[d]
      BY <1>1 DEF DataInv, ChainOfEdits
    <3>2. \A m \in History(d) : versions'[d][m] = versions[d][m]
      BY <1>6, <1>8, <3>1
    <3>3. ASSUME NEW m \in History(d)
          PROVE  LET v == versions'[d][m]
                 IN  /\ v.parent = m - 1
                     /\ m = 1 <=> v.by = d
                     /\ sent[v.by] = [dataset |-> d, expected |-> m - 1]
                     /\ Record(v.by) \in results'
                     /\ v.items \subseteq revisions'
      BY <1>1, <1>3, <3>2, <3>3 DEF DataInv, ChainOfEdits
    <3>4. LET v == versions'[d][n + 1]
          IN  /\ v.parent = (n + 1) - 1
              /\ n + 1 = 1 <=> v.by = d
              /\ sent[v.by] = [dataset |-> d, expected |-> (n + 1) - 1]
              /\ Record(v.by) \in results'
              /\ v.items \subseteq revisions'
      <4>1. (n + 1) - 1 = n /\ n + 1 # 1
        BY <1>1
      <4> QED
        BY <1>1, <1>4, <1>6, <4>1
    <3>5. \A l, m \in History(d)' :
            Record(versions'[d][l].by) = Record(versions'[d][m].by) => l = m
      <4>1. \A l, m \in History(d) :
              Record(versions'[d][l].by) = Record(versions'[d][m].by) => l = m
        BY <1>1, <3>2 DEF DataInv, ChainOfEdits
      <4>2. \A m \in History(d) : Record(versions'[d][m].by) # Record(versions'[d][n + 1].by)
        BY <1>4, <1>6, <1>12, <3>2
      <4> QED
        BY <1>8, <4>1, <4>2
    <3> QED
      BY <1>6, <1>8, <2>2, <3>1, <3>3, <3>4, <3>5
  <2> QED
    BY <2>1, <2>2
<1>14. RecordedEditKept'
  <2> SUFFICES ASSUME NEW p \in Edits, IsSent(p), Record(p) \in results'
               PROVE  InHistory(p)' \/ performed'[Dataset(p)] > 1
    BY DEF RecordedEditKept, IsSent, Record, Dataset
  <2>1. Dataset(p) \in Creates
    BY DEF DataInv, SentOK
  <2>2. CASE Record(p) = Record(q)
    <3>1. Dataset(p) = d
      BY <1>1, <2>2 DEF DataInv, SentOK, Dataset
    <3>2. Record(versions'[d][n + 1].by) = Record(p) /\ n + 1 \in History(d)'
      BY <1>4, <1>6, <1>8, <2>2
    <3>3. Dataset(p)' = d
      BY <3>1 DEF Dataset
    <3> QED
      BY <3>2, <3>3 DEF InHistory, Record
  <2>3. CASE Record(p) # Record(q)
    <3>1. InHistory(p) \/ performed[Dataset(p)] > 1
      BY <2>3 DEF DataInv, RecordedEditKept
    <3>2. CASE performed[Dataset(p)] > 1
      BY <1>3, <3>2
    <3>3. CASE InHistory(p)
      <4>1. PICK m \in History(Dataset(p)) : Record(versions[Dataset(p)][m].by) = Record(p)
        BY <3>3 DEF InHistory
      <4>2. m \in History(Dataset(p))' /\ Dataset(p)' = Dataset(p) /\ versions'[Dataset(p)][m] = versions[Dataset(p)][m]
        <5>1. CASE Dataset(p) = d
          BY <1>1, <1>6, <1>8, <4>1, <5>1 DEF DataInv, ChainOfEdits, Dataset
        <5>2. CASE Dataset(p) # d
          BY <1>5, <1>7, <2>1, <4>1, <5>2 DEF History, Dataset
        <5> QED
          BY <5>1, <5>2
      <4> QED
        BY <4>1, <4>2 DEF InHistory, Record, Dataset
    <3> QED
      BY <3>1, <3>2, <3>3
  <2> QED
    BY <2>2, <2>3
<1> QED
  BY <1>9, <1>10, <1>11, <1>13, <1>14 DEF DataInv

LEMMA TransactionKeeps ==
  ASSUME DataInv, NEW q \in Requests, IsSent(q), Transaction(q), sent' = sent
  PROVE  DataInv' /\ results \subseteq results' /\ Record(q) \in results'
<1>1. results' = results \cup {Record(q)}
  BY DEF Transaction
<1>2. WriteDataset(q) \/ WriteRows(q) \/ WriteSettings(q)
  BY DEF Transaction
<1>3. DataInv'
  BY <1>1, <1>2, CreateKeeps, EditKeeps
<1> QED
  BY <1>1, <1>3

-----------------------------------------------------------------------------
\* Requests are sent

LEMMA PublishKeeps ==
  ASSUME DatasetsInv, NEW q \in Requests, ~IsSent(q), NEW input, Publish(q, input),
         input \in [dataset: Creates, expected: Nat],
         q \in Creates => input = [dataset |-> q, expected |-> 0],
         q \in Edits => /\ input.expected > 0 /\ performed[input.dataset] > 0
                        /\ \A p \in Edits : IsSent(p) /\ Record(p) = Record(q) => sent[p] = input,
         q \in Edits /\ Record(q) \in results =>
           \E p \in Edits : IsSent(p) /\ Record(p) = Record(q)
  PROVE  DatasetsInv'
<1>1. /\ sent' = [sent EXCEPT ![q] = input] /\ UNCHANGED <<at, stored, answers>>
      /\ sent'[q] = input /\ \A p \in Requests \ {q} : sent'[p] = sent[p]
  BY DEF Publish, DatasetsInv, DataInv, SentOK
<1>2. /\ IsSent(q)' /\ Dataset(q)' = input.dataset /\ Expected(q)' = input.expected
      /\ \A p \in Requests : IsSent(p) => p # q /\ IsSent(p)' /\ sent'[p] = sent[p]
      /\ \A p \in Requests : IsSent(p)' => p = q \/ IsSent(p)
  BY <1>1, DatasetsAssumption DEF IsSent, NotSent, Dataset, Expected, Creates
<1>3. \A p \in Requests : IsSent(p) => Dataset(p)' = Dataset(p) /\ Expected(p)' = Expected(p)
  BY <1>2 DEF Dataset, Expected
<1>4. \A p \in Requests : Record(p)' = Record(p)
  BY DEF Record
<1>5. SentOK'
  <2>1. sent' \in [Requests -> [dataset: Creates \cup {NoDataset}, expected: Nat]]
    BY <1>1 DEF DatasetsInv, DataInv, SentOK
  <2>2. \A p \in Creates : IsSent(p)' => sent'[p] = [dataset |-> p, expected |-> 0]
    BY <1>1, <1>2, EditsAndCreates DEF DatasetsInv, DataInv, SentOK
  <2>3. \A p \in Edits : IsSent(p)' => Dataset(p)' \in Creates /\ Expected(p)' > 0
    BY <1>2, <1>3, EditsAndCreates DEF DatasetsInv, DataInv, SentOK
  <2>4. \A p, r \in Edits : IsSent(p)' /\ IsSent(r)' /\ Record(p) = Record(r) => sent'[p] = sent'[r]
    BY <1>1, <1>2, EditsAndCreates DEF DatasetsInv, DataInv, SentOK
  <2> QED
    BY <1>4, <2>1, <2>2, <2>3, <2>4 DEF SentOK
<1>6. StoreOK'
  BY <1>1, <1>4 DEF DatasetsInv, DataInv, StoreOK, stored
<1>7. Sourced'
  <2>1. \A p \in Edits : IsSent(p)' => performed[Dataset(p)'] > 0
    BY <1>2, <1>3, EditsAndCreates DEF DatasetsInv, DataInv, Sourced
  <2>2. \A record \in results : \E p \in Requests : IsSent(p)' /\ Record(p) = record
    BY <1>2 DEF DatasetsInv, DataInv, Sourced
  <2> QED
    BY <1>1, <1>4, <2>1, <2>2 DEF Sourced, stored
<1>8. ChainOfEdits'
  <2>1. \A d \in Creates : \A n \in History(d) : sent'[versions[d][n].by] = sent[versions[d][n].by]
    <3> SUFFICES ASSUME NEW d \in Creates, NEW n \in History(d)
                 PROVE  sent'[versions[d][n].by] = sent[versions[d][n].by]
      OBVIOUS
    <3>1. /\ versions[d][n].by \in Requests
          /\ sent[versions[d][n].by] = [dataset |-> d, expected |-> n - 1]
      BY DEF DatasetsInv, DataInv, ChainOfEdits, StoreOK, Versions
    <3>2. IsSent(versions[d][n].by)
      BY <3>1, DatasetsAssumption DEF IsSent, NotSent, Creates
    <3> QED
      BY <1>2, <3>1, <3>2
  <2>2. /\ versions' = versions /\ revisions' = revisions /\ results' = results
        /\ datasets' = datasets
    BY <1>1 DEF stored
  <2>3. \A d \in Creates : History(d)' = History(d)
    BY <2>2 DEF History
  <2> QED
    BY <2>1, <2>2, <2>3 DEF DatasetsInv, DataInv, ChainOfEdits, Record
<1>9. RecordedEditKept'
  <2>1. ASSUME NEW p \in Edits, IsSent(p), Record(p) \in results
        PROVE  /\ InHistory(p) \/ performed[Dataset(p)] > 1
               /\ Dataset(p)' = Dataset(p)
    BY <1>3, <2>1, EditsAndCreates DEF DatasetsInv, DataInv, RecordedEditKept
  <2>2. /\ versions' = versions /\ results' = results /\ datasets' = datasets
        /\ performed' = performed
    BY <1>1 DEF stored
  <2>3. ASSUME NEW p \in Edits, NEW r \in Edits, IsSent(p), Record(p) \in results,
               Record(r) = Record(p), Dataset(r)' = Dataset(p)
        PROVE  InHistory(r)' \/ performed'[Dataset(r)'] > 1
    BY <2>1, <2>2, <2>3 DEF InHistory, History, Record
  <2>4. ASSUME NEW r \in Edits, IsSent(r)', Record(r) \in results
        PROVE  \E p \in Edits : IsSent(p) /\ Record(p) = Record(r) /\ Dataset(r)' = Dataset(p)
    <3>1. CASE r # q
      BY <1>2, <1>3, <2>4, <3>1, EditsAndCreates
    <3>2. CASE r = q
      BY <1>2, <2>4, <3>2 DEF Dataset
    <3> QED
      BY <3>1, <3>2
  <2> QED
    BY <1>4, <2>2, <2>3, <2>4 DEF RecordedEditKept
<1>10. QueueInv'
  <2>1. PICK reached \in SUBSET Replicas :
          queue' = [slot \in Slots |-> IF slot[1] \in reached /\ slot[2] = Subject[q]
                                       THEN Append(queue[slot], q) ELSE queue[slot]]
    BY DEF Publish
  <2>2. /\ \A slot \in Slots : queue[slot] \in Seq(Requests)
        /\ queue' \in [Slots -> Seq(Requests)]
    BY <2>1 DEF DatasetsInv, QueueInv
  <2>3. at' = at /\ results' = results
    BY <1>1 DEF stored
  <2>4. ASSUME NEW slot \in Slots PROVE Handled(slot)'
    <3>1. Handled(slot) /\ queue[slot] \in Seq(Requests)
      BY <2>2 DEF DatasetsInv, QueueInv
    <3>2. CASE queue'[slot] = queue[slot]
      <4>1. \A i \in 1..Len(queue[slot]) : queue[slot][i] \in Requests
        BY <3>1
      <4> QED
        BY <1>2, <2>3, <3>1, <3>2, <4>1 DEF Handled, Current, Record
    <3>3. CASE slot[2] = Subject[q] /\ queue'[slot] = Append(queue[slot], q)
      <4>1. /\ Len(queue'[slot]) = Len(queue[slot]) + 1 /\ Len(queue[slot]) \in Nat
            /\ \A i \in 1..Len(queue[slot]) :
                 queue'[slot][i] = queue[slot][i] /\ queue[slot][i] \in Requests
            /\ queue'[slot][Len(queue[slot]) + 1] = q
            /\ queue'[slot] # <<>>
            /\ queue[slot] # <<>> => Head(queue'[slot]) = Head(queue[slot])
        BY <3>1, <3>3
      <4>2. \A i \in 1..Len(queue'[slot]) :
              i \in 1..Len(queue[slot]) \/ i = Len(queue[slot]) + 1
        BY <4>1
      <4>3. \A i \in 1..Len(queue'[slot]) :
              sent'[queue'[slot][i]] # NotSent /\ Subject[queue'[slot][i]] = slot[2]
        <5>1. \A p \in Requests : IsSent(p) \/ p = q => sent'[p] # NotSent
          BY <1>2 DEF IsSent
        <5>2. ASSUME NEW i \in 1..Len(queue[slot])
              PROVE  sent'[queue'[slot][i]] # NotSent /\ Subject[queue'[slot][i]] = slot[2]
          BY <3>1, <4>1, <5>1 DEF Handled
        <5>3. /\ sent'[queue'[slot][Len(queue[slot]) + 1]] # NotSent
              /\ Subject[queue'[slot][Len(queue[slot]) + 1]] = slot[2]
          BY <3>3, <4>1, <5>1
        <5> QED
          BY <4>2, <5>2, <5>3
      <4>4. at'[slot] # "lookup" => queue[slot] # <<>>
        BY <2>3, <3>1 DEF Handled
      <4>5. at'[slot] = "read" => Record(Head(queue'[slot])) \in results'
        BY <2>3, <3>1, <4>1, <4>4 DEF Handled, Current, Record
      <4> QED
        BY <4>1, <4>3, <4>5 DEF Handled, Current, IsSent, Record
    <3> QED
      BY <2>1, <3>2, <3>3
  <2> QED
    BY <2>2, <2>3, <2>4 DEF QueueInv, DatasetsInv
<1>11. AnswersInv'
  BY <1>1, <1>2, <1>4, EditsAndCreates DEF DatasetsInv, AnswersInv, stored
<1> QED
  BY <1>5, <1>6, <1>7, <1>8, <1>9, <1>10, <1>11 DEF DatasetsInv, DataInv

LEMMA SendCreateKeeps ==
  ASSUME DatasetsInv, NEW q \in Requests, SendCreate(q)
  PROVE  DatasetsInv'
<1>1. q \in Creates /\ ~IsSent(q) /\ q \notin Edits
  BY DEF SendCreate, IsSent, Edits
<1> QED
  BY <1>1, PublishKeeps DEF SendCreate

LEMMA SendEditKeeps ==
  ASSUME DatasetsInv, NEW q \in Requests, SendEdit(q)
  PROVE  DatasetsInv'
<1>1. /\ q \in Edits /\ q \notin Creates /\ ~IsSent(q)
      /\ \A p \in Edits : IsSent(p) => Record(p) # Record(q)
  BY DEF SendEdit, IsSent, Edits
<1>2. PICK d \in Creates : datasets[d] > 0 /\ Publish(q, [dataset |-> d, expected |-> datasets[d]])
  BY DEF SendEdit
<1>3. datasets[d] \in Nat /\ performed[d] > 0
  BY <1>2 DEF DatasetsInv, DataInv, StoreOK
<1>4. Record(q) \notin results
  <2> SUFFICES ASSUME Record(q) \in results PROVE FALSE
    OBVIOUS
  <2>1. PICK p \in Requests : IsSent(p) /\ Record(p) = Record(q)
    BY DEF DatasetsInv, DataInv, Sourced
  <2> QED
    BY <1>1, <2>1, EditsAndCreates
<1> QED
  BY <1>1, <1>2, <1>3, <1>4, PublishKeeps

LEMMA RepeatEditKeeps ==
  ASSUME DatasetsInv, NEW q \in Requests, RepeatEdit(q)
  PROVE  DatasetsInv'
<1>1. q \in Edits /\ q \notin Creates /\ ~IsSent(q)
  BY DEF RepeatEdit, IsSent, Edits
<1>2. PICK p \in Edits : IsSent(p) /\ Record(p) = Record(q) /\ Publish(q, sent[p])
  BY DEF RepeatEdit, IsSent
<1>3. /\ sent[p] \in [dataset: Creates, expected: Nat] /\ sent[p].expected > 0
      /\ performed[sent[p].dataset] > 0
  BY <1>2, EditsAndCreates DEF DatasetsInv, DataInv, SentOK, Sourced, Dataset, Expected
<1>4. \A r \in Edits : IsSent(r) /\ Record(r) = Record(q) => sent[r] = sent[p]
  BY <1>2 DEF DatasetsInv, DataInv, SentOK
<1> QED
  BY <1>1, <1>2, <1>3, <1>4, PublishKeeps

-----------------------------------------------------------------------------
\* A callback takes a step or ends with a reply

LEMMA SameData ==
  ASSUME DataInv, UNCHANGED <<sent, stored>>
  PROVE  DataInv'
<1>1. SentOK'
  BY DEF DataInv, SentOK, IsSent, Dataset, Expected, Record
<1>2. StoreOK' /\ Sourced'
  BY DEF DataInv, StoreOK, Sourced, stored, IsSent, Dataset, Record
<1>3. ChainOfEdits'
  BY DEF DataInv, ChainOfEdits, stored, History, Record
<1>4. RecordedEditKept'
  BY DEF DataInv, RecordedEditKept, InHistory, stored, History, IsSent, Dataset, Record
<1> QED
  BY <1>1, <1>2, <1>3, <1>4 DEF DataInv

LEMMA CurrentIsSent ==
  ASSUME DatasetsInv, NEW slot \in Slots, queue[slot] # <<>>
  PROVE  Current(slot) \in Requests /\ IsSent(Current(slot))
<1>1. queue[slot] \in Seq(Requests) /\ Handled(slot)
  BY DEF DatasetsInv, QueueInv
<1>2. /\ 1 \in 1..Len(queue[slot]) /\ Current(slot) = queue[slot][1]
      /\ queue[slot][1] \in Requests
  BY <1>1 DEF Current
<1> QED
  BY <1>1, <1>2 DEF Handled

LEMMA ReplyKeeps ==
  ASSUME DatasetsInv, DataInv', sent' = sent, results \subseteq results',
         NEW slot \in Slots, queue[slot] # <<>>,
         NEW answer \in {"ok", "error"}, Reply(slot, answer),
         answer = "ok" => Current(slot) \notin Edits \/ Record(Current(slot)) \in results'
  PROVE  DatasetsInv'
<1> DEFINE q == Current(slot)
<1>1. q \in Requests /\ IsSent(q)
  BY CurrentIsSent
<1>2. /\ queue' = [queue EXCEPT ![slot] = Tail(@)] /\ at' = [at EXCEPT ![slot] = "lookup"]
      /\ answers' = [answers EXCEPT ![q] = IF @ = "none" THEN answer ELSE @]
  BY DEF Reply
<1>3. queue[slot] \in Seq(Requests) /\ Handled(slot)
  BY DEF DatasetsInv, QueueInv
<1>4. queue' \in [Slots -> Seq(Requests)] /\ at' \in [Slots -> {"lookup", "write", "read"}]
  BY <1>2, <1>3 DEF DatasetsInv, QueueInv
<1>5. ASSUME NEW other \in Slots PROVE Handled(other)'
  <2>1. CASE other = slot
    <3>1. /\ at'[slot] = "lookup" /\ Len(queue'[slot]) = Len(queue[slot]) - 1
          /\ Len(queue[slot]) \in Nat
          /\ \A i \in 1..Len(queue'[slot]) :
               queue'[slot][i] = queue[slot][i + 1] /\ i + 1 \in 1..Len(queue[slot])
      BY <1>2, <1>3 DEF DatasetsInv, QueueInv
    <3> QED
      BY <1>3, <2>1, <3>1 DEF Handled, IsSent
  <2>2. CASE other # slot
    <3>1. queue'[other] = queue[other] /\ at'[other] = at[other] /\ Handled(other)
      BY <1>2, <2>2 DEF DatasetsInv, QueueInv
    <3> QED
      BY <3>1 DEF Handled, IsSent, Current, Record
  <2> QED
    BY <2>1, <2>2
<1>6. AnswersInv'
  <2>1. \A p \in Requests : answers'[p] = answers[p] \/ (p = q /\ answers'[p] = answer)
    BY <1>1, <1>2 DEF DatasetsInv, AnswersInv
  <2>2. answers' \in [Requests -> {"none", "ok", "error"}]
    BY <1>1, <1>2 DEF DatasetsInv, AnswersInv
  <2>3. ASSUME NEW p \in Edits, answers'[p] = "ok"
        PROVE  IsSent(p)' /\ Record(p)' \in results'
    <3>1. CASE answers[p] = "ok"
      BY <2>3, <3>1 DEF DatasetsInv, AnswersInv, IsSent, Record
    <3>2. CASE answers[p] # "ok"
      BY <1>1, <2>1, <2>3, <3>2, EditsAndCreates DEF IsSent, Record
    <3> QED
      BY <3>1, <3>2
  <2> QED
    BY <2>2, <2>3 DEF AnswersInv
<1> QED
  BY <1>4, <1>5, <1>6 DEF DatasetsInv, QueueInv

LEMMA StepKeeps ==
  ASSUME DatasetsInv, DataInv', sent' = sent, results \subseteq results',
         NEW slot \in Slots, queue[slot] # <<>>, UNCHANGED <<queue, answers>>,
         NEW step \in {"write", "read"}, at' = [at EXCEPT ![slot] = step],
         step = "read" => Record(Current(slot)) \in results'
  PROVE  DatasetsInv'
<1>1. at' \in [Slots -> {"lookup", "write", "read"}] /\ queue' \in [Slots -> Seq(Requests)]
  BY DEF DatasetsInv, QueueInv
<1>2. ASSUME NEW other \in Slots PROVE Handled(other)'
  <2>1. Handled(other) /\ queue'[other] = queue[other]
    BY DEF DatasetsInv, QueueInv
  <2>2. CASE other = slot
    <3>1. at'[other] = step
      BY <2>2 DEF DatasetsInv, QueueInv
    <3> QED
      BY <2>1, <2>2, <3>1 DEF Handled, IsSent, Current, Record
  <2>3. CASE other # slot
    <3>1. at'[other] = at[other]
      BY <2>3 DEF DatasetsInv, QueueInv
    <3> QED
      BY <2>1, <3>1 DEF Handled, IsSent, Current, Record
  <2> QED
    BY <2>2, <2>3
<1>3. AnswersInv'
  BY DEF DatasetsInv, AnswersInv, IsSent, Record
<1> QED
  BY <1>1, <1>2, <1>3 DEF DatasetsInv, QueueInv

LEMMA LookupKeeps ==
  ASSUME DatasetsInv, NEW slot \in Slots, Lookup(slot)
  PROVE  DatasetsInv'
<1>1. /\ queue[slot] # <<>> /\ UNCHANGED <<sent, stored>>
      /\ \/ Record(Current(slot)) \in results /\ Reply(slot, "ok")
         \/ at' = [at EXCEPT ![slot] = "write"] /\ UNCHANGED <<queue, answers>>
  BY DEF Lookup
<1>2. DataInv' /\ sent' = sent /\ results \subseteq results'
  BY <1>1, SameData DEF DatasetsInv, stored
<1>3. CASE Record(Current(slot)) \in results /\ Reply(slot, "ok")
  BY <1>1, <1>2, <1>3, ReplyKeeps
<1>4. CASE at' = [at EXCEPT ![slot] = "write"] /\ UNCHANGED <<queue, answers>>
  BY <1>1, <1>2, <1>4, StepKeeps
<1> QED
  BY <1>1, <1>3, <1>4

LEMMA CommitKeeps ==
  ASSUME DatasetsInv, NEW slot \in Slots, Commit(slot)
  PROVE  DatasetsInv'
<1>1. /\ queue[slot] # <<>> /\ sent' = sent /\ Transaction(Current(slot))
      /\ \/ Current(slot) \in Creates /\ Reply(slot, "ok")
         \/ at' = [at EXCEPT ![slot] = "read"] /\ UNCHANGED <<queue, answers>>
  BY DEF Commit
<1>2. Current(slot) \in Requests /\ IsSent(Current(slot))
  BY <1>1, CurrentIsSent
<1>3. DataInv' /\ results \subseteq results' /\ Record(Current(slot)) \in results'
  BY <1>1, <1>2, TransactionKeeps DEF DatasetsInv
<1>4. CASE Current(slot) \in Creates /\ Reply(slot, "ok")
  BY <1>1, <1>3, <1>4, ReplyKeeps
<1>5. CASE at' = [at EXCEPT ![slot] = "read"] /\ UNCHANGED <<queue, answers>>
  BY <1>1, <1>3, <1>5, StepKeeps
<1> QED
  BY <1>1, <1>4, <1>5

LEMMA RejectKeeps ==
  ASSUME DatasetsInv, NEW slot \in Slots, Reject(slot)
  PROVE  DatasetsInv'
<1>1. queue[slot] # <<>> /\ UNCHANGED <<sent, stored>> /\ Reply(slot, "error")
  BY DEF Reject
<1>2. DataInv' /\ sent' = sent /\ results \subseteq results'
  BY <1>1, SameData DEF DatasetsInv, stored
<1> QED
  BY <1>1, <1>2, ReplyKeeps

LEMMA ReadBackKeeps ==
  ASSUME DatasetsInv, NEW slot \in Slots, ReadBack(slot)
  PROVE  DatasetsInv'
<1>1. at[slot] = "read" /\ UNCHANGED <<sent, stored>> /\ Reply(slot, "ok")
  BY DEF ReadBack
<1>2. queue[slot] # <<>> /\ Record(Current(slot)) \in results
  BY <1>1 DEF DatasetsInv, QueueInv, Handled
<1>3. DataInv' /\ sent' = sent /\ results \subseteq results'
  BY <1>1, SameData DEF DatasetsInv, stored
<1> QED
  BY <1>1, <1>2, <1>3, ReplyKeeps

LEMMA FailKeeps ==
  ASSUME DatasetsInv, NEW slot \in Slots, Fail(slot)
  PROVE  DatasetsInv'
<1>1. /\ queue[slot] # <<>> /\ sent' = sent /\ Reply(slot, "error")
      /\ UNCHANGED stored \/ Transaction(Current(slot))
  BY DEF Fail
<1>2. Current(slot) \in Requests /\ IsSent(Current(slot))
  BY <1>1, CurrentIsSent
<1>3. DataInv' /\ results \subseteq results'
  <2>1. CASE UNCHANGED stored
    BY <1>1, <2>1, SameData DEF DatasetsInv, stored
  <2>2. CASE Transaction(Current(slot))
    BY <1>1, <1>2, <2>2, TransactionKeeps DEF DatasetsInv
  <2> QED
    BY <1>1, <2>1, <2>2
<1> QED
  BY <1>1, <1>3, ReplyKeeps

-----------------------------------------------------------------------------

LEMMA Initially == Init => DatasetsInv
<1> SUFFICES ASSUME Init PROVE DatasetsInv
  OBVIOUS
<1>1. /\ \A q \in Requests : ~IsSent(q)
      /\ \A d \in Creates : datasets[d] = 0 /\ History(d) = {} /\ DOMAIN versions[d] = {}
      /\ results = {}
  BY DEF Init, IsSent, History, Creates
<1>2. SentOK
  BY <1>1, EditsAndCreates DEF Init, SentOK, NotSent
<1>3. StoreOK /\ Sourced
  BY <1>1, EditsAndCreates DEF Init, StoreOK, Sourced
<1>4. ChainOfEdits /\ RecordedEditKept
  BY <1>1 DEF ChainOfEdits, RecordedEditKept
<1>5. QueueInv
  BY DEF Init, QueueInv, Handled
<1>6. AnswersInv
  BY EditsAndCreates DEF Init, AnswersInv
<1> QED
  BY <1>2, <1>3, <1>4, <1>5, <1>6 DEF DatasetsInv, DataInv

LEMMA StutterKeeps ==
  ASSUME DatasetsInv, UNCHANGED vars
  PROVE  DatasetsInv'
<1>1. UNCHANGED <<sent, stored>> /\ UNCHANGED <<queue, at, answers>> /\ results' = results
  BY DEF vars, stored
<1>2. DataInv'
  BY <1>1, SameData DEF DatasetsInv
<1>3. QueueInv' /\ AnswersInv'
  BY <1>1 DEF DatasetsInv, QueueInv, AnswersInv, Handled, IsSent, Current, Record
<1> QED
  BY <1>2, <1>3 DEF DatasetsInv

LEMMA NextKeeps == DatasetsInv /\ [Next]_vars => DatasetsInv'
<1> SUFFICES ASSUME DatasetsInv, [Next]_vars PROVE DatasetsInv'
  OBVIOUS
<1>1. ASSUME NEW q \in Requests, SendCreate(q) \/ SendEdit(q) \/ RepeatEdit(q)
      PROVE  DatasetsInv'
  BY <1>1, SendCreateKeeps, SendEditKeeps, RepeatEditKeeps
<1>2. ASSUME NEW slot \in Slots,
             Lookup(slot) \/ Commit(slot) \/ Reject(slot) \/ ReadBack(slot) \/ Fail(slot)
      PROVE  DatasetsInv'
  BY <1>2, LookupKeeps, CommitKeeps, RejectKeeps, ReadBackKeeps, FailKeeps
<1>3. CASE UNCHANGED vars
  BY <1>3, StutterKeeps
<1> QED
  BY <1>1, <1>2, <1>3 DEF Next

LEMMA DatasetsInvAlways == Spec => []DatasetsInv
  BY Initially, NextKeeps, PTL DEF Spec

\* Whichever replicas perform a request and how often, whatever fails: the versions
\* of a dataset lead from the current one back to the create, each from one edit
\* that was sent against its parent, no key twice.
THEOREM ChainAlways == Spec => []ChainOfEdits
<1>1. DatasetsInv => ChainOfEdits
  BY DEF DatasetsInv, DataInv
<1> QED
  BY <1>1, DatasetsInvAlways, PTL

\* An edit that was answered without an error stays in the history of its dataset,
\* unless the create of the dataset is performed a second time.
THEOREM AnsweredAlways == Spec => []AnsweredEditKept
<1>1. DatasetsInv => AnsweredEditKept
  BY DEF DatasetsInv, DataInv, RecordedEditKept, AnswersInv, AnsweredEditKept
<1> QED
  BY <1>1, DatasetsInvAlways, PTL

\* Every variable keeps its type.
THEOREM DatasetTypes == Spec => []TypeOK
<1>1. DatasetsInv => TypeOK
  BY DEF DatasetsInv, DataInv, SentOK, StoreOK, QueueInv, AnswersInv, TypeOK
<1> QED
  BY <1>1, DatasetsInvAlways, PTL
================================================================================
