----------------------------- MODULE BulkIngest -----------------------------
(***************************************************************************)
(* Bulk ingestion (bulkIngest and appendBatch in src/bulk.go): a batch of  *)
(* observations is appended, statement by statement, in one transaction,   *)
(* against other batches and deleteItem on the same feature table.         *)
(*                                                                         *)
(* The database is external.  It is modelled by what the code leans on:    *)
(* read-committed transactions, a lock on each row and each new key a      *)
(* transaction writes, held to its end, a primary key on id, and a victim  *)
(* chosen from the transactions that wait for one another.  Statements and *)
(* transactions take their connections from a pool (src/backend.go): one   *)
(* that waits for a lock keeps its connection.                             *)
(***************************************************************************)
EXTENDS Integers, Sequences, FiniteSets, SequencesExt, FiniteSetsExt

CONSTANTS
    Batch,      \* the POST .../bulk requests
    Feature,    \* the vehicle ids
    Time,       \* the times of observations
    MaxLen,     \* bound: the observations of a batch
    MaxConns,   \* the connections of the pool
    None

ASSUME BulkAssumption ==
    /\ Time \subseteq Nat
    /\ MaxLen \in Nat
    /\ MaxConns \in Nat \ {0}
    /\ IsFiniteSet(Batch) /\ IsFiniteSet(Feature)
    /\ None \notin Batch \cup {"201", "400", "409"}

VARIABLES
    obs,        \* the observations of a request: a sequence of [id, t]
    trip,       \* the committed trajectories (<<>>: no such row)
    lock,       \* the transaction that has written the row or the key
    draft,      \* what a transaction has written of the rows it locks
    pc,         \* control of appendBatch
    answer,     \* the response
    created,    \* featuresCreated
    extended,   \* featuresExtended
    deleting,   \* the features whose deleteItem has its connection
    deleted,    \* history: what deleteItem has removed, [id, trip], or found gone
    unknown     \* history: the batches whose COMMIT was done and whose answer was lost

requestVars == <<obs, pc, answer, created, extended>>
rowVars     == <<trip, lock, draft>>
deleteVars  == <<deleting, deleted>>
bulkVars    == <<requestVars, rowVars, deleteVars, unknown>>

\* What parseGeoJSONPoints and parseGeoParquet make of the body: a vehicle and a time, the
\* position left out, in the order of the body.
Observation == [id : Feature, t : Time]
Instant == [t : Time, by : Batch]

BulkInit ==
    /\ obs \in [Batch -> BoundedSeq(Observation, MaxLen)]
    /\ trip = [f \in Feature |-> <<>>]
    /\ lock = [f \in Feature |-> None]
    /\ draft = [f \in Feature |-> <<>>]
    /\ pc = [b \in Batch |-> "idle"]
    /\ answer = [b \in Batch |-> None]
    /\ created = [b \in Batch |-> 0]
    /\ extended = [b \in Batch |-> 0]
    /\ deleting = {}
    /\ deleted = <<>>
    /\ unknown = {}

-----------------------------------------------------------------------------
Done(b) == created[b] + extended[b]
Current(b) == obs[b][Done(b) + 1]
Added(b) == [t |-> Current(b).t, by |-> b]

\* A transaction has its connection from Begin to its end, a statement while it runs.
Connected == {b \in Batch : pc[b] \in {"update", "insert"}}
ConnectionFree == Cardinality(Connected) + Cardinality(deleting) < MaxConns

Free(b, f) == lock[f] \in {None, b}

\* What a statement of b sees of a row: its own version, or the committed one.
Seen(b, f) == IF lock[f] = b THEN draft[f] ELSE trip[f]

Write(b, f, value) ==
    /\ lock' = [lock EXCEPT ![f] = b]
    /\ draft' = [draft EXCEPT ![f] = value]
    /\ UNCHANGED trip

\* Mutant: the deferred tx.Rollback is missing.
RollbackMissing(b) == UNCHANGED rowVars

\* The deferred tx.Rollback of a transaction that has not committed.
Rollback(b) ==
    /\ lock' = [f \in Feature |-> IF lock[f] = b THEN None ELSE lock[f]]
    /\ draft' = [f \in Feature |-> IF lock[f] = b THEN <<>> ELSE draft[f]]
    /\ UNCHANGED trip

Answer(b, code) ==
    /\ pc' = [pc EXCEPT ![b] = "answered"]
    /\ answer' = [answer EXCEPT ![b] = code]

\* An unknown collection, or a body that does not decode, before a transaction is begun.
Reject(b) ==
    /\ pc[b] = "idle"
    /\ Answer(b, "400")
    /\ UNCHANGED <<obs, created, extended, rowVars, deleteVars, unknown>>

\* collectionMeta has its row, and its connection is back in the pool before the body is read.
Accept(b) ==
    /\ pc[b] = "idle" /\ ConnectionFree
    /\ pc' = [pc EXCEPT ![b] = "begin"]
    /\ UNCHANGED <<obs, answer, created, extended, rowVars, deleteVars, unknown>>

\* db.Begin waits for a connection.
Begin(b) ==
    /\ pc[b] = "begin" /\ ConnectionFree
    /\ pc' = [pc EXCEPT ![b] = "update"]
    /\ UNCHANGED <<obs, answer, created, extended, rowVars, deleteVars, unknown>>

\* appendInstant (external) accepts an instant that is strictly after the last one.
IsAfter(f, b) == Last(Seen(b, f)).t < Current(b).t

\* UPDATE ... appendInstant finds the row ...
Extend(b) ==
    /\ pc[b] = "update" /\ Done(b) < Len(obs[b])
    /\ LET f == Current(b).id
       IN  /\ Seen(b, f) # <<>> /\ Free(b, f)
           /\ IsAfter(f, b)
           /\ Write(b, f, Append(Seen(b, f), Added(b)))
    /\ extended' = [extended EXCEPT ![b] = @ + 1]
    /\ UNCHANGED <<obs, pc, answer, created, deleteVars, unknown>>

\* ... or fails on it: isOrderingError, 409.
RefuseOrder(b) ==
    /\ pc[b] = "update" /\ Done(b) < Len(obs[b])
    /\ LET f == Current(b).id
       IN  Seen(b, f) # <<>> /\ Free(b, f) /\ ~IsAfter(f, b)
    /\ Rollback(b)
    /\ Answer(b, "409")
    /\ UNCHANGED <<obs, created, extended, deleteVars, unknown>>

\* ... or finds none: it does not see a row another transaction is inserting.
FindNone(b) ==
    /\ pc[b] = "update" /\ Done(b) < Len(obs[b])
    /\ Seen(b, Current(b).id) = <<>>
    /\ pc' = [pc EXCEPT ![b] = "insert"]
    /\ UNCHANGED <<obs, answer, created, extended, rowVars, deleteVars, unknown>>

\* Mutant: the feature created is counted as extended too.
CreateCountingTwice(b) ==
    /\ pc[b] = "insert"
    /\ LET f == Current(b).id
       IN  trip[f] = <<>> /\ lock[f] = None /\ Write(b, f, <<Added(b)>>)
    /\ created' = [created EXCEPT ![b] = @ + 1]
    /\ extended' = [extended EXCEPT ![b] = @ + 1]
    /\ pc' = [pc EXCEPT ![b] = "update"]
    /\ UNCHANGED <<obs, answer, deleteVars, unknown>>

\* INSERT, of a feature seen for the first time.
Create(b) ==
    /\ pc[b] = "insert"
    /\ LET f == Current(b).id
       IN  trip[f] = <<>> /\ lock[f] = None /\ Write(b, f, <<Added(b)>>)
    /\ created' = [created EXCEPT ![b] = @ + 1]
    /\ pc' = [pc EXCEPT ![b] = "update"]
    /\ UNCHANGED <<obs, answer, extended, deleteVars, unknown>>

\* Mutant: INSERT ... ON CONFLICT DO UPDATE appends to the row that was committed since.
Upsert(b) ==
    /\ pc[b] = "insert"
    /\ LET f == Current(b).id
       IN  trip[f] # <<>> /\ lock[f] = None /\ Write(b, f, Append(trip[f], Added(b)))
    /\ created' = [created EXCEPT ![b] = @ + 1]
    /\ pc' = [pc EXCEPT ![b] = "update"]
    /\ UNCHANGED <<obs, answer, extended, deleteVars, unknown>>

\* The row was committed since the UPDATE: duplicate key, 400.
RefuseDuplicate(b) ==
    /\ pc[b] = "insert"
    /\ trip[Current(b).id] # <<>> /\ lock[Current(b).id] = None
    /\ Rollback(b)
    /\ Answer(b, "400")
    /\ UNCHANGED <<obs, created, extended, deleteVars, unknown>>

\* b waits for the transaction that holds the row or the key of its statement.
WaitsFor(b, c) ==
    /\ pc[b] \in {"update", "insert"} /\ Done(b) < Len(obs[b])
    /\ LET f == Current(b).id
       IN  lock[f] = c /\ c \notin {None, b} /\ (pc[b] = "update" => trip[f] # <<>>)

\* b is one of transactions that all wait for one another, and the database picks it.
Deadlocked(b) ==
    \E S \in SUBSET Batch :
        b \in S /\ \A c \in S : /\ \E d \in S : WaitsFor(c, d)
                               /\ \E d \in S : WaitsFor(d, c)

\* db.Begin or a statement fails: a deadlock, a connection lost, a client gone
\* (r.Context()), a geometry the database refuses.
Fail(b) ==
    /\ pc[b] \in {"begin", "update", "insert"}
    /\ Rollback(b)
    /\ Answer(b, "400")
    /\ UNCHANGED <<obs, created, extended, deleteVars, unknown>>

BreakDeadlock(b) == Deadlocked(b) /\ Fail(b)

\* Mutant: each statement commits by itself, as in a backend without transactions.
CommitEach(b) ==
    /\ pc[b] = "update" /\ \E f \in Feature : lock[f] = b
    /\ trip' = [f \in Feature |-> IF lock[f] = b THEN draft[f] ELSE trip[f]]
    /\ lock' = [f \in Feature |-> IF lock[f] = b THEN None ELSE lock[f]]
    /\ draft' = [f \in Feature |-> IF lock[f] = b THEN <<>> ELSE draft[f]]
    /\ IF Done(b) = Len(obs[b]) THEN Answer(b, "201") ELSE UNCHANGED <<pc, answer>>
    /\ UNCHANGED <<obs, created, extended, deleteVars, unknown>>

CommitRows(b) ==
    /\ pc[b] = "update" /\ Done(b) = Len(obs[b])
    /\ trip' = [f \in Feature |-> IF lock[f] = b THEN draft[f] ELSE trip[f]]
    /\ lock' = [f \in Feature |-> IF lock[f] = b THEN None ELSE lock[f]]
    /\ draft' = [f \in Feature |-> IF lock[f] = b THEN <<>> ELSE draft[f]]

\* tx.Commit, and 201.
Commit(b) ==
    /\ CommitRows(b)
    /\ Answer(b, "201")
    /\ UNCHANGED <<obs, created, extended, deleteVars, unknown>>

\* The database commits, and the connection is lost before tx.Commit hears of it: 400.
CommitLost(b) ==
    /\ CommitRows(b)
    /\ Answer(b, "400")
    /\ unknown' = unknown \cup {b}
    /\ UNCHANGED <<obs, created, extended, deleteVars>>

AppendBatch(b) ==
    \/ Begin(b) \/ Extend(b) \/ RefuseOrder(b) \/ FindNone(b) \/ Create(b) \/ RefuseDuplicate(b)
    \/ BreakDeadlock(b) \/ Commit(b)

\* deleteItem's DELETE gets a connection (bound: one DELETE for each feature).
BeginDelete(f) ==
    /\ ConnectionFree /\ f \notin deleting
    /\ \A i \in DOMAIN deleted : deleted[i].id # f
    /\ deleting' = deleting \cup {f}
    /\ UNCHANGED <<requestVars, rowVars, deleted, unknown>>

\* It waits, connected, for the transaction that has written the row; a row that is being
\* inserted it does not see.
DeleteItem(f) ==
    /\ f \in deleting /\ (trip[f] # <<>> => lock[f] = None)
    /\ deleting' = deleting \ {f}
    /\ deleted' = Append(deleted, [id |-> f, trip |-> trip[f]])
    /\ trip' = [trip EXCEPT ![f] = <<>>]
    /\ UNCHANGED <<requestVars, lock, draft, unknown>>

BulkDone ==
    /\ \A b \in Batch : pc[b] = "answered"
    /\ deleting = {}
    /\ UNCHANGED bulkVars

BulkNext ==
    \/ \E b \in Batch : Reject(b) \/ Accept(b) \/ AppendBatch(b) \/ Fail(b) \/ CommitLost(b)
    \/ \E f \in Feature : BeginDelete(f) \/ DeleteItem(f)
    \/ BulkDone

BulkSafetySpec == BulkInit /\ [][BulkNext]_bulkVars

\* A handler runs its next statement, and a statement that waits for a connection or a lock
\* gets it.
BulkSpec ==
    /\ BulkSafetySpec
    /\ \A b \in Batch : WF_bulkVars(AppendBatch(b))
    /\ \A f \in Feature : WF_bulkVars(DeleteItem(f))

-----------------------------------------------------------------------------
(* Properties                                                              *)

\* The variables have their types, the pool is not overdrawn, appendBatch never counts more
\* features, created and extended together, than its batch has observations, and only a
\* transaction that runs has written rows that are not committed.
BulkTypeOK ==
    /\ obs \in [Batch -> Seq(Observation)]
    /\ trip \in [Feature -> Seq(Instant)]
    /\ lock \in [Feature -> Batch \cup {None}]
    /\ draft \in [Feature -> Seq(Instant)]
    /\ pc \in [Batch -> {"idle", "begin", "update", "insert", "answered"}]
    /\ answer \in [Batch -> {None, "201", "400", "409"}]
    /\ created \in [Batch -> Nat]
    /\ extended \in [Batch -> Nat]
    /\ \A b \in Batch : Done(b) <= Len(obs[b])
    /\ \A f \in Feature : lock[f] \in Connected \cup {None}
    /\ Cardinality(Connected) + Cardinality(deleting) <= MaxConns
    /\ deleting \subseteq Feature
    /\ deleted \in Seq([id : Feature, trip : Seq(Instant)])
    /\ unknown \subseteq {b \in Batch : answer[b] = "400"}

\* What is stored, or was until its feature was deleted, of a request.
Stored(b) ==
    {o \in Observation :
        \/ \E i \in DOMAIN trip[o.id] : trip[o.id][i] = [t |-> o.t, by |-> b]
        \/ \E i \in DOMAIN deleted : /\ deleted[i].id = o.id
                                     /\ [t |-> o.t, by |-> b] \in Range(deleted[i].trip)}

\* "The whole batch commits atomically": a batch answered 201 has every observation in
\* the store, whatever other batches and deletions did meanwhile; a batch refused, failed
\* or still running has none, and one whose COMMIT went unheard has every one of them too.
AllOrNothing ==
    \A b \in Batch :
        Stored(b) = IF answer[b] = "201" \/ b \in unknown THEN Range(obs[b]) ELSE {}

\* b began the trajectory of f: the first instant of its row, or of the row that was
\* deleted, is one of b's.
Begins(b, s) == s # <<>> /\ s[1].by = b
Began(b, f) ==
    \/ Begins(b, trip[f])
    \/ \E i \in DOMAIN deleted : deleted[i].id = f /\ Begins(b, deleted[i].trip)

\* What a 201 says is so: "featuresCreated" is the number of vehicles whose trajectory began
\* with this batch, however many batches met them for the first time at once, and every
\* other observation extended a trajectory that was there.
CountsAreTrue ==
    \A b \in Batch : answer[b] = "201" =>
        /\ created[b] = Cardinality({f \in Feature : Began(b, f)})
        /\ extended[b] = Len(obs[b]) - created[b]

\* Every batch that was accepted is answered: batches that lock the same features in
\* different orders do not wait for one another for ever, a refused batch leaves no lock and
\* no connection behind, and those that wait for a connection do not keep one.
EveryBatchIsAnswered == \A b \in Batch : pc[b] = "begin" ~> pc[b] = "answered"
=============================================================================
