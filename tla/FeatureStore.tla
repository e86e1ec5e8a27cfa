---------------------------- MODULE FeatureStore ----------------------------
(***************************************************************************)
(* The handlers of src/main.go over the feature tables and the             *)
(* mf_tproperty store, those that write and those that read a row in       *)
(* several statements: each request is a goroutine that sends one SQL      *)
(* statement after another, interleaved with every other request.          *)
(*                                                                         *)
(* A temporal geometry and a temporal property are the same thing here, a  *)
(* row that holds member values told apart by their time, each in a        *)
(* column; the key of a temporal geometry is <<f, Trip>>, of a property    *)
(* <<f, name>>.  One collection; its coordinate system is left out.        *)
(*                                                                         *)
(* The database is external.  The code leans on read-committed statements, *)
(* each atomic, and on two table locks a transaction holds to its end: the *)
(* shared lock of a SELECT, which keeps DROP TABLE waiting, and the        *)
(* exclusive lock of ALTER TABLE, which keeps every other statement on     *)
(* that table waiting.                                                     *)
(***************************************************************************)
EXTENDS PropertyTypes, Integers, Sequences, SequencesExt

CONSTANTS
    Request,    \* the requests
    Feature,    \* the feature ids
    Name,       \* the names of temporal properties
    Time,       \* the times of member values
    StoredTimes,\* bound: those of the rows that are stored before any request
    Ops,        \* bound: what each request may ask for
    Trip,       \* the column of a temporal geometry
    None

Geometry == Feature \X {Trip}
Property == Feature \X Name
Key == Geometry \cup Property

Op ==
    [kind : {"postCollection", "putCollection", "deleteCollection"}]
      \cup [kind : {"postItem", "putItem"}, key : Geometry, t : Time]
      \cup [kind : {"deleteItem"}, key : Geometry]
      \cup [kind : {"postTProperties"}, key : Geometry, names : Seq(Name), type : DOMAIN TPropTokens,
           t : Time]
      \cup [kind : {"append"}, key : Key, t : Time]
      \cup [kind : {"deleteTProperty"}, key : Property]
      \cup [kind : {"deleteValue"}, key : Key, n : Nat \ {0}]
      \cup [kind : {"getTProperty"}, key : Property]
      \cup [kind : {"tgSequence"}, key : Geometry]
      \cup [kind : {"tgSequenceQuery"}, key : Geometry, n : Nat \ {0}]

Column == {Trip} \cup ScalarTemporalTypes

\* A row of a table, and who made it.
Row == [by : Request \cup {None}, type : OgcTokens \cup {None}, vals : SUBSET (Column \X Time)]

\* The responses.
Code == {"200", "201", "204", "400", "404", "409", "500"}

ASSUME StoreAssumption ==
    /\ Time \subseteq Nat /\ IsFiniteSet(Time)
    /\ StoredTimes \subseteq Time
    /\ Trip \notin Name \cup ScalarTemporalTypes
    /\ None \notin Request \cup Row \cup Code \cup OgcTokens \cup Column
    /\ Ops \in [Request -> SUBSET Op]
    /\ \A r \in Request : \A o \in Ops[r] : o.kind = "postTProperties" => o.names # <<>>

VARIABLES
    coll,       \* the collection is registered and has its table
    store,      \* mf_tproperty exists
    row,        \* the committed rows: [by, type, vals], or None; vals has column and time
    locked,     \* the transaction that holds mf_tproperty, or None
    op,         \* what a request asks for
    pc,         \* its next statement
    done,       \* the properties a transaction has inserted, in order
    column,     \* the column of the type it has read
    count,      \* the number of members it has read
    seen,       \* the members it has read to serve them, in order
    answer,     \* its response
    since,      \* history: what befell a row between a request's reading and its answer
    unpurged    \* history: a purge has failed

storeRows == <<coll, store, row, locked>>
locals    == <<done, column, count, seen>>
history   == <<since, unpurged>>
storeVars == <<storeRows, op, pc, locals, answer, history>>

\* The row of a temporal geometry or property whose values all are in column c.
RowOf(by, type, c, times) == [by |-> by, type |-> type, vals |-> {c} \X times]

\* What is stored before any request: a trajectory, or a property of reals.
StoredRow(k) ==
    IF k \in Geometry THEN RowOf(None, None, Trip, StoredTimes)
                      ELSE RowOf(None, "treal", "tfloat", StoredTimes)

StoreInit ==
    /\ coll = TRUE
    /\ \E stored \in SUBSET Key :
          /\ \A k \in stored : <<k[1], Trip>> \in stored
          /\ row = [k \in Key |-> IF k \in stored THEN StoredRow(k) ELSE None]
          /\ store \in {TRUE, stored \cap Property # {}}
    /\ locked = None
    /\ op = [r \in Request |-> None]
    /\ pc = [r \in Request |-> "idle"]
    /\ done = [r \in Request |-> <<>>]
    /\ column = [r \in Request |-> None]
    /\ count = [r \in Request |-> 0]
    /\ seen = [r \in Request |-> <<>>]
    /\ answer = [r \in Request |-> None]
    /\ since = [r \in Request |-> {}]
    /\ unpurged = FALSE

-----------------------------------------------------------------------------
Stored(k) == row[k] # None
Kind(r) == op[r].kind
KeyOf(r) == op[r].key
PropertiesOf(f) == {f} \X Name

\* The times of the members of row k in column c; the n-th of times, and all in order.
In(k, c) == {t \in Time : <<c, t>> \in row[k].vals}
SequenceN(times, n) == CHOOSE t \in times : Cardinality({u \in times : u <= t}) = n
InOrder(times) == [n \in 1..Cardinality(times) |-> SequenceN(times, n)]

\* The column a request uses, and the one its row's type names.
ColumnOf(r) == IF KeyOf(r) \in Geometry THEN Trip ELSE column[r]
TypeColumn(k) == IF k \in Geometry THEN Trip ELSE TPropType(row[k].type)
Members(r) == In(KeyOf(r), ColumnOf(r))

At(r, step, kinds) == pc[r] = step /\ Kind(r) \in kinds
Goto(r, step) == pc' = [pc EXCEPT ![r] = step] /\ UNCHANGED answer
Answer(r, code) == pc' = [pc EXCEPT ![r] = "answered"] /\ answer' = [answer EXCEPT ![r] = code]

Put(k, r) == row' = [row EXCEPT ![k] = r]
PutMembers(r, times) ==
    row' = [row EXCEPT ![KeyOf(r)].vals = {v \in @ : v[1] # ColumnOf(r)} \cup ({ColumnOf(r)} \X times)]
Drop(keys) == row' = [k \in Key |-> IF k \in keys THEN None ELSE row[k]]

Reads == {"getTProperty", "tgSequence", "tgSequenceQuery"}

\* The steps at which a request has read a row and has yet to act on it.
Midway == {"ensure", "insert", "update", "count", "fetch", "member"}

\* History: the requests that have read one of keys, which now are removed or replaced.
Overtake(keys) ==
    /\ since' = [q \in Request |->
                    IF pc[q] \in Midway /\ KeyOf(q) \in keys THEN since[q] \cup {"remove"} ELSE since[q]]
    /\ UNCHANGED unpurged

\* History: those that read k for a client, which has a member more.
Extend(k) ==
    /\ since' = [q \in Request |->
                    IF pc[q] \in Midway /\ Kind(q) \in Reads /\ KeyOf(q) = k
                    THEN since[q] \cup {"append"} ELSE since[q]]
    /\ UNCHANGED unpurged

\* A statement on mf_tproperty can run: it waits for the lock, unless there is no such table
\* that it could see (to_regclass, or an error); one that is being created it does not see.
Unlocked == store => locked = None

\* A statement on k can run.
Reachable(k) == k \in Geometry \/ Unlocked

\* No row, or no table any more: then the statement itself fails.
NotFound(k) == IF k \in Geometry /\ ~coll THEN "400" ELSE "404"

\* collectionMeta, and the decoding of the request.
Start(r) ==
    /\ pc[r] = "idle"
    /\ \E o \in Ops[r] :
          /\ op' = [op EXCEPT ![r] = o]
          /\ CASE o.kind = "postCollection" /\ coll -> Answer(r, "409")
               [] o.kind \notin {"postCollection", "putCollection"} /\ ~coll -> Answer(r, "404")
               [] OTHER -> Goto(r, "first")
    /\ UNCHANGED <<storeRows, locals, history>>

\* A statement fails: the connection is lost, the client has gone (r.Context()), or a value
\* or a type of the body is refused when its turn comes.  (400 or 500 in the code.)
Fail(r) ==
    /\ pc[r] \in {"first", "ensure", "insert", "update", "count", "fetch"}
    /\ locked' = IF locked = r THEN None ELSE locked
    /\ Answer(r, "500")
    /\ UNCHANGED <<coll, store, row, op, locals, history>>

-----------------------------------------------------------------------------
(* Collections                                                             *)

\* The transaction of postCollection: only its CREATE TABLE can meet another's.
PostCollection(r) ==
    /\ At(r, "first", {"postCollection"})
    /\ IF coll THEN Answer(r, "400") /\ UNCHANGED coll
               ELSE Answer(r, "201") /\ coll' = TRUE
    /\ UNCHANGED <<store, row, locked, op, locals, history>>

\* putCollection: the title, the description and the coordinate system are replaced.
PutCollection(r) ==
    /\ At(r, "first", {"putCollection"})
    /\ Answer(r, IF coll THEN "200" ELSE "404")
    /\ UNCHANGED <<storeRows, op, locals, history>>

\* Mutant: the SELECT runs before the transaction begins, and its lock ends with it.
ReadsTableLate(q) == pc[q] = "insert"

\* The shared lock a postTProperties has taken with its SELECT.
ReadsTable(q) == pc[q] \in {"ensure", "insert"}

\* Mutant: deleteCollection deletes the registry row and leaves the table.
DeleteCollectionKeepingTable(r) ==
    /\ At(r, "first", {"deleteCollection"})
    /\ coll' = FALSE
    /\ Goto(r, "purge")
    /\ UNCHANGED <<store, row, locked, op, locals, history>>

\* The transaction of deleteCollection: DROP TABLE waits for the readers of the table.
DeleteCollection(r) ==
    /\ At(r, "first", {"deleteCollection"})
    /\ \A q \in Request : ~ReadsTable(q)
    /\ coll' = FALSE
    /\ Drop(Geometry)
    /\ Overtake(Geometry)
    /\ Goto(r, "purge")
    /\ UNCHANGED <<store, locked, op, locals>>

-----------------------------------------------------------------------------
(* Features                                                                *)

PostItem(r) ==
    /\ At(r, "first", {"postItem"})
    /\ IF coll /\ ~Stored(KeyOf(r))
       THEN Answer(r, "201") /\ Put(KeyOf(r), RowOf(r, None, Trip, {op[r].t}))
       ELSE Answer(r, "400") /\ UNCHANGED row
    /\ UNCHANGED <<coll, store, locked, op, locals, history>>

PutItem(r) ==
    /\ At(r, "first", {"putItem"})
    /\ IF Stored(KeyOf(r))
       THEN /\ Answer(r, "200")
            /\ PutMembers(r, {op[r].t})
            /\ Overtake({KeyOf(r)})
       ELSE Answer(r, NotFound(KeyOf(r))) /\ UNCHANGED <<row, history>>
    /\ UNCHANGED <<coll, store, locked, op, locals>>

\* deleteItem's DELETE.
DeleteItem(r) ==
    /\ At(r, "first", {"deleteItem"})
    /\ IF Stored(KeyOf(r))
       THEN Goto(r, "purge") /\ Drop({KeyOf(r)}) /\ Overtake({KeyOf(r)})
       ELSE Answer(r, IF coll THEN "404" ELSE "500") /\ UNCHANGED <<row, history>>
    /\ UNCHANGED <<coll, store, locked, op, locals>>

Purged(r) == IF Kind(r) = "deleteCollection" THEN Property ELSE PropertiesOf(KeyOf(r)[1])

\* purgeTProps, a statement of its own that sees what is committed, and that is left out if
\* to_regclass finds no mf_tproperty.
Purge(r) ==
    /\ pc[r] = "purge" /\ Unlocked
    /\ Drop(Purged(r))
    /\ Overtake(Purged(r))
    /\ Answer(r, "204")
    /\ UNCHANGED <<coll, store, locked, op, locals>>

\* purgeTProps fails, and its error is ignored.
PurgeFails(r) ==
    /\ pc[r] = "purge"
    /\ unpurged' = TRUE
    /\ Answer(r, "204")
    /\ UNCHANGED <<storeRows, op, locals, since>>

-----------------------------------------------------------------------------
(* postTProperties                                                         *)

\* Mutant: the feature is not looked up.
LookupSkipped(r) ==
    /\ At(r, "first", {"postTProperties"})
    /\ Goto(r, "ensure")
    /\ UNCHANGED <<storeRows, op, locals, history>>

\* BEGIN, SELECT 1: the feature is looked up, not locked.
Lookup(r) ==
    /\ At(r, "first", {"postTProperties"})
    /\ IF Stored(KeyOf(r)) THEN Goto(r, "ensure") ELSE Answer(r, "404")
    /\ UNCHANGED <<storeRows, op, locals, history>>

\* ensureTPropTable: CREATE TABLE, or ALTER TABLE, takes mf_tproperty for the rest of the
\* transaction.
EnsureTable(r) ==
    /\ pc[r] = "ensure" /\ locked = None
    /\ locked' = r
    /\ Goto(r, "insert")
    /\ UNCHANGED <<coll, store, row, op, locals, history>>

NextName(r) == op[r].names[Len(done[r]) + 1]
Inserting(r) == pc[r] = "insert" /\ Len(done[r]) < Len(op[r].names)
Taken(r) == Stored(<<KeyOf(r)[1], NextName(r)>>) \/ NextName(r) \in Range(done[r])

\* The row it inserts keeps the token of the type, and the value in the column of the type.
NewProperty(r) == RowOf(r, OgcToken(TPropType(op[r].type)), TPropType(op[r].type), {op[r].t})

\* Mutant: the INSERT goes to the pool, not to the transaction.
InsertOutside(r) ==
    /\ Inserting(r) /\ ~Taken(r)
    /\ Put(<<KeyOf(r)[1], NextName(r)>>, NewProperty(r))
    /\ done' = [done EXCEPT ![r] = Append(@, NextName(r))]
    /\ UNCHANGED <<coll, store, locked, op, pc, column, count, seen, answer, history>>

Insert(r) ==
    /\ Inserting(r) /\ ~Taken(r)
    /\ done' = [done EXCEPT ![r] = Append(@, NextName(r))]
    /\ UNCHANGED <<storeRows, op, pc, column, count, seen, answer, history>>

\* Mutant: the rollback is missing.
RefuseDuplicateHolding(r) ==
    /\ Inserting(r) /\ Taken(r)
    /\ Answer(r, "409")
    /\ UNCHANGED <<storeRows, op, locals, history>>

\* Duplicate key: 409, and the deferred tx.Rollback.
RefuseDuplicate(r) ==
    /\ Inserting(r) /\ Taken(r)
    /\ locked' = None
    /\ Answer(r, "409")
    /\ UNCHANGED <<coll, store, row, op, locals, history>>

CommitProperties(r) ==
    /\ pc[r] = "insert" /\ ~Inserting(r)
    /\ row' = [k \in Key |-> IF k[1] = KeyOf(r)[1] /\ k[2] \in Range(done[r])
                             THEN NewProperty(r) ELSE row[k]]
    /\ store' = TRUE
    /\ locked' = None
    /\ Answer(r, "201")
    /\ UNCHANGED <<coll, op, locals, history>>

-----------------------------------------------------------------------------
(* Member values: postTgSequence and postTPropertyValues, deleteTgSequence *)
(* and deleteTPropertyValue, and getTProperty, which begins as they do      *)

TypeReaders == {"append", "deleteValue", "getTProperty"}

AfterType(kind) ==
    CASE kind = "append" -> "update" [] kind = "deleteValue" -> "count" [] OTHER -> "fetch"

\* Mutant: the type is looked up, and the default of the tokens is used.
ReadTypeIgnored(r) ==
    /\ At(r, "first", TypeReaders) /\ KeyOf(r) \in Property /\ Unlocked
    /\ IF Stored(KeyOf(r))
       THEN column' = [column EXCEPT ![r] = TPropType("")] /\ Goto(r, AfterType(Kind(r)))
       ELSE Answer(r, IF store THEN "404" ELSE "500") /\ UNCHANGED column
    /\ UNCHANGED <<storeRows, op, done, count, seen, history>>

\* SELECT ptype: the statements to come use the column of that type.
ReadType(r) ==
    /\ At(r, "first", TypeReaders) /\ KeyOf(r) \in Property /\ Unlocked
    /\ IF Stored(KeyOf(r))
       THEN column' = [column EXCEPT ![r] = TypeColumn(KeyOf(r))] /\ Goto(r, AfterType(Kind(r)))
       ELSE Answer(r, IF store THEN "404" ELSE "500") /\ UNCHANGED column
    /\ UNCHANGED <<storeRows, op, done, count, seen, history>>

\* UPDATE ... merge: one statement, refused when the times overlap.
AppendValue(r) ==
    LET k == KeyOf(r)
    IN  /\ \/ At(r, "first", {"append"}) /\ k \in Geometry
           \/ At(r, "update", {"append"}) /\ Unlocked
        /\ \/ ~Stored(k) /\ Answer(r, NotFound(k)) /\ UNCHANGED <<row, history>>
           \/ Stored(k) /\ op[r].t \in Members(r) /\ Answer(r, "409") /\ UNCHANGED <<row, history>>
           \/ /\ Stored(k) /\ op[r].t \notin Members(r)
              /\ Answer(r, "201")
              /\ PutMembers(r, Members(r) \cup {op[r].t})
              /\ Extend(k)
        /\ UNCHANGED <<coll, store, locked, op, locals>>

DeleteTProperty(r) ==
    /\ At(r, "first", {"deleteTProperty"}) /\ Unlocked
    /\ IF Stored(KeyOf(r))
       THEN Answer(r, "204") /\ Drop({KeyOf(r)}) /\ Overtake({KeyOf(r)})
       ELSE Answer(r, "404") /\ UNCHANGED <<row, history>>
    /\ UNCHANGED <<coll, store, locked, op, locals>>

\* A property's values are counted in its column, after its type was read.
Counting(r) ==
    \/ At(r, "first", {"deleteValue"}) /\ KeyOf(r) \in Geometry
    \/ At(r, "count", {"deleteValue"})

\* Mutant: the only member may go too.
CountValuesUnguarded(r) ==
    /\ Counting(r) /\ Reachable(KeyOf(r))
    /\ IF Stored(KeyOf(r)) /\ op[r].n <= Cardinality(Members(r)) THEN Goto(r, "update")
                                                                 ELSE Answer(r, "404")
    /\ UNCHANGED <<storeRows, op, locals, history>>

\* SELECT numSequences: the member is there, and it is not the only one.  A property that went
\* since its type was read is an error of the Scan.
CountValues(r) ==
    LET k == KeyOf(r)
    IN  /\ Counting(r) /\ Reachable(k)
        /\ CASE ~Stored(k) -> Answer(r, IF k \in Geometry THEN NotFound(k) ELSE "400")
             [] Stored(k) /\ Cardinality(Members(r)) < op[r].n -> Answer(r, "404")
             [] Stored(k) /\ Cardinality(Members(r)) = 1 /\ op[r].n = 1 -> Answer(r, "409")
             [] OTHER -> Goto(r, "update")
        /\ UNCHANGED <<storeRows, op, locals, history>>

\* deleteTime(v, getTime(sequenceN(v, n))): NULL, which is {} here, when nothing is left,
\* and when there is no n-th member: sequenceN is NULL and deleteTime is strict.
Without(times, n) == IF n > Cardinality(times) THEN {} ELSE times \ {SequenceN(times, n)}

\* The UPDATE: the member is addressed again by its index, and rows are not counted.
DeleteValue(r) ==
    LET k == KeyOf(r)
    IN  /\ At(r, "update", {"deleteValue"}) /\ Reachable(k)
        /\ IF Stored(k)
           THEN PutMembers(r, Without(Members(r), op[r].n)) /\ Overtake({k})
           ELSE UNCHANGED <<row, history>>
        /\ Answer(r, IF NotFound(k) = "400" THEN "400" ELSE "204")
        /\ UNCHANGED <<coll, store, locked, op, locals>>

-----------------------------------------------------------------------------
(* Reads in several statements, none of them in a transaction: tgSequence, *)
(* tgSequenceQuery, and the second half of getTProperty                    *)

\* tgSequence: SELECT 1.
FindFeature(r) ==
    /\ At(r, "first", {"tgSequence"})
    /\ CASE Stored(KeyOf(r)) -> Goto(r, "count")
         [] ~Stored(KeyOf(r)) /\ coll -> Answer(r, "404")
         [] OTHER -> Answer(r, "500")
    /\ UNCHANGED <<storeRows, op, locals, history>>

\* tgSequence: SELECT numSequences, NULL being none.
CountMembers(r) ==
    LET n == Cardinality(Members(r))
    IN  /\ At(r, "count", {"tgSequence"})
        /\ IF Stored(KeyOf(r))
           THEN /\ count' = [count EXCEPT ![r] = n]
                /\ IF n = 0 THEN Answer(r, "200") ELSE Goto(r, "member")
           ELSE Answer(r, "400") /\ UNCHANGED count
        /\ UNCHANGED <<storeRows, op, done, column, seen, history>>

\* Mutant: the loop runs to count - 1.
ReadMemberButLast(r) ==
    LET n == Len(seen[r]) + 1
    IN  /\ pc[r] = "member"
        /\ IF n < count[r] /\ Stored(KeyOf(r)) /\ n <= Cardinality(Members(r))
           THEN /\ seen' = [seen EXCEPT ![r] = Append(@, SequenceN(Members(r), n))]
                /\ Goto(r, "member")
           ELSE Answer(r, "200") /\ UNCHANGED seen
        /\ UNCHANGED <<storeRows, op, done, column, count, history>>

\* SELECT asMFJSON(sequenceN(trip, n)): no row and a NULL are errors of the Scan, which end
\* the loop, and what has been read is served.
ReadMember(r) ==
    LET n == Len(seen[r]) + 1
    IN  /\ pc[r] = "member"
        /\ IF Stored(KeyOf(r)) /\ n <= Cardinality(Members(r))
           THEN /\ seen' = [seen EXCEPT ![r] = Append(@, SequenceN(Members(r), n))]
                /\ IF n = count[r] THEN Answer(r, "200") ELSE Goto(r, "member")
           ELSE Answer(r, "200") /\ UNCHANGED seen
        /\ UNCHANGED <<storeRows, op, done, column, count, history>>

\* The statement itself fails: the loop ends in the same way.
MemberFails(r) ==
    /\ pc[r] = "member"
    /\ since' = [since EXCEPT ![r] = @ \cup {"failure"}]
    /\ Answer(r, "200")
    /\ UNCHANGED <<storeRows, op, locals, unpurged>>

\* tgSequenceQuery: SELECT numSequences.
FindMember(r) ==
    LET k == KeyOf(r)
    IN  /\ At(r, "first", {"tgSequenceQuery"})
        /\ CASE ~Stored(k) -> Answer(r, NotFound(k))
             [] Stored(k) /\ op[r].n > Cardinality(Members(r)) -> Answer(r, "404")
             [] OTHER -> Goto(r, "fetch")
        /\ UNCHANGED <<storeRows, op, locals, history>>

\* What the SELECT of asMFJSON finds: all of a property, the n-th member of a trajectory.
Found(r) ==
    CASE KeyOf(r) \in Property -> InOrder(Members(r))
      [] KeyOf(r) \in Geometry /\ op[r].n <= Cardinality(Members(r)) -> <<SequenceN(Members(r), op[r].n)>>
      [] OTHER -> <<>>

\* getTProperty and writeTemporalProperty: the SELECT of asMFJSON; a NULL is served as no value.
Fetch(r) ==
    LET k == KeyOf(r)
    IN  /\ pc[r] = "fetch" /\ Reachable(k)
        /\ IF Stored(k)
           THEN Answer(r, "200") /\ seen' = [seen EXCEPT ![r] = Found(r)]
           ELSE Answer(r, IF k \in Property THEN "400" ELSE NotFound(k)) /\ UNCHANGED seen
        /\ UNCHANGED <<storeRows, op, done, column, count, history>>

-----------------------------------------------------------------------------
Statement(r) ==
    \/ PostCollection(r) \/ PutCollection(r) \/ DeleteCollection(r)
    \/ PostItem(r) \/ PutItem(r) \/ DeleteItem(r) \/ Purge(r)
    \/ Lookup(r) \/ EnsureTable(r) \/ Insert(r) \/ RefuseDuplicate(r) \/ CommitProperties(r)
    \/ ReadType(r) \/ AppendValue(r) \/ DeleteTProperty(r) \/ CountValues(r) \/ DeleteValue(r)
    \/ FindFeature(r) \/ CountMembers(r) \/ ReadMember(r) \/ FindMember(r) \/ Fetch(r)

StoreDone ==
    /\ \A r \in Request : pc[r] = "answered"
    /\ UNCHANGED storeVars

StoreNext ==
    \/ \E r \in Request : Start(r) \/ Statement(r) \/ Fail(r) \/ PurgeFails(r) \/ MemberFails(r)
    \/ StoreDone

StoreSafetySpec == StoreInit /\ [][StoreNext]_storeVars

\* A handler sends its next statement, and a statement that waits for a lock gets it in
\* the end: requests come and go, and the lock queue is fair.
StoreSpec == StoreSafetySpec /\ \A r \in Request : WF_storeVars(Statement(r))
-----------------------------------------------------------------------------
(* Properties                                                              *)

\* The variables have their types; a collection that is gone has no features (its table went
\* with it, deleteCollection), and without mf_tproperty there is no property; that table is
\* locked exactly while a transaction of postTProperties is inserting.
StoreTypeOK ==
    /\ coll \in BOOLEAN /\ store \in BOOLEAN
    /\ row \in [Key -> Row \cup {None}]
    /\ \A k \in Key : Stored(k) =>
          IF k \in Geometry THEN row[k].type = None /\ row[k].vals \subseteq {Trip} \X Time
                            ELSE row[k].type # None /\ row[k].vals \subseteq ScalarTemporalTypes \X Time
    /\ locked \in Request \cup {None}
    /\ \A r \in Request : op[r] \in Ops[r] \cup {None}
    /\ pc \in [Request -> {"idle", "first", "answered", "purge"} \cup Midway]
    /\ done \in [Request -> Seq(Name)]
    /\ \A r \in Request : done[r] # <<>> => IsPrefix(done[r], op[r].names)
    /\ column \in [Request -> ScalarTemporalTypes \cup {None}]
    /\ count \in [Request -> 0 .. Cardinality(Time)]
    /\ seen \in [Request -> Seq(Time)]
    /\ \A r \in Request : pc[r] = "member" => Len(seen[r]) < count[r]
    /\ \A k \in Key : Stored(k) => IF k \in Geometry THEN coll ELSE store
    /\ \A r \in Request : locked = r <=> pc[r] = "insert"
    /\ answer \in [Request -> Code \cup {None}]
    /\ since \in [Request -> SUBSET {"remove", "append", "failure"}]
    /\ unpurged \in BOOLEAN

PurgePending(k) == \E r \in Request : pc[r] = "purge" /\ k \in Purged(r)

Orphan(k) == Stored(k) /\ ~Stored(<<k[1], Trip>>)

\* deleteItem "removes a moving feature and any temporal properties stored on it": once it
\* has answered and no purge failed, no property is left of a feature that is not there.
DeletedLeavesNothing ==
    ~unpurged => \A k \in Property : Orphan(k) => PurgePending(k)

\* What is left of that: the property of a feature that is gone was posted by a request
\* that had found the feature before it was deleted.
OrphansComeFromRaces ==
    ~unpurged =>
        \A k \in Property : Orphan(k) =>
            PurgePending(k) \/ (row[k].by \in Request /\ "remove" \in since[row[k].by])

\* That race does not reach a whole collection: its DROP TABLE waits for the transactions
\* that post properties, and its purge runs after them.
DroppedLeavesNothing ==
    ~coll /\ ~unpurged => \A k \in Property : Stored(k) => PurgePending(k)

PostedBy(r) == {k \in Property : Stored(k) /\ row[k].by = r}

\* The properties of one POST appear together, when it is answered 201, or not at all.
PostedTogether ==
    [][\A r \in Request :
          PostedBy(r)' \subseteq PostedBy(r)
            \/ /\ PostedBy(r) = {} /\ answer'[r] = "201"
               /\ PostedBy(r)' = {KeyOf(r)[1]} \X Range(op[r].names)]_storeVars

Deletes(r) ==
    /\ At(r, "update", {"deleteValue"}) /\ Stored(KeyOf(r))
    /\ answer'[r] = "204"

LosesOne(k) ==
    /\ row'[k].vals # {}
    /\ \E v \in row[k].vals : row'[k].vals = row[k].vals \ {v}

\* "removes one temporal primitive value ... addressed by its 1-based index": the index was
\* checked against another state than the one it is used in.
DeleteRemovesOne ==
    [][\A r \in Request : Deletes(r) => LosesOne(KeyOf(r))]_storeVars

\* What is left of that: with appends alone in between, a DELETE of a member value takes
\* one value and leaves the row with another.
UnracedDeleteRemovesOne ==
    [][\A r \in Request : Deletes(r) /\ "remove" \notin since[r] => LosesOne(KeyOf(r))]_storeVars

\* A value in a column that no type of the row's token has.
Stray(k) == Stored(k) /\ \E v \in row[k].vals : OgcToken(v[1]) # row[k].type

\* Values reach a row in the column of another type only by an append that had read the type
\* of a property that was there before and is gone.
StraysComeFromRaces ==
    \A k \in Property : Stray(k) =>
        \E r \in Request :
            /\ answer[r] = "201" /\ "remove" \in since[r]
            /\ Kind(r) = "append" /\ KeyOf(r) = k

ServesNow(r) == answer[r] = None /\ answer'[r] = "200" /\ Kind(r) \in Reads

\* What the type of row k says it holds.
Content(k) == InOrder(In(k, TypeColumn(k)))

\* A read in several statements, which no writer and no failure came between, serves what the
\* row holds: every member, each once, in order; the derived queries the member asked for.
UnracedReadIsWhole ==
    [][\A r \in Request :
          ServesNow(r) /\ since'[r] = {} =>
              LET all == Content(KeyOf(r))
              IN  seen'[r] = IF Kind(r) = "tgSequenceQuery" THEN <<all[op[r].n]>> ELSE all]_storeVars

\* "getTProperty serves one stored temporal property": the values a POST stored on it are in
\* the answer.
PropertyIsServedWhole ==
    [][\A r \in Request :
          ServesNow(r) /\ Kind(r) = "getTProperty" /\ since'[r] = {} =>
              Range(seen'[r]) = {v[2] : v \in row[KeyOf(r)].vals}]_storeVars

\* Every request is answered: no table lock outlives its transaction.
EveryRequestIsAnswered == \A r \in Request : pc[r] = "first" ~> pc[r] = "answered"
=============================================================================
