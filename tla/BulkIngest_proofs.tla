-------------------------- MODULE BulkIngest_proofs --------------------------
(***************************************************************************)
(* Proofs about bulk ingestion, for any number of batches, vehicles and    *)
(* connections.  A row that a transaction has written has, in its draft,   *)
(* everything that is committed and what the transaction has appended; a   *)
(* running batch has written exactly the observations it has counted, and  *)
(* begun exactly the rows it has counted as created; what is committed, or *)
(* was until it was deleted, is of batches whose COMMIT was done.          *)
(***************************************************************************)
EXTENDS BulkIngest, TLAPS, SequenceTheorems, FiniteSetTheorems

Running(b) == pc[b] \in {"update", "insert"}
Committed == {b \in Batch : answer[b] = "201"} \cup unknown

Instants(s) == {s[i] : i \in 1..Len(s)}

Mark(b, o) == [t |-> o.t, by |-> b]

\* Instant x of row f is an observation of the batch that added it.
Observed(f, x) == \E j \in 1..Len(obs[x.by]) : obs[x.by][j] = [id |-> f, t |-> x.t]

\* Observation o of batch b is in the store, or was when its feature was deleted.
Kept(b, o) ==
    \/ Mark(b, o) \in Instants(trip[o.id])
    \/ \E i \in 1..Len(deleted) : deleted[i].id = o.id /\ Mark(b, o) \in Instants(deleted[i].trip)

TypeInv ==
    /\ obs \in [Batch -> Seq(Observation)]
    /\ trip \in [Feature -> Seq(Instant)]
    /\ lock \in [Feature -> Batch \cup {None}]
    /\ draft \in [Feature -> Seq(Instant)]
    /\ pc \in [Batch -> {"idle", "begin", "update", "insert", "answered"}]
    /\ answer \in [Batch -> {None, "201", "400", "409"}]
    /\ created \in [Batch -> Nat]
    /\ extended \in [Batch -> Nat]
    /\ deleting \subseteq Feature
    /\ deleted \in Seq([id : Feature, trip : Seq(Instant)])
    /\ unknown \subseteq {b \in Batch : answer[b] = "400"}

ControlInv ==
    /\ \A b \in Batch : Done(b) <= Len(obs[b])
    /\ \A f \in Feature : lock[f] \in Connected \cup {None}
    /\ \A b \in Batch : pc[b] \in {"idle", "begin"} => created[b] = 0 /\ extended[b] = 0
    /\ \A b \in Batch : pc[b] # "answered" => answer[b] = None
    /\ \A b \in Batch : pc[b] = "insert" => Done(b) < Len(obs[b])

PoolInv == Cardinality(Connected) + Cardinality(deleting) <= MaxConns

\* A draft begins as the committed row does.
FirstInv ==
    \A f \in Feature : lock[f] # None /\ trip[f] # <<>> => draft[f] # <<>> /\ draft[f][1] = trip[f][1]

\* The trajectories that a transaction has begun, and those that a request began.
Drafted(b) == {f \in Feature : lock[f] = b /\ Begins(b, draft[f])}
BegunBy(b) == {f \in Feature : Began(b, f)}

\* What a request counts as created: what its transaction has begun, and, when its COMMIT is
\* done, what began with it.
CountInv ==
    /\ \A b \in Batch : Running(b) => created[b] = Cardinality(Drafted(b))
    /\ \A b \in Committed : created[b] = Cardinality(BegunBy(b)) /\ Done(b) = Len(obs[b])

\* What is stored, or was, is of batches that are committed.
OwnerInv ==
    /\ \A f \in Feature : \A x \in Instants(trip[f]) : x.by \in Committed /\ Observed(f, x)
    /\ \A i \in 1..Len(deleted) : \A x \in Instants(deleted[i].trip) :
          x.by \in Committed /\ Observed(deleted[i].id, x)

\* A draft is the committed row and what its transaction has added.
DraftInv ==
    \A f \in Feature : lock[f] # None =>
        /\ Instants(trip[f]) \subseteq Instants(draft[f])
        /\ \A x \in Instants(draft[f]) :
              x \in Instants(trip[f]) \/ (x.by = lock[f] /\ Observed(f, x))

\* A running batch has written what it has counted.
WrittenInv ==
    \A b \in Batch : Running(b) =>
        \A j \in 1..Done(b) : /\ lock[obs[b][j].id] = b
                              /\ Mark(b, obs[b][j]) \in Instants(draft[obs[b][j].id])

\* A committed batch has all of its observations in the store, or in what was deleted.
KeptInv == \A b \in Committed : \A j \in 1..Len(obs[b]) : Kept(b, obs[b][j])

RowInv == FirstInv /\ CountInv /\ OwnerInv /\ DraftInv /\ WrittenInv /\ KeptInv

BulkInv == TypeInv /\ ControlInv /\ PoolInv /\ RowInv

-----------------------------------------------------------------------------
(* Sequences, and what the actions have in common                          *)

\* The elements of a trajectory are instants, whose times are numbers.
LEMMA InstantTypes ==
  /\ \A s \in Seq(Instant) : \A i \in 1..Len(s) : s[i] \in Instant
  /\ \A s \in Seq(Instant) : Instants(s) \subseteq Instant
  /\ \A x \in Instant : x.t \in Nat /\ x.by \in Batch
<1>1. \A s \in Seq(Instant) : \A i \in 1..Len(s) : s[i] \in Instant
  BY ElementOfSeq
<1>2. \A s \in Seq(Instant) : Instants(s) \subseteq Instant
  BY <1>1 DEF Instants
<1>3. \A x \in Instant : x.t \in Nat /\ x.by \in Batch
  BY BulkAssumption DEF Instant, BulkAssumption
<1>. QED  BY <1>1, <1>2, <1>3

\* What Append does to the elements of a trajectory, and to its first one.
LEMMA InstantsAppend ==
  ASSUME NEW s \in Seq(Instant), NEW x \in Instant
  PROVE  /\ Append(s, x) \in Seq(Instant)
         /\ Append(s, x) # <<>>
         /\ Instants(Append(s, x)) = Instants(s) \cup {x}
         /\ s # <<>> => Append(s, x)[1] = s[1]
<1>1. /\ Len(s) \in Nat
      /\ Append(s, x) \in Seq(Instant)
      /\ Len(Append(s, x)) = Len(s) + 1
      /\ \A i \in 1..Len(s) : Append(s, x)[i] = s[i]
      /\ Append(s, x)[Len(s) + 1] = x
  BY AppendProperties
<1>2. Instants(Append(s, x)) = Instants(s) \cup {x}
  BY <1>1 DEF Instants
<1>3. Append(s, x) # <<>>
  BY <1>1, EmptySeq
<1>4. s # <<>> => 1 \in 1..Len(s)
  BY <1>1, EmptySeq
<1>. QED  BY <1>1, <1>2, <1>3, <1>4

-----------------------------------------------------------------------------
(* The initial states                                                      *)

\* A body is a sequence of observations.
LEMMA BodyIsSeq == BoundedSeq(Observation, MaxLen) \subseteq Seq(Observation)
BY BulkAssumption, SeqDef DEF BoundedSeq, SeqOf, BulkAssumption

LEMMA BulkInitInv == BulkInit => BulkInv
<1>1. SUFFICES ASSUME BulkInit PROVE BulkInv
  OBVIOUS
<1>2. /\ obs \in [Batch -> Seq(Observation)]
      /\ <<>> \in Seq(Instant) /\ Len(<<>>) = 0
      /\ deleted \in Seq([id : Feature, trip : Seq(Instant)])
  BY <1>1, BodyIsSeq, EmptySeq DEF BulkInit
<1>3. TypeInv
  BY <1>1, <1>2 DEF BulkInit, TypeInv
<1>4. Connected = {} /\ Committed = {}
  BY <1>1, BulkAssumption DEF BulkInit, Connected, Committed, BulkAssumption
<1>5. ControlInv
  <2>1. \A b \in Batch : Len(obs[b]) \in Nat
    BY <1>2, LenProperties
  <2>. QED  BY <1>1, <2>1 DEF BulkInit, ControlInv, Done
<1>6. PoolInv
  BY <1>1, <1>4, FS_EmptySet, BulkAssumption DEF BulkInit, PoolInv, BulkAssumption
<1>7. RowInv
  <2>1. OwnerInv
    BY <1>1, <1>2 DEF BulkInit, OwnerInv, Instants
  <2>2. FirstInv /\ DraftInv /\ WrittenInv
    BY <1>1 DEF BulkInit, FirstInv, DraftInv, WrittenInv, Running
  <2>3. CountInv /\ KeptInv
    BY <1>1, <1>4 DEF BulkInit, CountInv, KeptInv, Running
  <2>. QED  BY <2>1, <2>2, <2>3 DEF RowInv
<1>. QED  BY <1>3, <1>5, <1>6, <1>7 DEF BulkInv

-----------------------------------------------------------------------------
(* The kinds of steps                                                      *)

\* A request moves to its next statement, and no row changes.
Moves(b, next) ==
    /\ pc[b] # "answered" /\ next \in {"begin", "update", "insert"}
    /\ pc' = [pc EXCEPT ![b] = next]
    /\ UNCHANGED <<obs, answer, created, extended, rowVars, deleteVars, unknown>>

\* A statement writes its row, and one observation more is counted.
Writes(b, value) ==
    /\ Running(b) /\ Done(b) < Len(obs[b])
    /\ Free(b, Current(b).id)
    /\ Write(b, Current(b).id, value)
    /\ value \in Seq(Instant)
    /\ \/ /\ Seen(b, Current(b).id) # <<>> /\ value # <<>>
          /\ value[1] = Seen(b, Current(b).id)[1]
          /\ created' = created
       \/ /\ Seen(b, Current(b).id) = <<>> /\ lock[Current(b).id] # b
          /\ value = <<Added(b)>>
          /\ created' = [created EXCEPT ![b] = @ + 1]
    /\ Instants(value) = Instants(Seen(b, Current(b).id)) \cup {Added(b)}
    /\ created' \in [Batch -> Nat] /\ extended' \in [Batch -> Nat]
    /\ created'[b] + extended'[b] = Done(b) + 1
    /\ \A c \in Batch \ {b} : created'[c] = created[c] /\ extended'[c] = extended[c]
    /\ pc' = [pc EXCEPT ![b] = "update"]
    /\ UNCHANGED <<obs, answer, deleteVars, unknown>>

\* A request is refused, or fails, without a commit.
Ends(b, code) ==
    /\ pc[b] # "answered" /\ code \in {"400", "409"}
    /\ Rollback(b)
    /\ Answer(b, code)
    /\ UNCHANGED <<obs, created, extended, deleteVars, unknown>>

\* The database commits, whatever the client is told of it.
Commits(b) ==
    /\ CommitRows(b)
    /\ \/ Answer(b, "201") /\ UNCHANGED unknown
       \/ Answer(b, "400") /\ unknown' = unknown \cup {b}
    /\ UNCHANGED <<obs, created, extended, deleteVars>>

\* The observations of a body, and what they become when they are added.
LEMMA MarkType ==
  ASSUME TypeInv, NEW b \in Batch, NEW j \in 1..Len(obs[b])
  PROVE  /\ obs[b][j] \in Observation
         /\ obs[b][j].id \in Feature
         /\ Mark(b, obs[b][j]) \in Instant
         /\ obs[b][j] = [id |-> obs[b][j].id, t |-> obs[b][j].t]
<1>1. obs[b] \in Seq(Observation)
  BY DEF TypeInv
<1>2. obs[b][j] \in Observation
  BY <1>1, ElementOfSeq
<1>. QED  BY <1>2 DEF Observation, Instant, Mark

\* The counters of a batch.
LEMMA DoneType ==
  ASSUME TypeInv, NEW b \in Batch
  PROVE  Done(b) \in Nat /\ Len(obs[b]) \in Nat
<1>1. obs[b] \in Seq(Observation) /\ created[b] \in Nat /\ extended[b] \in Nat
  BY DEF TypeInv
<1>. QED  BY <1>1, LenProperties DEF Done

\* A trajectory in the store, or one that was deleted, began with a batch that is committed;
\* a batch that is not answered is none.
LEMMA BeginsCommitted ==
  ASSUME BulkInv
  PROVE  /\ \A b \in Batch, f \in Feature : Begins(b, trip[f]) => b \in Committed
         /\ \A b \in Batch : \A i \in 1..Len(deleted) : Begins(b, deleted[i].trip) => b \in Committed
         /\ \A b \in Batch, f \in Feature : Began(b, f) => b \in Committed
         /\ \A b \in Batch : pc[b] # "answered" => b \notin Committed
<1>. USE DEF BulkInv, RowInv
<1>1. ASSUME NEW s \in Seq(Instant), s # <<>>
      PROVE  s[1] \in Instants(s)
  BY <1>1, EmptySeq, LenProperties DEF Instants
<1>2. DOMAIN deleted = 1..Len(deleted) /\ \A i \in 1..Len(deleted) : deleted[i].trip \in Seq(Instant)
  <2>1. \A i \in 1..Len(deleted) : deleted[i] \in [id : Feature, trip : Seq(Instant)]
    BY ElementOfSeq DEF TypeInv
  <2>. QED  BY <2>1, LenProperties DEF TypeInv
<1>3. ASSUME NEW b \in Batch, NEW f \in Feature, Begins(b, trip[f]) PROVE b \in Committed
  BY <1>1, <1>3 DEF OwnerInv, Begins, TypeInv
<1>4. ASSUME NEW b \in Batch, NEW i \in 1..Len(deleted), Begins(b, deleted[i].trip)
      PROVE  b \in Committed
  BY <1>1, <1>2, <1>4 DEF OwnerInv, Begins
<1>5. ASSUME NEW b \in Batch, pc[b] # "answered" PROVE b \notin Committed
  BY <1>5, BulkAssumption DEF ControlInv, TypeInv, Committed, BulkAssumption
<1>. QED  BY <1>2, <1>3, <1>4, <1>5 DEF Began

LEMMA MovesKeepsRows ==
  ASSUME BulkInv, NEW b \in Batch, NEW next, Moves(b, next)
  PROVE  RowInv'
<1>. USE DEF BulkInv, RowInv
<1>1. UNCHANGED <<obs, answer, created, extended, trip, lock, draft, deleted, unknown>>
  BY DEF Moves, rowVars, deleteVars
<1>2. FirstInv' /\ DraftInv'
  BY <1>1 DEF FirstInv, DraftInv, Observed
<1>3. OwnerInv'
  <2>1. Committed' = Committed /\ OwnerInv
    BY <1>1 DEF Committed
  <2>2. \A f, x : Observed(f, x)' <=> Observed(f, x)
    BY <1>1 DEF Observed
  <2>. QED  BY <1>1, <2>1, <2>2 DEF OwnerInv
<1>4. KeptInv'
  BY <1>1 DEF KeptInv, Committed, Kept
<1>5. ASSUME NEW c \in Batch, Running(c)'
      PROVE  Running(c) \/ (created[c] = 0 /\ Done(c) = 0 /\ Drafted(c) = {})
  <2>1. CASE c = b
    <3>1. pc[b] \in {"idle", "begin"} \/ Running(b)
      BY DEF Moves, TypeInv, Running
    <3>2. pc[b] \in {"idle", "begin"} => created[b] = 0 /\ Done(b) = 0
      BY DEF ControlInv, Done
    <3>3. pc[b] \in {"idle", "begin"} => Drafted(b) = {}
      BY BulkAssumption DEF ControlInv, Connected, Drafted, BulkAssumption
    <3>. QED  BY <2>1, <3>1, <3>2, <3>3
  <2>2. CASE c # b
    BY <1>5, <2>2 DEF Moves, TypeInv, Running
  <2>. QED  BY <2>1, <2>2
<1>6. \A c \in Batch : Done(c)' = Done(c) /\ Drafted(c)' = Drafted(c) /\ BegunBy(c)' = BegunBy(c)
  BY <1>1 DEF Done, Drafted, BegunBy, Began
<1>7. WrittenInv'
  BY <1>1, <1>5, <1>6 DEF WrittenInv
<1>8. CountInv'
  <2>1. \A c \in Batch : Running(c)' => created[c] = Cardinality(Drafted(c))
    BY <1>5, FS_EmptySet DEF CountInv
  <2>2. Committed' = Committed /\ Committed \subseteq Batch
    BY <1>1 DEF Committed, TypeInv
  <2>. QED  BY <1>1, <1>6, <2>1, <2>2 DEF CountInv
<1>. QED  BY <1>2, <1>3, <1>4, <1>7, <1>8

LEMMA EndsKeepsRows ==
  ASSUME BulkInv, NEW b \in Batch, NEW code, Ends(b, code)
  PROVE  RowInv'
<1>. USE DEF BulkInv, RowInv
<1>1. UNCHANGED <<obs, created, extended, trip, deleted, unknown>>
  BY DEF Ends, Rollback, deleteVars
<1>2. \A f \in Feature : /\ lock'[f] # None => lock'[f] = lock[f] /\ lock[f] # b /\ draft'[f] = draft[f]
                         /\ lock[f] # b => lock'[f] = lock[f] /\ draft'[f] = draft[f]
  BY DEF Ends, Rollback
<1>3. Committed' = Committed
  <2>1. answer[b] = None /\ None # "201"
    BY BulkAssumption DEF Ends, ControlInv, BulkAssumption
  <2>. QED  BY <1>1, <2>1 DEF Ends, Answer, Committed, TypeInv
<1>4. FirstInv' /\ OwnerInv' /\ KeptInv'
  BY <1>1, <1>2, <1>3 DEF FirstInv, OwnerInv, KeptInv, Observed, Kept
<1>5. DraftInv'
  BY <1>1, <1>2 DEF DraftInv, Observed
<1>6. WrittenInv'
  <2>1. SUFFICES ASSUME NEW c \in Batch, Running(c)', NEW j \in (1..Done(c))'
                 PROVE  /\ lock'[obs[c][j].id] = c
                        /\ Mark(c, obs[c][j]) \in Instants(draft'[obs[c][j].id])
    BY <1>1 DEF WrittenInv, Mark
  <2>2. c # b /\ Running(c)
    BY <2>1 DEF Ends, Answer, Running, TypeInv
  <2>3. j \in 1..Done(c) /\ j \in 1..Len(obs[c])
    BY <1>1, <2>1, DoneType DEF ControlInv, Done
  <2>4. obs[c][j].id \in Feature
    BY <2>3, MarkType
  <2>5. lock[obs[c][j].id] = c /\ Mark(c, obs[c][j]) \in Instants(draft[obs[c][j].id])
    BY <2>2, <2>3 DEF WrittenInv
  <2>. QED  BY <1>2, <2>2, <2>4, <2>5
<1>7. CountInv'
  <2>1. ASSUME NEW c \in Batch, Running(c)'
        PROVE  Running(c) /\ Drafted(c)' = Drafted(c)
    <3>1. c # b /\ c # None /\ Running(c)
      BY <2>1, BulkAssumption DEF Ends, Answer, Running, TypeInv, BulkAssumption
    <3>2. \A f \in Feature : /\ lock'[f] = c <=> lock[f] = c
                             /\ lock[f] = c => draft'[f] = draft[f]
      BY <1>2, <3>1
    <3>. QED  BY <3>1, <3>2 DEF Drafted
  <2>2. \A c \in Batch : Done(c)' = Done(c) /\ BegunBy(c)' = BegunBy(c)
    BY <1>1 DEF Done, BegunBy, Began
  <2>3. Committed \subseteq Batch
    BY DEF Committed, TypeInv
  <2>. QED  BY <1>1, <1>3, <2>1, <2>2, <2>3 DEF CountInv
<1>. QED  BY <1>4, <1>5, <1>6, <1>7

LEMMA WritesKeepsRows ==
  ASSUME BulkInv, NEW b \in Batch, NEW value, Writes(b, value)
  PROVE  RowInv'
<1>. USE DEF BulkInv, RowInv
<1>. DEFINE n == Done(b) + 1
            f0 == Current(b).id
<1>1. UNCHANGED <<obs, answer, trip, deleted, unknown>>
  BY DEF Writes, Write, deleteVars
<1>2. /\ Done(b) \in Nat /\ n \in 1..Len(obs[b])
      /\ Current(b) = obs[b][n]
      /\ Added(b) = Mark(b, obs[b][n])
  BY DoneType DEF Writes, Current, Added, Mark
<1>3. f0 \in Feature /\ Added(b).by = b /\ Observed(f0, Added(b))
  BY <1>2, MarkType DEF Observed, Added
<1>4. /\ lock'[f0] = b /\ draft'[f0] = value
      /\ \A f \in Feature \ {f0} : lock'[f] = lock[f] /\ draft'[f] = draft[f]
      /\ lock[f0] \in {None, b} /\ b # None
      /\ Instants(value) = Instants(Seen(b, f0)) \cup {Added(b)}
  BY <1>3, BulkAssumption DEF Writes, Write, Free, TypeInv, BulkAssumption
<1>5. FirstInv'
  <2>1. trip[f0] # <<>> => value # <<>> /\ value[1] = trip[f0][1]
    <3>1. trip[f0] # <<>> => Seen(b, f0) # <<>> /\ Seen(b, f0)[1] = trip[f0][1]
      BY <1>3, <1>4 DEF FirstInv, Seen
    <3>. QED  BY <3>1 DEF Writes
  <2>. QED  BY <1>1, <1>4, <2>1 DEF FirstInv
<1>6. Committed' = Committed /\ \A f, x : Observed(f, x)' <=> Observed(f, x)
  BY <1>1 DEF Committed, Observed
<1>7. OwnerInv'
  <2>1. OwnerInv
    OBVIOUS
  <2>. QED  BY <1>1, <1>6, <2>1 DEF OwnerInv
<1>8. KeptInv'
  <2>1. KeptInv
    OBVIOUS
  <2>. QED  BY <1>1, <1>6, <2>1 DEF KeptInv, Kept
<1>9. DraftInv'
  <2>1. /\ Instants(trip[f0]) \subseteq Instants(Seen(b, f0))
        /\ \A x \in Instants(Seen(b, f0)) : x \in Instants(trip[f0]) \/ (x.by = b /\ Observed(f0, x))
    <3>1. CASE lock[f0] = b
      BY <1>3, <1>4, <3>1 DEF DraftInv, Seen
    <3>2. CASE lock[f0] # b
      BY <3>2 DEF Seen
    <3>. QED  BY <3>1, <3>2
  <2>2. ASSUME NEW f \in Feature, lock'[f] # None
        PROVE  /\ Instants(trip[f]) \subseteq Instants(draft'[f])
               /\ \A x \in Instants(draft'[f]) :
                     x \in Instants(trip[f]) \/ (x.by = lock'[f] /\ Observed(f, x))
    <3>1. CASE f = f0
      BY <1>3, <1>4, <2>1, <3>1
    <3>2. CASE f # f0
      BY <1>4, <2>2, <3>2 DEF DraftInv
    <3>. QED  BY <3>1, <3>2
  <2>. QED  BY <1>1, <1>6, <2>2 DEF DraftInv
<1>10. WrittenInv'
  <2>1. SUFFICES ASSUME NEW c \in Batch, Running(c)', NEW j \in (1..Done(c))'
                 PROVE  /\ lock'[obs[c][j].id] = c
                        /\ Mark(c, obs[c][j]) \in Instants(draft'[obs[c][j].id])
    BY <1>1 DEF WrittenInv, Mark
  <2>2. CASE c = b
    <3>1. Running(b) /\ (j = n \/ j \in 1..Done(b))
      BY <1>2, <2>1, <2>2 DEF Writes, Done
    <3>2. CASE j = n
      BY <1>2, <1>4, <2>2, <3>2
    <3>3. CASE j \in 1..Done(b)
      <4>1. j \in 1..Len(obs[b])
        BY <1>2, <3>3
      <4>2. /\ obs[b][j].id \in Feature
            /\ lock[obs[b][j].id] = b
            /\ Mark(b, obs[b][j]) \in Instants(draft[obs[b][j].id])
        BY <3>1, <3>3, <4>1, MarkType DEF WrittenInv
      <4>3. CASE obs[b][j].id = f0
        BY <1>4, <2>2, <4>2, <4>3 DEF Seen
      <4>4. CASE obs[b][j].id # f0
        BY <1>4, <2>2, <4>2, <4>4
      <4>. QED  BY <4>3, <4>4
    <3>. QED  BY <3>1, <3>2, <3>3
  <2>3. CASE c # b
    <3>1. Running(c) /\ j \in 1..Done(c)
      BY <2>1, <2>3 DEF Writes, Running, Done, TypeInv
    <3>2. j \in 1..Len(obs[c])
      BY <3>1, DoneType DEF ControlInv
    <3>3. /\ obs[c][j].id \in Feature
          /\ lock[obs[c][j].id] = c
          /\ Mark(c, obs[c][j]) \in Instants(draft[obs[c][j].id])
      BY <3>1, <3>2, MarkType DEF WrittenInv
    <3>4. obs[c][j].id # f0
      BY <1>4, <2>3, <3>3, BulkAssumption DEF BulkAssumption
    <3>. QED  BY <1>4, <3>3, <3>4
  <2>. QED  BY <2>2, <2>3
<1>11. CountInv'
  <2>1. Running(b) /\ b \notin Committed /\ ~Begins(b, trip[f0])
    BY <1>3, BeginsCommitted DEF Writes, Running
  <2>2. \A c \in Batch \ {b} : /\ Drafted(c)' = Drafted(c) /\ created'[c] = created[c]
                              /\ Done(c)' = Done(c) /\ (Running(c)' <=> Running(c))
    <3>1. ASSUME NEW c \in Batch \ {b}
          PROVE  Drafted(c)' = Drafted(c)
      <4>1. lock[f0] # c /\ lock'[f0] # c
        BY <1>4, BulkAssumption DEF BulkAssumption
      <4>. QED  BY <1>4, <4>1 DEF Drafted
    <3>2. \A c \in Batch \ {b} : Running(c)' <=> Running(c)
      BY DEF Writes, Running, TypeInv
    <3>. QED  BY <3>1, <3>2 DEF Writes, Done
  <2>3. created'[b] = Cardinality(Drafted(b)')
    <3>0. created[b] = Cardinality(Drafted(b)) /\ created[b] \in Nat
      BY <2>1 DEF CountInv, TypeInv
    <3>1. CASE Seen(b, f0) # <<>> /\ value # <<>> /\ value[1] = Seen(b, f0)[1] /\ created' = created
      <4>1. Begins(b, value) <=> Begins(b, Seen(b, f0))
        BY <3>1 DEF Begins
      <4>2. f0 \in Drafted(b) <=> Begins(b, Seen(b, f0))
        BY <1>3, <2>1 DEF Drafted, Seen
      <4>3. f0 \in Drafted(b)' <=> Begins(b, value)
        BY <1>3, <1>4 DEF Drafted
      <4>4. Drafted(b)' = Drafted(b)
        BY <1>4, <4>1, <4>2, <4>3 DEF Drafted
      <4>. QED  BY <3>0, <3>1, <4>4
    <3>2. CASE lock[f0] # b /\ value = <<Added(b)>> /\ created' = [created EXCEPT ![b] = @ + 1]
      <4>1. Begins(b, value)
        BY <1>3, <3>2 DEF Begins
      <4>2. f0 \notin Drafted(b) /\ f0 \in Drafted(b)'
        BY <1>3, <1>4, <3>2, <4>1 DEF Drafted
      <4>3. Drafted(b)' = Drafted(b) \cup {f0}
        BY <1>4, <4>2 DEF Drafted
      <4>4. IsFiniteSet(Drafted(b))
        BY FS_Subset, BulkAssumption DEF Drafted, BulkAssumption
      <4>5. Cardinality(Drafted(b) \cup {f0}) = Cardinality(Drafted(b)) + 1
        BY <4>2, <4>4, FS_AddElement
      <4>6. created'[b] = created[b] + 1
        BY <3>2 DEF TypeInv
      <4>. QED  BY <3>0, <4>3, <4>5, <4>6
    <3>. QED  BY <3>1, <3>2 DEF Writes
  <2>4. \A c \in Batch : BegunBy(c)' = BegunBy(c)
    BY <1>1 DEF BegunBy, Began
  <2>5. Committed \subseteq Batch \ {b}
    BY <2>1 DEF Committed, TypeInv
  <2>6. \A c \in Batch : Running(c)' => created'[c] = Cardinality(Drafted(c)')
    BY <2>2, <2>3 DEF CountInv
  <2>7. \A c \in Committed : created'[c] = Cardinality(BegunBy(c)') /\ Done(c)' = Len(obs[c])
    BY <2>2, <2>4, <2>5 DEF CountInv
  <2>. QED  BY <1>1, <1>6, <2>6, <2>7 DEF CountInv
<1>. QED  BY <1>5, <1>7, <1>8, <1>9, <1>10, <1>11

LEMMA CommitsKeepsRows ==
  ASSUME BulkInv, NEW b \in Batch, Commits(b)
  PROVE  RowInv'
<1>. USE DEF BulkInv, RowInv
<1>1. UNCHANGED <<obs, created, extended, deleted>>
  BY DEF Commits, deleteVars
<1>2. \A f \in Feature :
         /\ lock[f] = b => trip'[f] = draft[f] /\ lock[f] # None
         /\ lock[f] # b => trip'[f] = trip[f] /\ lock'[f] = lock[f] /\ draft'[f] = draft[f]
         /\ lock'[f] # None => lock[f] # b
  BY BulkAssumption DEF Commits, CommitRows, BulkAssumption
<1>3. Committed' = Committed \cup {b}
  BY DEF Commits, Answer, Committed, TypeInv
<1>4. \A f, x : Observed(f, x)' <=> Observed(f, x)
  BY <1>1 DEF Observed
<1>5. FirstInv'
  BY <1>2 DEF FirstInv
<1>6. OwnerInv'
  <2>1. ASSUME NEW f \in Feature, NEW x \in Instants(trip'[f])
        PROVE  x.by \in Committed \cup {b} /\ Observed(f, x)
    <3>1. x \in Instants(trip[f]) \/ (x.by = b /\ Observed(f, x))
      BY <1>2, <2>1 DEF DraftInv
    <3>. QED  BY <3>1 DEF OwnerInv
  <2>2. OwnerInv
    OBVIOUS
  <2>. QED  BY <1>1, <1>3, <1>4, <2>1, <2>2 DEF OwnerInv
<1>7. DraftInv'
  <2>1. DraftInv
    OBVIOUS
  <2>. QED  BY <1>2, <1>4, <2>1 DEF DraftInv
<1>8. WrittenInv'
  <2>1. SUFFICES ASSUME NEW c \in Batch, Running(c)', NEW j \in (1..Done(c))'
                 PROVE  /\ lock'[obs[c][j].id] = c
                        /\ Mark(c, obs[c][j]) \in Instants(draft'[obs[c][j].id])
    BY <1>1 DEF WrittenInv, Mark
  <2>2. c # b /\ Running(c)
    BY <2>1 DEF Commits, Answer, Running, TypeInv
  <2>3. j \in 1..Done(c) /\ j \in 1..Len(obs[c])
    BY <1>1, <2>1, DoneType DEF ControlInv, Done
  <2>4. obs[c][j].id \in Feature
    BY <2>3, MarkType
  <2>5. lock[obs[c][j].id] = c /\ Mark(c, obs[c][j]) \in Instants(draft[obs[c][j].id])
    BY <2>2, <2>3 DEF WrittenInv
  <2>. QED  BY <1>2, <2>2, <2>4, <2>5
<1>9. KeptInv'
  <2>1. SUFFICES ASSUME NEW c \in Committed \cup {b}, NEW j \in 1..Len(obs[c])
                 PROVE  Kept(c, obs[c][j])'
    BY <1>1, <1>3 DEF KeptInv, Kept, Mark
  <2>2. c \in Batch
    BY <2>1 DEF Committed, TypeInv
  <2>3. obs[c][j].id \in Feature
    BY <2>1, <2>2, MarkType
  <2>4. CASE c = b
    <3>1. Running(b) /\ j \in 1..Done(b)
      BY <2>1, <2>4 DEF Commits, CommitRows, Running
    <3>2. lock[obs[b][j].id] = b /\ Mark(b, obs[b][j]) \in Instants(draft[obs[b][j].id])
      BY <3>1 DEF WrittenInv
    <3>. QED  BY <1>1, <1>2, <2>3, <2>4, <3>2 DEF Kept, Mark
  <2>5. CASE c \in Committed
    <3>1. Kept(c, obs[c][j])
      BY <2>1, <2>5 DEF KeptInv
    <3>2. Instants(trip[obs[c][j].id]) \subseteq Instants(trip'[obs[c][j].id])
      BY <1>2, <2>3 DEF DraftInv
    <3>. QED  BY <1>1, <3>1, <3>2 DEF Kept, Mark
  <2>. QED  BY <2>1, <2>4, <2>5
<1>10. CountInv'
  <2>0. /\ Running(b) /\ b \notin Committed /\ Done(b) = Len(obs[b])
        /\ \A c \in Batch : Done(c)' = Done(c)
    BY <1>1, BeginsCommitted DEF Commits, CommitRows, Running, Done
  <2>1. ASSUME NEW c \in Batch, Running(c)'
        PROVE  created[c] = Cardinality(Drafted(c)')
    <3>1. c # b /\ c # None /\ Running(c)
      BY <2>1, BulkAssumption DEF Commits, Answer, Running, TypeInv, BulkAssumption
    <3>2. \A f \in Feature : /\ lock'[f] = c <=> lock[f] = c
                             /\ lock[f] = c => draft'[f] = draft[f]
      BY <1>2, <3>1 DEF Commits, CommitRows
    <3>3. Drafted(c)' = Drafted(c)
      BY <3>2 DEF Drafted
    <3>. QED  BY <3>1, <3>3 DEF CountInv
  <2>2. ASSUME NEW c \in Batch, NEW f \in Feature, lock[f] = b
        PROVE  Begins(c, trip'[f]) <=> (Begins(c, trip[f]) \/ (c = b /\ Begins(b, draft[f])))
    <3>1. trip'[f] = draft[f] /\ lock[f] # None
      BY <1>2, <2>2
    <3>2. CASE trip[f] # <<>>
      <4>1. draft[f] # <<>> /\ draft[f][1] = trip[f][1]
        BY <3>1, <3>2 DEF FirstInv
      <4>. QED  BY <3>1, <3>2, <4>1 DEF Begins
    <3>3. CASE trip[f] = <<>>
      <4>1. draft[f] # <<>> => draft[f][1].by = b
        <5>1. draft[f] \in Seq(Instant)
          BY DEF TypeInv
        <5>2. draft[f] # <<>> => draft[f][1] \in Instants(draft[f])
          BY <5>1, EmptySeq, LenProperties DEF Instants
        <5>3. Instants(trip[f]) = {}
          BY <3>3 DEF Instants
        <5>. QED  BY <2>2, <3>1, <5>2, <5>3 DEF DraftInv
      <4>. QED  BY <3>1, <3>3, <4>1 DEF Begins
    <3>. QED  BY <3>2, <3>3
  <2>3. \A c \in Batch \ {b}, f \in Feature : Begins(c, trip'[f]) <=> Begins(c, trip[f])
    BY <1>2, <2>2
  <2>4. \A f \in Feature : Begins(b, trip'[f]) <=> (lock[f] = b /\ Begins(b, draft[f]))
    BY <1>2, <2>0, <2>2, BeginsCommitted
  <2>5. \A c \in Batch \ {b} : BegunBy(c)' = BegunBy(c)
    BY <1>1, <2>3 DEF BegunBy, Began
  <2>6. BegunBy(b)' = Drafted(b)
    <3>1. \A i \in DOMAIN deleted : ~Begins(b, deleted[i].trip)
      BY <2>0, BeginsCommitted, LenProperties DEF TypeInv
    <3>. QED  BY <1>1, <2>4, <3>1 DEF BegunBy, Began, Drafted
  <2>7. Committed \subseteq Batch \ {b}
    BY <2>0 DEF Committed, TypeInv
  <2>8. \A c \in Committed \cup {b} : created[c] = Cardinality(BegunBy(c)') /\ Done(c)' = Len(obs[c])
    <3>1. created[b] = Cardinality(BegunBy(b)') /\ Done(b)' = Len(obs[b])
      BY <2>0, <2>6 DEF CountInv
    <3>2. \A c \in Committed : created[c] = Cardinality(BegunBy(c)') /\ Done(c)' = Len(obs[c])
      BY <2>0, <2>5, <2>7 DEF CountInv
    <3>. QED  BY <3>1, <3>2
  <2>. QED  BY <1>1, <1>3, <2>1, <2>8 DEF CountInv
<1>. QED  BY <1>5, <1>6, <1>7, <1>8, <1>9, <1>10

LEMMA DeleteKeepsTypes ==
  ASSUME BulkInv, NEW f \in Feature, BeginDelete(f) \/ DeleteItem(f)
  PROVE  TypeInv' /\ ControlInv' /\ Connected' = Connected
<1>. USE DEF BulkInv
<1>1. UNCHANGED <<obs, pc, answer, created, extended, lock, draft, unknown>>
  BY DEF BeginDelete, DeleteItem, requestVars, rowVars
<1>2. /\ trip' \in [Feature -> Seq(Instant)]
      /\ deleting' \subseteq Feature
      /\ deleted' \in Seq([id : Feature, trip : Seq(Instant)])
  <2>1. CASE BeginDelete(f)
    BY <2>1 DEF BeginDelete, rowVars, TypeInv
  <2>2. CASE DeleteItem(f)
    <3>1. [id |-> f, trip |-> trip[f]] \in [id : Feature, trip : Seq(Instant)]
      BY DEF TypeInv
    <3>. QED  BY <2>2, <3>1, EmptySeq, AppendProperties DEF DeleteItem, TypeInv
  <2>. QED  BY <2>1, <2>2
<1>3. TypeInv'
  BY <1>1, <1>2 DEF TypeInv
<1>4. Connected' = Connected /\ \A c \in Batch : Done(c)' = Done(c)
  BY <1>1 DEF Connected, Done
<1>5. ControlInv'
  BY <1>1, <1>4 DEF ControlInv
<1>. QED  BY <1>3, <1>4, <1>5

LEMMA DeleteKeepsRows ==
  ASSUME BulkInv, NEW f0 \in Feature, DeleteItem(f0)
  PROVE  RowInv'
<1>. USE DEF BulkInv, RowInv
<1>1. UNCHANGED <<obs, pc, answer, created, extended, lock, draft, unknown>>
  BY DEF DeleteItem, requestVars
<1>2. /\ trip'[f0] = <<>>
      /\ \A f \in Feature \ {f0} : trip'[f] = trip[f]
      /\ trip[f0] # <<>> => lock[f0] = None
  BY DEF DeleteItem, TypeInv
<1>3. Instants(<<>>) = {}
  BY DEF Instants
<1>4. /\ Len(deleted) \in Nat
      /\ Len(deleted') = Len(deleted) + 1
      /\ \A i \in 1..Len(deleted) : deleted'[i] = deleted[i]
      /\ deleted'[Len(deleted) + 1] = [id |-> f0, trip |-> trip[f0]]
  <2>1. [id |-> f0, trip |-> trip[f0]] \in [id : Feature, trip : Seq(Instant)]
    BY DEF TypeInv
  <2>. QED  BY <2>1, AppendProperties DEF DeleteItem, TypeInv
<1>5. Committed' = Committed /\ \A f, x : Observed(f, x)' <=> Observed(f, x)
  BY <1>1 DEF Committed, Observed
<1>6. FirstInv'
  BY <1>1, <1>2 DEF FirstInv
<1>7. OwnerInv'
  <2>1. ASSUME NEW f \in Feature, NEW x \in Instants(trip'[f])
        PROVE  x.by \in Committed /\ Observed(f, x)
    BY <1>2, <1>3, <2>1 DEF OwnerInv
  <2>2. ASSUME NEW i \in 1..Len(deleted'), NEW x \in Instants(deleted'[i].trip)
        PROVE  x.by \in Committed /\ Observed(deleted'[i].id, x)
    <3>1. CASE i \in 1..Len(deleted)
      BY <1>4, <2>2, <3>1 DEF OwnerInv
    <3>2. CASE i = Len(deleted) + 1
      <4>1. deleted'[i].id = f0 /\ deleted'[i].trip = trip[f0]
        BY <1>4, <3>2
      <4>. QED  BY <2>2, <4>1 DEF OwnerInv
    <3>. QED  BY <1>4, <2>2, <3>1, <3>2
  <2>. QED  BY <1>5, <2>1, <2>2 DEF OwnerInv
<1>8. DraftInv'
  <2>1. \A f \in Feature : lock[f] # None => trip'[f] = trip[f]
    BY <1>2
  <2>2. DraftInv
    OBVIOUS
  <2>. QED  BY <1>1, <1>5, <2>1, <2>2 DEF DraftInv
<1>9. WrittenInv'
  <2>1. WrittenInv /\ \A c \in Batch : Done(c)' = Done(c) /\ (Running(c)' <=> Running(c))
    BY <1>1 DEF Done, Running
  <2>. QED  BY <1>1, <2>1 DEF WrittenInv, Mark
<1>10. KeptInv'
  <2>1. SUFFICES ASSUME NEW c \in Committed, NEW j \in 1..Len(obs[c])
                 PROVE  Kept(c, obs[c][j])'
    BY <1>1, <1>5 DEF KeptInv, Kept, Mark
  <2>. DEFINE o == obs[c][j]
  <2>2. o.id \in Feature
    BY MarkType DEF Committed, TypeInv
  <2>3. Kept(c, o)
    BY DEF KeptInv
  <2>4. CASE o.id = f0 /\ Mark(c, o) \in Instants(trip[f0])
    <3>1. /\ Len(deleted) + 1 \in 1..Len(deleted')
          /\ deleted'[Len(deleted) + 1].id = o.id
          /\ Mark(c, o) \in Instants(deleted'[Len(deleted) + 1].trip)
      BY <1>4, <2>4
    <3>. QED  BY <1>1, <3>1 DEF Kept, Mark
  <2>5. CASE o.id # f0 /\ Mark(c, o) \in Instants(trip[o.id])
    BY <1>1, <1>2, <2>2, <2>5 DEF Kept, Mark
  <2>6. CASE \E i \in 1..Len(deleted) : deleted[i].id = o.id /\ Mark(c, o) \in Instants(deleted[i].trip)
    <3>1. \A i \in 1..Len(deleted) : i \in 1..Len(deleted') /\ deleted'[i] = deleted[i]
      BY <1>4
    <3>. QED  BY <1>1, <2>6, <3>1 DEF Kept, Mark
  <2>. QED  BY <2>3, <2>4, <2>5, <2>6 DEF Kept
<1>11. CountInv'
  <2>1. ASSUME NEW c \in Batch, NEW f \in Feature
        PROVE  Began(c, f)' <=> Began(c, f)
    <3>1. DOMAIN deleted = 1..Len(deleted) /\ DOMAIN deleted' = 1..(Len(deleted) + 1)
      BY <1>4, LenProperties, DeleteKeepsTypes DEF TypeInv
    <3>. DEFINE Before == \E i \in 1..Len(deleted) : deleted[i].id = f /\ Begins(c, deleted[i].trip)
    <3>2. Began(c, f) <=> Begins(c, trip[f]) \/ Before
      BY <3>1 DEF Began
    <3>3. Began(c, f)' <=> Begins(c, trip'[f]) \/ Before \/ (f0 = f /\ Begins(c, trip[f0]))
      <4>1. Began(c, f)' <=> Begins(c, trip'[f]) \/ \E i \in 1..(Len(deleted) + 1) :
                                 deleted'[i].id = f /\ Begins(c, deleted'[i].trip)
        BY <3>1 DEF Began, Begins
      <4>. QED  BY <1>4, <4>1
    <3>4. CASE f = f0
      BY <1>2, <3>2, <3>3, <3>4 DEF Begins
    <3>5. CASE f # f0
      BY <1>2, <3>2, <3>3, <3>5
    <3>. QED  BY <3>4, <3>5
  <2>2. \A c \in Batch : /\ BegunBy(c)' = BegunBy(c) /\ Drafted(c)' = Drafted(c)
                         /\ Done(c)' = Done(c) /\ (Running(c)' <=> Running(c))
    BY <1>1, <2>1 DEF BegunBy, Drafted, Done, Running
  <2>3. Committed \subseteq Batch
    BY DEF Committed, TypeInv
  <2>. QED  BY <1>1, <1>5, <2>2, <2>3 DEF CountInv
<1>. QED  BY <1>6, <1>7, <1>8, <1>9, <1>10, <1>11

-----------------------------------------------------------------------------
(* Types, control and the pool                                             *)

LEMMA MovesKeepsTypes ==
  ASSUME BulkInv, NEW b \in Batch, NEW next, Moves(b, next),
         next = "insert" => Done(b) < Len(obs[b]), Running(b) => next # "begin"
  PROVE  TypeInv' /\ ControlInv'
<1>. USE DEF BulkInv
<1>1. UNCHANGED <<obs, answer, created, extended, trip, lock, draft, deleting, deleted, unknown>>
  BY DEF Moves, rowVars, deleteVars
<1>2. /\ pc' \in [Batch -> {"idle", "begin", "update", "insert", "answered"}]
      /\ pc[b] # "answered" /\ pc'[b] = next /\ next \in {"begin", "update", "insert"}
      /\ \A c \in Batch \ {b} : pc'[c] = pc[c]
  BY DEF Moves, TypeInv
<1>3. TypeInv'
  BY <1>1, <1>2 DEF TypeInv
<1>4. Connected \subseteq Connected'
  BY <1>2 DEF Connected, Running
<1>5. ControlInv'
  <2>1. \A c \in Batch : Done(c)' = Done(c)
    BY <1>1 DEF Done
  <2>2. \A f \in Feature : lock'[f] \in Connected' \cup {None}
    BY <1>1, <1>4 DEF ControlInv
  <2>3. \A c \in Batch : pc'[c] \in {"idle", "begin"} => created'[c] = 0 /\ extended'[c] = 0
    BY <1>1, <1>2 DEF ControlInv, TypeInv, Running
  <2>4. \A c \in Batch : pc'[c] # "answered" => answer'[c] = None
    BY <1>1, <1>2 DEF ControlInv
  <2>5. \A c \in Batch : pc'[c] = "insert" => Done(c) < Len(obs[c])
    BY <1>2 DEF ControlInv
  <2>6. \A c \in Batch : Done(c) <= Len(obs[c])
    BY DEF ControlInv
  <2>. QED  BY <1>1, <2>1, <2>2, <2>3, <2>4, <2>5, <2>6 DEF ControlInv
<1>. QED  BY <1>3, <1>5

LEMMA WritesKeepsTypes ==
  ASSUME BulkInv, NEW b \in Batch, NEW value, Writes(b, value)
  PROVE  TypeInv' /\ ControlInv' /\ Connected' = Connected
<1>. USE DEF BulkInv
<1>1. UNCHANGED <<obs, answer, trip, deleting, deleted, unknown>>
  BY DEF Writes, Write, deleteVars
<1>2. /\ pc' \in [Batch -> {"idle", "begin", "update", "insert", "answered"}]
      /\ pc[b] \in {"update", "insert"} /\ pc'[b] = "update"
      /\ \A c \in Batch \ {b} : pc'[c] = pc[c]
  BY DEF Writes, Running, TypeInv
<1>3. Current(b).id \in Feature
  <2>1. Done(b) + 1 \in 1..Len(obs[b])
    BY DoneType DEF Writes
  <2>. QED  BY <2>1, MarkType DEF Current
<1>4. TypeInv'
  <2>1. /\ lock' \in [Feature -> Batch \cup {None}]
        /\ draft' \in [Feature -> Seq(Instant)]
    BY DEF Writes, Write, TypeInv
  <2>2. created' \in [Batch -> Nat] /\ extended' \in [Batch -> Nat]
    BY DEF Writes
  <2>. QED  BY <1>1, <1>2, <2>1, <2>2 DEF TypeInv
<1>5. Connected' = Connected
  BY <1>2 DEF Connected
<1>6. ControlInv'
  <2>1. \A c \in Batch : Done(c)' <= Len(obs[c])
    <3>1. Done(b)' = Done(b) + 1 /\ Done(b) < Len(obs[b])
      BY DEF Writes, Done
    <3>2. \A c \in Batch \ {b} : Done(c)' = Done(c)
      BY DEF Writes, Done
    <3>3. \A c \in Batch : Done(c) \in Nat /\ Len(obs[c]) \in Nat /\ Done(c) <= Len(obs[c])
      BY DoneType DEF ControlInv
    <3>. QED  BY <3>1, <3>2, <3>3
  <2>2. \A f \in Feature : lock'[f] \in Connected \cup {None}
    BY <1>2 DEF Writes, Write, ControlInv, TypeInv, Connected
  <2>3. \A c \in Batch : pc'[c] \in {"idle", "begin"} => created'[c] = 0 /\ extended'[c] = 0
    BY <1>2 DEF ControlInv, Writes
  <2>4. \A c \in Batch : pc'[c] # "answered" => answer'[c] = None
    BY <1>1, <1>2 DEF ControlInv
  <2>5. \A c \in Batch : pc'[c] = "insert" => Done(c)' < Len(obs[c])
    <3>1. \A c \in Batch \ {b} : Done(c)' = Done(c)
      BY DEF Writes, Done
    <3>. QED  BY <1>2, <3>1 DEF ControlInv
  <2>. QED  BY <1>1, <1>5, <2>1, <2>2, <2>3, <2>4, <2>5 DEF ControlInv
<1>. QED  BY <1>4, <1>5, <1>6

LEMMA EndsKeepsTypes ==
  ASSUME BulkInv, NEW b \in Batch, NEW code, Ends(b, code)
  PROVE  TypeInv' /\ ControlInv' /\ Connected' \subseteq Connected
<1>. USE DEF BulkInv
<1>1. UNCHANGED <<obs, created, extended, trip, deleting, deleted, unknown>>
  BY DEF Ends, Rollback, deleteVars
<1>2. /\ pc' \in [Batch -> {"idle", "begin", "update", "insert", "answered"}]
      /\ answer' \in [Batch -> {None, "201", "400", "409"}]
      /\ pc'[b] = "answered" /\ answer[b] = None
      /\ \A c \in Batch \ {b} : pc'[c] = pc[c] /\ answer'[c] = answer[c]
  BY DEF Ends, Answer, TypeInv, ControlInv
<1>3. TypeInv'
  <2>1. /\ lock' \in [Feature -> Batch \cup {None}]
        /\ draft' \in [Feature -> Seq(Instant)]
    BY EmptySeq DEF Ends, Rollback, TypeInv
  <2>2. unknown \subseteq {c \in Batch : answer'[c] = "400"}
    BY <1>2, BulkAssumption DEF TypeInv, BulkAssumption
  <2>. QED  BY <1>1, <1>2, <2>1, <2>2 DEF TypeInv
<1>4. Connected' = Connected \ {b}
  BY <1>2 DEF Connected
<1>5. ControlInv'
  <2>1. \A c \in Batch : Done(c)' = Done(c)
    BY <1>1 DEF Done
  <2>2. \A f \in Feature : lock'[f] \in Connected' \cup {None}
    BY <1>4, BulkAssumption DEF Ends, Rollback, ControlInv, BulkAssumption
  <2>. QED  BY <1>1, <1>2, <2>1, <2>2 DEF ControlInv
<1>. QED  BY <1>3, <1>4, <1>5

LEMMA CommitsKeepsTypes ==
  ASSUME BulkInv, NEW b \in Batch, Commits(b)
  PROVE  TypeInv' /\ ControlInv' /\ Connected' \subseteq Connected
<1>. USE DEF BulkInv
<1>1. UNCHANGED <<obs, created, extended, deleting, deleted>>
  BY DEF Commits, deleteVars
<1>2. /\ pc' \in [Batch -> {"idle", "begin", "update", "insert", "answered"}]
      /\ answer' \in [Batch -> {None, "201", "400", "409"}]
      /\ pc'[b] = "answered" /\ answer[b] = None
      /\ \A c \in Batch \ {b} : pc'[c] = pc[c] /\ answer'[c] = answer[c]
  BY DEF Commits, CommitRows, Answer, TypeInv, ControlInv
<1>3. TypeInv'
  <2>1. /\ trip' \in [Feature -> Seq(Instant)]
        /\ lock' \in [Feature -> Batch \cup {None}]
        /\ draft' \in [Feature -> Seq(Instant)]
    BY EmptySeq DEF Commits, CommitRows, TypeInv
  <2>2. unknown' \subseteq {c \in Batch : answer'[c] = "400"}
    <3>1. b \notin unknown
      BY <1>2, BulkAssumption DEF TypeInv, BulkAssumption
    <3>2. unknown \subseteq {c \in Batch : answer'[c] = "400"}
      BY <1>2, <3>1 DEF TypeInv
    <3>3. unknown' = unknown \/ (unknown' = unknown \cup {b} /\ answer'[b] = "400")
      BY DEF Commits, Answer, TypeInv
    <3>. QED  BY <3>2, <3>3
  <2>. QED  BY <1>1, <1>2, <2>1, <2>2 DEF TypeInv
<1>4. Connected' = Connected \ {b}
  BY <1>2 DEF Connected
<1>5. ControlInv'
  <2>1. \A c \in Batch : Done(c)' = Done(c)
    BY <1>1 DEF Done
  <2>2. \A f \in Feature : lock'[f] \in Connected' \cup {None}
    BY <1>4, BulkAssumption DEF Commits, CommitRows, ControlInv, BulkAssumption
  <2>. QED  BY <1>1, <1>2, <2>1, <2>2 DEF ControlInv
<1>. QED  BY <1>3, <1>4, <1>5

\* The pool holds finite numbers of connections.
LEMMA PoolTypes ==
  ASSUME TypeInv
  PROVE  /\ IsFiniteSet(Connected) /\ Cardinality(Connected) \in Nat
         /\ IsFiniteSet(deleting) /\ Cardinality(deleting) \in Nat
<1>1. IsFiniteSet(Connected) /\ IsFiniteSet(deleting)
  <2>1. Connected \subseteq Batch /\ deleting \subseteq Feature
    BY DEF Connected, TypeInv
  <2>. QED  BY <2>1, FS_Subset, BulkAssumption DEF BulkAssumption
<1>. QED  BY <1>1, FS_CardinalityType

\* A connection that is given back, or kept, overdraws nothing.
LEMMA PoolShrinks ==
  ASSUME TypeInv, PoolInv, TypeInv', Connected' \subseteq Connected, deleting' \subseteq deleting
  PROVE  PoolInv'
<1>1. /\ Cardinality(Connected') <= Cardinality(Connected)
      /\ Cardinality(deleting') <= Cardinality(deleting)
      /\ Cardinality(Connected) \in Nat /\ Cardinality(deleting) \in Nat
      /\ Cardinality(Connected') \in Nat /\ Cardinality(deleting') \in Nat
  <2>1. IsFiniteSet(Connected') /\ Cardinality(Connected') \in Nat
    BY PoolTypes, FS_Subset, FS_CardinalityType
  <2>2. IsFiniteSet(deleting') /\ Cardinality(deleting') \in Nat
    BY PoolTypes, FS_Subset, FS_CardinalityType
  <2>. QED  BY <2>1, <2>2, PoolTypes, FS_Subset
<1>. QED  BY <1>1, BulkAssumption DEF PoolInv, BulkAssumption

\* A connection that is free may be taken.
LEMMA PoolGrows ==
  ASSUME TypeInv, ConnectionFree, NEW x,
         \/ Connected' = Connected \cup {x} /\ deleting' = deleting
         \/ Connected' = Connected /\ deleting' = deleting \cup {x}
  PROVE  PoolInv'
<1>1. /\ Cardinality(Connected \cup {x}) <= Cardinality(Connected) + 1
      /\ Cardinality(deleting \cup {x}) <= Cardinality(deleting) + 1
      /\ Cardinality(Connected \cup {x}) \in Nat
      /\ Cardinality(deleting \cup {x}) \in Nat
  <2>1. ASSUME NEW S, IsFiniteSet(S)
        PROVE  Cardinality(S \cup {x}) \in Nat /\ Cardinality(S \cup {x}) <= Cardinality(S) + 1
    <3>1. Cardinality(S) \in Nat
      BY <2>1, FS_CardinalityType
    <3>2. Cardinality(S \cup {x}) = IF x \in S THEN Cardinality(S) ELSE Cardinality(S) + 1
      BY <2>1, FS_AddElement
    <3>. QED  BY <3>1, <3>2
  <2>. QED  BY <2>1, PoolTypes
<1>2. Cardinality(Connected) + Cardinality(deleting) < MaxConns
  BY DEF ConnectionFree
<1>3. /\ Cardinality(Connected) \in Nat /\ Cardinality(deleting) \in Nat
      /\ MaxConns \in Nat
  BY PoolTypes, BulkAssumption DEF BulkAssumption
<1>4. CASE Connected' = Connected \cup {x} /\ deleting' = deleting
  BY <1>1, <1>2, <1>3, <1>4 DEF PoolInv
<1>5. CASE Connected' = Connected /\ deleting' = deleting \cup {x}
  BY <1>1, <1>2, <1>3, <1>5 DEF PoolInv
<1>. QED  BY <1>4, <1>5

-----------------------------------------------------------------------------
(* The invariant                                                           *)

\* Each action is a step of one of the kinds above.
LEMMA BatchSteps ==
  ASSUME BulkInv, NEW b \in Batch
  PROVE  /\ Reject(b) => Ends(b, "400")
         /\ RefuseOrder(b) => Ends(b, "409")
         /\ RefuseDuplicate(b) \/ Fail(b) => Ends(b, "400")
         /\ Accept(b) => Moves(b, "begin") /\ Connected' = Connected
         /\ Begin(b) => Moves(b, "update") /\ ConnectionFree /\ Connected' = Connected \cup {b}
         /\ FindNone(b) => Moves(b, "insert") /\ Done(b) < Len(obs[b]) /\ Connected' = Connected
         /\ Commit(b) \/ CommitLost(b) => Commits(b)
<1>. USE DEF BulkInv
<1>1. Reject(b) => Ends(b, "400")
  <2>1. SUFFICES ASSUME Reject(b) PROVE Ends(b, "400")
    OBVIOUS
  <2>2. \A f \in Feature : lock[f] # b
    BY <2>1, BulkAssumption DEF Reject, ControlInv, Connected, BulkAssumption
  <2>3. Rollback(b)
    BY <2>1, <2>2 DEF Reject, Rollback, rowVars, TypeInv
  <2>. QED  BY <2>1, <2>3 DEF Reject, Ends
<1>2. RefuseOrder(b) => Ends(b, "409")
  BY DEF RefuseOrder, Ends
<1>3. RefuseDuplicate(b) \/ Fail(b) => Ends(b, "400")
  BY DEF RefuseDuplicate, Fail, Ends
<1>4. Accept(b) => Moves(b, "begin") /\ Connected' = Connected
  BY DEF Accept, Moves, Connected, TypeInv
<1>5. Begin(b) => Moves(b, "update") /\ ConnectionFree /\ Connected' = Connected \cup {b}
  BY DEF Begin, Moves, Connected, TypeInv
<1>6. FindNone(b) => Moves(b, "insert") /\ Done(b) < Len(obs[b]) /\ Connected' = Connected
  BY DEF FindNone, Moves, Connected, TypeInv
<1>7. Commit(b) \/ CommitLost(b) => Commits(b)
  BY DEF Commit, CommitLost, Commits
<1>. QED  BY <1>1, <1>2, <1>3, <1>4, <1>5, <1>6, <1>7

\* What a statement adds is an instant of its batch.
LEMMA AddedType ==
  ASSUME TypeInv, NEW b \in Batch, Done(b) < Len(obs[b])
  PROVE  Added(b) \in Instant /\ Current(b).id \in Feature /\ Seen(b, Current(b).id) \in Seq(Instant)
<1>1. Done(b) + 1 \in 1..Len(obs[b])
  BY DoneType
<1>2. Added(b) \in Instant /\ Current(b).id \in Feature
  BY <1>1, MarkType DEF Current, Added, Mark
<1>. QED  BY <1>2 DEF Seen, TypeInv

LEMMA ExtendWrites ==
  ASSUME BulkInv, NEW b \in Batch, Extend(b)
  PROVE  Writes(b, Append(Seen(b, Current(b).id), Added(b)))
<1>. USE DEF BulkInv
<1>. DEFINE s == Seen(b, Current(b).id)
<1>1. s \in Seq(Instant) /\ Added(b) \in Instant /\ Current(b).id \in Feature
  BY AddedType DEF Extend
<1>2. s # <<>> /\ created' = created
  BY DEF Extend
<1>4. /\ Append(s, Added(b)) \in Seq(Instant) /\ Append(s, Added(b)) # <<>>
      /\ Append(s, Added(b))[1] = s[1]
      /\ Instants(Append(s, Added(b))) = Instants(s) \cup {Added(b)}
  BY <1>1, <1>2, InstantsAppend
<1>5. /\ created' \in [Batch -> Nat] /\ extended' \in [Batch -> Nat]
      /\ created'[b] + extended'[b] = Done(b) + 1
      /\ \A c \in Batch \ {b} : created'[c] = created[c] /\ extended'[c] = extended[c]
  BY DEF Extend, Done, TypeInv
<1>6. pc' = [pc EXCEPT ![b] = "update"]
  BY DEF Extend, TypeInv
<1>. QED  BY <1>2, <1>4, <1>5, <1>6 DEF Extend, Writes, Running

LEMMA CreateWrites ==
  ASSUME BulkInv, NEW b \in Batch, Create(b)
  PROVE  Writes(b, <<Added(b)>>)
<1>. USE DEF BulkInv
<1>1. Done(b) < Len(obs[b])
  BY DEF Create, ControlInv
<1>2. Added(b) \in Instant /\ Current(b).id \in Feature
  BY <1>1, AddedType
<1>3. Seen(b, Current(b).id) = <<>>
  BY BulkAssumption DEF Create, Seen, BulkAssumption
<1>4. /\ <<Added(b)>> \in Seq(Instant)
      /\ Instants(<<Added(b)>>) = Instants(<<>>) \cup {Added(b)}
  BY <1>2 DEF Instants
<1>5. /\ created' \in [Batch -> Nat] /\ extended' \in [Batch -> Nat]
      /\ created'[b] + extended'[b] = Done(b) + 1
      /\ \A c \in Batch \ {b} : created'[c] = created[c] /\ extended'[c] = extended[c]
  <2>1. created \in [Batch -> Nat] /\ extended \in [Batch -> Nat]
    BY DEF TypeInv
  <2>2. created' = [created EXCEPT ![b] = @ + 1] /\ extended' = extended
    BY DEF Create
  <2>3. created'[b] = created[b] + 1 /\ created[b] \in Nat /\ extended[b] \in Nat
    BY <2>1, <2>2
  <2>. QED  BY <2>1, <2>2, <2>3 DEF Done
<1>6. lock[Current(b).id] = None /\ None # b /\ created' = [created EXCEPT ![b] = @ + 1]
  BY BulkAssumption DEF Create, BulkAssumption
<1>. QED  BY <1>1, <1>3, <1>4, <1>5, <1>6 DEF Create, Writes, Running, Free

\* RowInv is about these variables.
LEMMA SameRows ==
  ASSUME BulkInv, UNCHANGED <<obs, pc, answer, created, extended, trip, lock, draft, deleted, unknown>>
  PROVE  RowInv'
<1>. USE DEF BulkInv, RowInv
<1>1. Committed' = Committed
  BY DEF Committed
<1>2. FirstInv' /\ CountInv'
  <2>1. Committed \subseteq Batch
    BY DEF Committed, TypeInv
  <2>2. \A c \in Batch : /\ BegunBy(c)' = BegunBy(c) /\ Drafted(c)' = Drafted(c)
                         /\ Done(c)' = Done(c) /\ (Running(c)' <=> Running(c))
    BY DEF BegunBy, Began, Drafted, Done, Running
  <2>. QED  BY <1>1, <2>1, <2>2 DEF FirstInv, CountInv
<1>3. DraftInv'
  BY DEF DraftInv, Observed
<1>4. OwnerInv'
  <2>1. OwnerInv /\ \A f, x : Observed(f, x)' <=> Observed(f, x)
    BY DEF Observed
  <2>. QED  BY <1>1, <2>1 DEF OwnerInv
<1>5. WrittenInv'
  BY DEF WrittenInv, Done, Running
<1>6. KeptInv'
  BY <1>1 DEF KeptInv, Kept
<1>. QED  BY <1>2, <1>3, <1>4, <1>5, <1>6

LEMMA BulkNextInv == BulkInv /\ [BulkNext]_bulkVars => BulkInv'
<1>. SUFFICES ASSUME BulkInv, [BulkNext]_bulkVars PROVE BulkInv'
  OBVIOUS
<1>. USE DEF BulkInv
<1>1. ASSUME NEW b \in Batch, NEW code, Ends(b, code) PROVE BulkInv'
  <2>1. deleting' = deleting
    BY <1>1 DEF Ends, deleteVars
  <2>. QED  BY <1>1, <2>1, EndsKeepsTypes, EndsKeepsRows, PoolShrinks
<1>2. ASSUME NEW b \in Batch, Accept(b) PROVE BulkInv'
  <2>1. Moves(b, "begin") /\ ~Running(b) /\ Connected' = Connected /\ deleting' = deleting
    BY <1>2, BatchSteps DEF Accept, Running, deleteVars
  <2>. QED  BY <2>1, MovesKeepsTypes, MovesKeepsRows, PoolShrinks
<1>3. ASSUME NEW b \in Batch, Begin(b) PROVE BulkInv'
  <2>1. Moves(b, "update") /\ ConnectionFree /\ Connected' = Connected \cup {b} /\ deleting' = deleting
    BY <1>3, BatchSteps DEF Begin, deleteVars
  <2>2. PoolInv'
    BY <2>1, PoolGrows
  <2>. QED  BY <2>1, <2>2, MovesKeepsTypes, MovesKeepsRows
<1>4. ASSUME NEW b \in Batch, FindNone(b) PROVE BulkInv'
  <2>1. /\ Moves(b, "insert") /\ Done(b) < Len(obs[b])
        /\ Connected' = Connected /\ deleting' = deleting
    BY <1>4, BatchSteps DEF FindNone, deleteVars
  <2>. QED  BY <2>1, MovesKeepsTypes, MovesKeepsRows, PoolShrinks
<1>5. ASSUME NEW b \in Batch, Extend(b) \/ Create(b) PROVE BulkInv'
  <2>1. PICK value : Writes(b, value)
    BY <1>5, ExtendWrites, CreateWrites
  <2>2. deleting' = deleting
    BY <2>1 DEF Writes, deleteVars
  <2>. QED  BY <2>1, <2>2, WritesKeepsTypes, WritesKeepsRows, PoolShrinks
<1>6. ASSUME NEW b \in Batch, Commits(b) PROVE BulkInv'
  <2>1. deleting' = deleting
    BY <1>6 DEF Commits, deleteVars
  <2>. QED  BY <1>6, <2>1, CommitsKeepsTypes, CommitsKeepsRows, PoolShrinks
<1>7. ASSUME NEW f \in Feature, BeginDelete(f) PROVE BulkInv'
  <2>1. TypeInv' /\ ControlInv' /\ Connected' = Connected
    BY <1>7, DeleteKeepsTypes
  <2>2. PoolInv'
    BY <1>7, <2>1, PoolGrows DEF BeginDelete
  <2>3. RowInv'
    <3>1. UNCHANGED <<requestVars, rowVars, deleted, unknown>>
      BY <1>7 DEF BeginDelete
    <3>. QED  BY <3>1, SameRows DEF requestVars, rowVars
  <2>. QED  BY <2>1, <2>2, <2>3
<1>8. ASSUME NEW f \in Feature, DeleteItem(f) PROVE BulkInv'
  <2>1. TypeInv' /\ ControlInv' /\ Connected' = Connected
    BY <1>8, DeleteKeepsTypes
  <2>2. deleting' \subseteq deleting
    BY <1>8 DEF DeleteItem
  <2>. QED  BY <1>8, <2>1, <2>2, PoolShrinks, DeleteKeepsRows
<1>9. CASE BulkDone \/ UNCHANGED bulkVars
  <2>1. UNCHANGED <<requestVars, rowVars, deleteVars, unknown>>
    BY <1>9 DEF BulkDone, bulkVars
  <2>2. TypeInv' /\ ControlInv' /\ PoolInv'
    BY <2>1 DEF requestVars, rowVars, deleteVars, TypeInv, ControlInv, PoolInv, Connected, Done
  <2>3. RowInv'
    BY <2>1, SameRows DEF requestVars, rowVars, deleteVars
  <2>. QED  BY <2>2, <2>3
<1>10. ASSUME NEW b \in Batch, Reject(b) \/ Accept(b) \/ AppendBatch(b) \/ Fail(b) \/ CommitLost(b)
       PROVE  BulkInv'
  <2>1. CASE Reject(b) \/ RefuseOrder(b) \/ RefuseDuplicate(b) \/ Fail(b)
    BY <1>1, <2>1, BatchSteps
  <2>2. CASE Commit(b) \/ CommitLost(b)
    BY <1>6, <2>2, BatchSteps
  <2>. QED  BY <1>2, <1>3, <1>4, <1>5, <1>10, <2>1, <2>2 DEF AppendBatch, BreakDeadlock
<1>. QED  BY <1>7, <1>8, <1>9, <1>10 DEF BulkNext

\* BulkInv holds in every state of the specification.
LEMMA BulkInductive == BulkSafetySpec => []BulkInv
BY BulkInitInv, BulkNextInv, PTL DEF BulkSafetySpec

-----------------------------------------------------------------------------
\* Type correctness of bulk ingestion: with it, that the pool is not overdrawn, and that a
\* batch that is answered holds no lock.
THEOREM BulkTypeCorrect == BulkSafetySpec => []BulkTypeOK
<1>1. BulkInv => BulkTypeOK
  BY DEF BulkInv, TypeInv, ControlInv, PoolInv, BulkTypeOK
<1>. QED  BY <1>1, BulkInductive, PTL

\* What a 201 says is so: featuresCreated is the number of vehicles whose trajectory began
\* with the batch, whichever batches and deletions raced with it, and every other observation
\* extended one.
THEOREM BulkCountsAreTrue == BulkSafetySpec => []CountsAreTrue
<1>1. BulkInv => CountsAreTrue
  <2>. SUFFICES ASSUME BulkInv, NEW b \in Batch, answer[b] = "201"
                PROVE  /\ created[b] = Cardinality({f \in Feature : Began(b, f)})
                       /\ extended[b] = Len(obs[b]) - created[b]
    BY DEF CountsAreTrue
  <2>1. created[b] = Cardinality(BegunBy(b)) /\ Done(b) = Len(obs[b])
    BY DEF BulkInv, RowInv, CountInv, Committed
  <2>2. created[b] \in Nat /\ extended[b] \in Nat
    BY DEF BulkInv, TypeInv
  <2>. QED  BY <2>1, <2>2 DEF BegunBy, Done
<1>. QED  BY <1>1, BulkInductive, PTL

\* A batch whose COMMIT was done has every observation in the store, or in what was deleted
\* from it; one that was refused, failed or still runs has none.
THEOREM BulkAllOrNothing == BulkSafetySpec => []AllOrNothing
<1>1. BulkInv => AllOrNothing
  <2>. SUFFICES ASSUME BulkInv, NEW b \in Batch
                PROVE  Stored(b) = IF b \in Committed THEN Range(obs[b]) ELSE {}
    BY DEF AllOrNothing, Committed
  <2>. USE DEF BulkInv, RowInv
  <2>1. /\ obs[b] \in Seq(Observation) /\ DOMAIN obs[b] = 1..Len(obs[b])
        /\ Range(obs[b]) = {obs[b][j] : j \in 1..Len(obs[b])}
    BY LenProperties DEF TypeInv, Range
  <2>2. ASSUME NEW o \in Observation
        PROVE  o \in Stored(b) <=> Kept(b, o)
    <3>1. o.id \in Feature
      BY DEF Observation
    <3>2. \A s \in Seq(Instant) :
             /\ (\E i \in DOMAIN s : s[i] = Mark(b, o)) <=> Mark(b, o) \in Instants(s)
             /\ Mark(b, o) \in Range(s) <=> Mark(b, o) \in Instants(s)
      BY LenProperties DEF Instants, Range
    <3>3. trip[o.id] \in Seq(Instant) /\ DOMAIN deleted = 1..Len(deleted)
      BY <3>1, LenProperties DEF TypeInv
    <3>4. \A i \in 1..Len(deleted) : deleted[i].trip \in Seq(Instant)
      <4>1. \A i \in 1..Len(deleted) : deleted[i] \in [id : Feature, trip : Seq(Instant)]
        BY ElementOfSeq DEF TypeInv
      <4>. QED  BY <4>1
    <3>. QED  BY <3>2, <3>3, <3>4 DEF Stored, Kept, Mark
  <2>3. ASSUME NEW o \in Observation, Kept(b, o)
        PROVE  b \in Committed /\ o \in Range(obs[b])
    <3>1. o.id \in Feature /\ o = [id |-> o.id, t |-> o.t] /\ Mark(b, o).by = b /\ Mark(b, o).t = o.t
      BY DEF Observation, Mark
    <3>2. b \in Committed /\ Observed(o.id, Mark(b, o))
      BY <2>3, <3>1 DEF OwnerInv, Kept
    <3>. QED  BY <2>1, <3>1, <3>2 DEF Observed
  <2>4. ASSUME b \in Committed, NEW o \in Range(obs[b])
        PROVE  o \in Observation /\ Kept(b, o)
    <3>1. PICK j \in 1..Len(obs[b]) : o = obs[b][j]
      BY <2>1, <2>4
    <3>. QED  BY <2>4, <3>1, MarkType DEF KeptInv
  <2>5. Stored(b) \subseteq Observation
    BY DEF Stored
  <2>6. CASE b \in Committed
    <3>1. Stored(b) \subseteq Range(obs[b])
      BY <2>2, <2>3, <2>5
    <3>2. Range(obs[b]) \subseteq Stored(b)
      BY <2>2, <2>4, <2>6
    <3>. QED  BY <2>6, <3>1, <3>2
  <2>7. CASE b \notin Committed
    BY <2>2, <2>3, <2>5, <2>7
  <2>. QED  BY <2>6, <2>7
<1>. QED  BY <1>1, BulkInductive, PTL

=============================================================================
