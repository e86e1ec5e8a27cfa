-------------------------- MODULE StreamTier_proofs --------------------------
(***************************************************************************)
(* Proofs about the streaming tier, for any queries, requests, keys and    *)
(* capacities: it implements the fan-out, so what Fanout_proofs shows of   *)
(* any producer and any registry holds of these; and the invariants of the *)
(* registry, the live hub and the ends of queries.  A proof about one part *)
(* of the state considers the actions that write it, and a frame lemma     *)
(* says the others leave it alone.                                         *)
(***************************************************************************)
EXTENDS StreamTier, Fanout_proofs

-----------------------------------------------------------------------------
(* The tier implements the fan-out                                         *)

LEMMA TierStepIsFanoutStep == [TierNext]_tierVars => [FanoutNext]_fanoutVars
<1>. SUFFICES ASSUME [TierNext]_tierVars PROVE FanoutNext \/ UNCHANGED fanoutVars
  OBVIOUS
<1>1. ASSUME NEW q \in Query, Produce(q) \/ PumpStart(q) \/ Pump(q) PROVE FanoutNext
  BY <1>1 DEF FanoutNext
<1>2. ASSUME NEW h \in Handler, Open(h) \/ Refuse(h) \/ Respond(h) \/ Client(h)
      PROVE  FanoutNext
  BY <1>2 DEF FanoutNext
<1>3. ASSUME NEW q \in Query, Post(q) PROVE FanoutNext \/ UNCHANGED fanoutVars
  <2>1. CASE PostGo(q)
    BY <1>1, <2>1 DEF PostGo
  <2>2. CASE Post(q) /\ ~PostGo(q)
    BY <2>2 DEF Post, PostReject, PostLive, PostReplay, PostReplayFails, PostSubmit,
                PostSubmitFails, PostRegister
  <2>. QED  BY <1>3, <2>1, <2>2
<1>4. ASSUME NEW q \in Query, Source(q) \/ ReplayCancelled(q)
      PROVE  FanoutNext \/ UNCHANGED fanoutVars
  <2>1. CASE ReplayToPump(q)
    BY <1>1, <2>1 DEF ReplayToPump, Produce
  <2>2. CASE ReplayCancelled(q)
    BY <1>1, <2>2 DEF ReplayCancelled, Produce
  <2>3. CASE ReplayTick(q) \/ CloserRuns(q)
    BY <2>3 DEF ReplayTick, CloserRuns
  <2>. QED  BY <1>4, <2>1, <2>2, <2>3 DEF Source
<1>5. ASSUME NEW q \in Query, Engine(q) \/ EngineCancelled(q)
      PROVE  FanoutNext \/ UNCHANGED fanoutVars
  <2>1. CASE EngineEmit(q)
    BY <1>1, <2>1 DEF EngineEmit, Produce
  <2>2. CASE EngineClose(q)
    BY <1>1, <2>2 DEF EngineClose, Produce
  <2>3. CASE EngineReceive(q) \/ EngineSourceEnds(q) \/ EngineCancelled(q)
    BY <2>3 DEF EngineReceive, EngineSourceEnds, EngineCancelled
  <2>. QED  BY <1>5, <2>1, <2>2, <2>3 DEF Engine
<1>6. ASSUME NEW q \in Query, TierPump(q) PROVE FanoutNext
  BY <1>1, <1>6 DEF TierPump
<1>7. ASSUME NEW h \in Handler, SseGet(h) \/ SseRespond(h) \/ SseClient(h)
      PROVE  FanoutNext
  BY <1>2, <1>7 DEF SseGet, SseRespond, SseClient
<1>8. ASSUME NEW p \in Property, Publish(p) PROVE UNCHANGED fanoutVars
  BY <1>8 DEF Publish
<1>9. ASSUME NEW d \in Deleter, DeleteGet(d) \/ Delete(d) PROVE UNCHANGED fanoutVars
  BY <1>9 DEF DeleteGet, Delete, DeleteStop, DeleteRemove
<1>10. CASE TierDone \/ UNCHANGED tierVars
  BY <1>10 DEF TierDone, tierVars
<1>. QED
  BY <1>3, <1>4, <1>5, <1>6, <1>7, <1>8, <1>9, <1>10 DEF TierNext

\* Whatever its sources, its engine and its registry do, the tier's fan-out is the one of
\* module Fanout.
THEOREM TierRefinesFanout == TierSafetySpec => RefinesFanout
<1>1. TierInit => FanoutInit
  BY DEF TierInit
<1>. QED
  BY <1>1, TierStepIsFanoutStep, PTL DEF TierSafetySpec, RefinesFanout, FanoutSafetySpec

\* So no channel of a client is closed twice or sent to after its close, in the tier too.
THEOREM TierChannelDiscipline == TierSafetySpec => []ChannelDiscipline
BY TierRefinesFanout, FanoutChannelDiscipline, PTL DEF RefinesFanout

\* And a client whose channel never was full misses no event of its query.
THEOREM TierNoSilentLoss == TierSafetySpec => []NoSilentLoss
BY TierRefinesFanout, FanoutNoSilentLoss, PTL DEF RefinesFanout

-----------------------------------------------------------------------------
(* Types                                                                   *)

TierTypes ==
    /\ kind \in [Query -> Kind]
    /\ target \in [Query -> Property]
    /\ post \in [Query -> PostState]
    /\ cancelled \in [Query -> BOOLEAN]
    /\ replay \in [Query -> {"none", "wait", "offer", "done"}]
    /\ hub \in SUBSET Query
    /\ inbox \in [Query -> 0..InboxCap]
    /\ inboxClosed \in [Query -> BOOLEAN]
    /\ closer \in [Query -> {"none", "waiting", "done"}]
    /\ eng \in [Query -> {"none", "select", "emit", "closing", "done"}]
    /\ engStatus \in [Query -> {"running", "stopped", "failed"}]
    /\ registry \in SUBSET Query
    /\ nextID \in Nat
    /\ qid \in [Query -> Nat]
    /\ del \in [Deleter -> {"idle", "got", "stopped", "gone", "refused"}]
    /\ victim \in [Deleter -> Query]

LEMMA InitTierTypes == TierInit => TierTypes
BY TierAssumption DEF TierInit, TierTypes, PostState

LEMMA NextTierTypes == TierTypes /\ [TierNext]_tierVars => TierTypes'
<1>. SUFFICES ASSUME TierTypes, [TierNext]_tierVars PROVE TierTypes'
  OBVIOUS
<1>. USE DEF createVars, sourceVars, engineVars, deleteVars, restVars
<1>1. ASSUME NEW q \in Query, PostReject(q) PROVE TierTypes'
  BY <1>1 DEF PostReject, TierTypes, PostState
<1>2. ASSUME NEW q \in Query, PostLive(q) PROVE TierTypes'
  BY <1>2 DEF PostLive, TierTypes, PostState
<1>3. ASSUME NEW q \in Query, PostReplay(q) PROVE TierTypes'
  BY <1>3 DEF PostReplay, TierTypes, PostState
<1>4. ASSUME NEW q \in Query, PostReplayFails(q) PROVE TierTypes'
  BY <1>4 DEF PostReplayFails, TierTypes, PostState
<1>5. ASSUME NEW q \in Query, PostSubmit(q) PROVE TierTypes'
  BY <1>5 DEF PostSubmit, TierTypes, PostState
<1>6. ASSUME NEW q \in Query, PostSubmitFails(q) PROVE TierTypes'
  BY <1>6 DEF PostSubmitFails, TierTypes, PostState
<1>7. ASSUME NEW q \in Query, PostRegister(q) PROVE TierTypes'
  BY <1>7 DEF PostRegister, TierTypes, PostState
<1>8. ASSUME NEW q \in Query, PostGo(q) PROVE TierTypes'
  BY <1>8 DEF PostGo, TierTypes, PostState
<1>9. ASSUME NEW q \in Query, ReplayTick(q) PROVE TierTypes'
  BY <1>9 DEF ReplayTick, TierTypes
<1>10. ASSUME NEW q \in Query, ReplayToPump(q) PROVE TierTypes'
  BY <1>10 DEF ReplayToPump, TierTypes
<1>11. ASSUME NEW q \in Query, CloserRuns(q) PROVE TierTypes'
  BY <1>11 DEF CloserRuns, TierTypes
<1>12. ASSUME NEW q \in Query, ReplayCancelled(q) PROVE TierTypes'
  BY <1>12 DEF ReplayCancelled, TierTypes
<1>13. ASSUME NEW q \in Query, EngineReceive(q) PROVE TierTypes'
  <2>1. inbox' \in [Query -> 0..InboxCap]
    <3>1. inbox' = inbox \/ (inbox[q] > 0 /\ inbox' = [inbox EXCEPT ![q] = inbox[q] - 1])
      BY <1>13 DEF EngineReceive, TakeRecord
    <3>2. inbox \in [Query -> 0..InboxCap] /\ inbox[q] \in 0..InboxCap
      BY DEF TierTypes
    <3>3. inbox[q] > 0 => inbox[q] - 1 \in 0..InboxCap
      BY <3>2, TierAssumption
    <3>. QED  BY <3>1, <3>2, <3>3
  <2>2. replay' \in [Query -> {"none", "wait", "offer", "done"}]
    BY <1>13 DEF EngineReceive, TakeRecord, TierTypes
  <2>3. /\ eng' \in [Query -> {"none", "select", "emit", "closing", "done"}]
        /\ engStatus' \in [Query -> {"running", "stopped", "failed"}]
    BY <1>13 DEF EngineReceive, TierTypes
  <2>4. UNCHANGED <<createVars, cancelled, hub, inboxClosed, closer, deleteVars>>
    BY <1>13 DEF EngineReceive
  <2>. QED  BY <2>1, <2>2, <2>3, <2>4 DEF TierTypes
<1>14. ASSUME NEW q \in Query, EngineEmit(q) PROVE TierTypes'
  BY <1>14 DEF EngineEmit, TierTypes
<1>15. ASSUME NEW q \in Query, EngineSourceEnds(q) PROVE TierTypes'
  BY <1>15 DEF EngineSourceEnds, TierTypes
<1>16. ASSUME NEW q \in Query, EngineClose(q) PROVE TierTypes'
  BY <1>16 DEF EngineClose, TierTypes
<1>17. ASSUME NEW q \in Query, EngineCancelled(q) PROVE TierTypes'
  BY <1>17 DEF EngineCancelled, TierTypes
<1>18. ASSUME NEW p \in Property, Publish(p) PROVE TierTypes'
  <2>1. \A q \in Query : inbox'[q] = inbox[q] \/ (inbox[q] < InboxCap /\ inbox'[q] = inbox[q] + 1)
    BY <1>18 DEF Publish
  <2>2. inbox' = [q \in Query |-> inbox'[q]]
    BY <1>18 DEF Publish
  <2>3. \A q \in Query : inbox[q] \in 0..InboxCap
    BY DEF TierTypes
  <2>4. \A q \in Query : inbox'[q] \in 0..InboxCap
    BY <2>1, <2>3, TierAssumption
  <2>5. UNCHANGED <<createVars, cancelled, replay, hub, inboxClosed, closer, engineVars,
                    deleteVars>>
    BY <1>18 DEF Publish
  <2>. QED  BY <2>2, <2>4, <2>5 DEF TierTypes
<1>19. ASSUME NEW d \in Deleter, DeleteGet(d) PROVE TierTypes'
  BY <1>19 DEF DeleteGet, TierTypes
<1>20. ASSUME NEW d \in Deleter, DeleteStop(d) PROVE TierTypes'
  BY <1>20 DEF DeleteStop, TierTypes
<1>21. ASSUME NEW d \in Deleter, DeleteRemove(d) PROVE TierTypes'
  BY <1>21 DEF DeleteRemove, TierTypes
<1>22. CASE UNCHANGED restVars
  BY <1>22 DEF TierTypes
<1>. QED
  BY <1>1, <1>2, <1>3, <1>4, <1>5, <1>6, <1>7, <1>8, <1>9, <1>10, <1>11, <1>12,
     <1>13, <1>14, <1>15, <1>16, <1>17, <1>18, <1>19, <1>20, <1>21, <1>22
  DEF TierNext, Post, Source, Engine, Delete, TierPump, SseGet, SseRespond, SseClient,
      TierDone, tierVars

LEMMA TierTyped == TierSafetySpec => [](TierTypes /\ IndInv)
<1>1. TierSafetySpec => []TierTypes
  BY InitTierTypes, NextTierTypes, PTL DEF TierSafetySpec
<1>2. TierSafetySpec => []IndInv
  BY TierRefinesFanout, FanoutInductive, PTL DEF RefinesFanout
<1>. QED  BY <1>1, <1>2, PTL

\* Every variable of the tier keeps its type, and its three channels their capacities.
THEOREM TierTypeCorrect == TierSafetySpec => []TierTypeOK
<1>1. TierTypes /\ IndInv => TierTypeOK
  BY DEF TierTypes, IndInv, TierTypeOK
<1>. QED  BY <1>1, TierTyped, PTL

-----------------------------------------------------------------------------
(* Identifiers                                                             *)

\* Every id given is at most nextID, and no two queries have the same.
IdInv ==
    /\ \A q \in Query : qid[q] <= nextID
    /\ IdsAreNotReused

LEMMA IdFrame ==
  [TierNext]_tierVars => UNCHANGED <<qid, nextID>> \/ \E q \in Query : PostRegister(q)
<1>. SUFFICES ASSUME [TierNext]_tierVars, \A q \in Query : ~PostRegister(q)
              PROVE  UNCHANGED <<qid, nextID>>
  OBVIOUS
<1>. USE DEF createVars, restVars
<1>1. ASSUME NEW q \in Query, Post(q) PROVE UNCHANGED <<qid, nextID>>
  BY <1>1 DEF Post, PostReject, PostLive, PostReplay, PostReplayFails, PostSubmit,
              PostSubmitFails, PostGo
<1>2. ASSUME NEW q \in Query, Source(q) \/ ReplayCancelled(q)
      PROVE  UNCHANGED <<qid, nextID>>
  BY <1>2 DEF Source, ReplayTick, ReplayToPump, CloserRuns, ReplayCancelled
<1>3. ASSUME NEW q \in Query, Engine(q) \/ EngineCancelled(q)
      PROVE  UNCHANGED <<qid, nextID>>
  BY <1>3 DEF Engine, EngineReceive, EngineEmit, EngineSourceEnds, EngineClose, EngineCancelled
<1>4. ASSUME NEW p \in Property, Publish(p) PROVE UNCHANGED <<qid, nextID>>
  BY <1>4 DEF Publish
<1>5. ASSUME NEW d \in Deleter, DeleteGet(d) \/ Delete(d) PROVE UNCHANGED <<qid, nextID>>
  BY <1>5 DEF DeleteGet, Delete, DeleteStop, DeleteRemove
<1>. QED
  BY <1>1, <1>2, <1>3, <1>4, <1>5
  DEF TierNext, TierPump, SseGet, SseRespond, SseClient, TierDone, tierVars

LEMMA NextIdInv == TierTypes /\ IdInv /\ [TierNext]_tierVars => IdInv'
<1>. SUFFICES ASSUME TierTypes, IdInv, [TierNext]_tierVars PROVE IdInv'
  OBVIOUS
<1>1. CASE UNCHANGED <<qid, nextID>>
  BY <1>1 DEF IdInv, IdsAreNotReused
<1>2. ASSUME NEW q \in Query, PostRegister(q) PROVE IdInv'
  <2>1. /\ nextID' = nextID + 1 /\ qid' = [qid EXCEPT ![q] = nextID + 1]
        /\ nextID \in Nat /\ qid \in [Query -> Nat]
    BY <1>2 DEF PostRegister, TierTypes
  <2>2. \A r \in Query : qid'[r] = IF r = q THEN nextID + 1 ELSE qid[r]
    BY <2>1
  <2>3. \A r \in Query : qid[r] \in Nat /\ qid[r] <= nextID /\ qid[r] # nextID + 1
    BY <2>1 DEF IdInv
  <2>4. \A r \in Query : qid'[r] <= nextID'
    BY <2>1, <2>2, <2>3
  <2>5. IdsAreNotReused'
    <3>1. IdsAreNotReused
      BY DEF IdInv
    <3>. QED  BY ONLY <2>2, <2>3, <3>1 DEF IdsAreNotReused
  <2>. QED  BY <2>4, <2>5 DEF IdInv
<1>. QED  BY <1>1, <1>2, IdFrame

\* Two queries never share an id, however many are created and deleted.
THEOREM TierIdsAreNotReused == TierSafetySpec => []IdsAreNotReused
<1>1. TierInit => IdInv
  BY DEF TierInit, IdInv, IdsAreNotReused
<1>2. IdInv => IdsAreNotReused
  BY DEF IdInv
<1>. QED  BY <1>1, <1>2, NextIdInv, TierTyped, PTL DEF TierSafetySpec

-----------------------------------------------------------------------------
(* The live hub, and the contexts nobody can cancel any more               *)

\* A live source is new, in the hub and awaited by its closer, or closed and out.
HubInvOf(q) ==
    /\ post[q] = "idle" => closer[q] = "none"
    /\ q \in hub => closer[q] = "waiting"
    /\ inboxClosed[q] => closer[q] = "done"

\* A query out of the registry has been in it and is cancelled, or never was in it.
OrphanInvOf(q) ==
    /\ post[q] = "refused" => cancelled[q]
    /\ qid[q] > 0 => q \in registry \/ cancelled[q]

StopInv == \A d \in Deleter : del[d] = "stopped" => cancelled[victim[d]]

LifeInv ==
    /\ \A q \in Query : HubInvOf(q) /\ OrphanInvOf(q)
    /\ StopInv

\* A step that leaves a query's own state alone.
LEMMA LifeFrame ==
  ASSUME NEW q \in Query, HubInvOf(q), OrphanInvOf(q),
         post'[q] = post[q] \/ post'[q] \notin {"idle", "refused"},
         closer'[q] = closer[q], q \in hub' => q \in hub, inboxClosed'[q] => inboxClosed[q],
         cancelled[q] => cancelled'[q], qid'[q] = qid[q], q \in registry => q \in registry'
  PROVE  HubInvOf(q)' /\ OrphanInvOf(q)'
BY DEF HubInvOf, OrphanInvOf

LEMMA NextLifeInv == TierTypes /\ LifeInv /\ [TierNext]_tierVars => LifeInv'
<1>. SUFFICES ASSUME TierTypes, LifeInv, [TierNext]_tierVars PROVE LifeInv'
  OBVIOUS
<1>. USE DEF createVars, sourceVars, engineVars, deleteVars, restVars
<1>0. \A q \in Query : HubInvOf(q) /\ OrphanInvOf(q)
  BY DEF LifeInv
<1>a. ASSUME UNCHANGED <<del, victim>>, \A q \in Query : cancelled[q] => cancelled'[q]
      PROVE  StopInv'
  BY <1>a DEF LifeInv, StopInv, TierTypes
<1>b. ASSUME UNCHANGED <<post, closer, hub, inboxClosed, cancelled, qid, registry, del, victim>>
      PROVE  LifeInv'
  BY <1>0, <1>a, <1>b, LifeFrame DEF LifeInv
<1>1. ASSUME NEW q \in Query,
             PostReject(q) \/ PostReplay(q) \/ PostSubmit(q) \/ PostGo(q)
      PROVE  LifeInv'
  <2>1. /\ UNCHANGED <<closer, hub, inboxClosed, cancelled, qid, registry, del, victim>>
        /\ \E s \in PostState \ {"idle", "refused"} : post' = [post EXCEPT ![q] = s]
    BY <1>1 DEF PostReject, PostReplay, PostSubmit, PostGo, PostState
  <2>2. ASSUME NEW r \in Query PROVE post'[r] = post[r] \/ post'[r] \notin {"idle", "refused"}
    BY <2>1 DEF TierTypes
  <2>3. ASSUME NEW r \in Query PROVE HubInvOf(r)' /\ OrphanInvOf(r)'
    BY <1>0, <2>1, <2>2, LifeFrame
  <2>. QED  BY <1>a, <2>1, <2>3 DEF LifeInv
<1>2. ASSUME NEW q \in Query, PostLive(q) PROVE LifeInv'
  <2>1. /\ UNCHANGED <<inboxClosed, cancelled, qid, registry, del, victim>>
        /\ post[q] = "idle" /\ post' = [post EXCEPT ![q] = "sourced"]
        /\ hub' = hub \cup {q} /\ closer' = [closer EXCEPT ![q] = "waiting"]
    BY <1>2 DEF PostLive
  <2>2. post'[q] = "sourced" /\ closer'[q] = "waiting" /\ ~inboxClosed[q]
    BY <1>0, <2>1 DEF TierTypes, HubInvOf
  <2>3. HubInvOf(q)' /\ OrphanInvOf(q)'
    BY <1>0, <2>1, <2>2 DEF HubInvOf, OrphanInvOf
  <2>4. ASSUME NEW r \in Query, r # q PROVE HubInvOf(r)' /\ OrphanInvOf(r)'
    <3>1. post'[r] = post[r] /\ closer'[r] = closer[r] /\ (r \in hub' => r \in hub)
      BY <2>1, <2>4 DEF TierTypes
    <3>. QED  BY <1>0, <2>1, <3>1, LifeFrame
  <2>. QED  BY <1>a, <2>1, <2>3, <2>4 DEF LifeInv
<1>3. ASSUME NEW q \in Query, PostReplayFails(q) \/ PostSubmitFails(q) PROVE LifeInv'
  <2>1. /\ UNCHANGED <<closer, hub, inboxClosed, qid, registry, del, victim>>
        /\ post' = [post EXCEPT ![q] = "refused"]
        /\ cancelled' = [cancelled EXCEPT ![q] = TRUE]
    BY <1>3 DEF PostReplayFails, PostSubmitFails
  <2>2. \A r \in Query : cancelled[r] => cancelled'[r]
    BY <2>1 DEF TierTypes
  <2>3. HubInvOf(q)' /\ OrphanInvOf(q)'
    <3>1. post'[q] = "refused" /\ cancelled'[q]
      BY <2>1 DEF TierTypes
    <3>. QED  BY <1>0, <2>1, <3>1 DEF HubInvOf, OrphanInvOf
  <2>4. ASSUME NEW r \in Query, r # q PROVE HubInvOf(r)' /\ OrphanInvOf(r)'
    <3>1. post'[r] = post[r]
      BY <2>1, <2>4 DEF TierTypes
    <3>. QED  BY <1>0, <2>1, <2>2, <3>1, LifeFrame
  <2>. QED  BY <1>a, <2>1, <2>2, <2>3, <2>4 DEF LifeInv
<1>4. ASSUME NEW q \in Query, PostRegister(q) PROVE LifeInv'
  <2>1. /\ UNCHANGED <<closer, hub, inboxClosed, cancelled, del, victim>>
        /\ post' = [post EXCEPT ![q] = "inserted"]
        /\ qid' = [qid EXCEPT ![q] = nextID + 1]
        /\ registry' = registry \cup {q}
    BY <1>4 DEF PostRegister
  <2>2. HubInvOf(q)' /\ OrphanInvOf(q)'
    <3>1. post'[q] = "inserted" /\ q \in registry'
      BY <2>1 DEF TierTypes
    <3>. QED  BY <1>0, <2>1, <3>1 DEF HubInvOf, OrphanInvOf
  <2>3. ASSUME NEW r \in Query, r # q PROVE HubInvOf(r)' /\ OrphanInvOf(r)'
    <3>1. post'[r] = post[r] /\ qid'[r] = qid[r] /\ (r \in registry => r \in registry')
      BY <2>1, <2>3 DEF TierTypes
    <3>. QED  BY <1>0, <2>1, <3>1, LifeFrame
  <2>. QED  BY <1>a, <2>1, <2>2, <2>3 DEF LifeInv
<1>5. ASSUME NEW q \in Query, CloserRuns(q) PROVE LifeInv'
  <2>1. /\ UNCHANGED <<post, cancelled, qid, registry, del, victim>>
        /\ closer[q] = "waiting" /\ closer' = [closer EXCEPT ![q] = "done"]
        /\ hub' = hub \ {q} /\ inboxClosed' = [inboxClosed EXCEPT ![q] = TRUE]
    BY <1>5 DEF CloserRuns
  <2>2. HubInvOf(q)' /\ OrphanInvOf(q)'
    <3>1. closer'[q] = "done" /\ q \notin hub' /\ post[q] # "idle"
      BY <1>0, <2>1 DEF TierTypes, HubInvOf
    <3>. QED  BY <1>0, <2>1, <3>1 DEF HubInvOf, OrphanInvOf
  <2>3. ASSUME NEW r \in Query, r # q PROVE HubInvOf(r)' /\ OrphanInvOf(r)'
    <3>1. closer'[r] = closer[r] /\ inboxClosed'[r] = inboxClosed[r] /\ (r \in hub' => r \in hub)
      BY <2>1, <2>3 DEF TierTypes
    <3>. QED  BY <1>0, <2>1, <3>1, LifeFrame
  <2>. QED  BY <1>a, <2>1, <2>2, <2>3 DEF LifeInv
<1>6. ASSUME NEW q \in Query,
             ReplayTick(q) \/ ReplayToPump(q) \/ ReplayCancelled(q) \/ Engine(q)
                 \/ EngineCancelled(q) \/ TierPump(q)
      PROVE  LifeInv'
  BY <1>6, <1>b DEF ReplayTick, ReplayToPump, ReplayCancelled, Engine, EngineReceive, EngineEmit,
              EngineSourceEnds, EngineClose, EngineCancelled, TierPump
<1>7. ASSUME NEW p \in Property, Publish(p) PROVE LifeInv'
  BY <1>7, <1>b DEF Publish
<1>8. ASSUME NEW d \in Deleter, DeleteGet(d) PROVE LifeInv'
  <2>1. /\ UNCHANGED <<post, closer, hub, inboxClosed, cancelled, qid, registry, victim>>
        /\ \E s \in {"got", "refused"} : del' = [del EXCEPT ![d] = s]
    BY <1>8 DEF DeleteGet
  <2>2. \A q \in Query : HubInvOf(q)' /\ OrphanInvOf(q)'
    BY <1>0, <2>1, LifeFrame
  <2>3. StopInv'
    BY <2>1 DEF LifeInv, StopInv, TierTypes
  <2>. QED  BY <2>2, <2>3 DEF LifeInv
<1>9. ASSUME NEW d \in Deleter, DeleteStop(d) PROVE LifeInv'
  <2>1. /\ UNCHANGED <<post, closer, hub, inboxClosed, qid, registry, victim>>
        /\ del' = [del EXCEPT ![d] = "stopped"]
        /\ cancelled' = [cancelled EXCEPT ![victim[d]] = TRUE]
    BY <1>9 DEF DeleteStop
  <2>2. \A q \in Query : cancelled[q] => cancelled'[q]
    BY <2>1 DEF TierTypes
  <2>3. \A q \in Query : HubInvOf(q)' /\ OrphanInvOf(q)'
    BY <1>0, <2>1, <2>2, LifeFrame
  <2>4. StopInv'
    <3>. SUFFICES ASSUME NEW e \in Deleter, del'[e] = "stopped" PROVE cancelled'[victim[e]]
      BY <2>1 DEF StopInv
    <3>1. CASE e = d
      BY <2>1, <3>1 DEF TierTypes
    <3>2. CASE e # d
      BY <2>1, <2>2, <3>2 DEF LifeInv, StopInv, TierTypes
    <3>. QED  BY <3>1, <3>2
  <2>. QED  BY <2>3, <2>4 DEF LifeInv
<1>10. ASSUME NEW d \in Deleter, DeleteRemove(d) PROVE LifeInv'
  <2>1. /\ UNCHANGED <<post, closer, hub, inboxClosed, cancelled, qid, victim>>
        /\ del[d] = "stopped" /\ del' = [del EXCEPT ![d] = "gone"]
        /\ registry' = registry \ {victim[d]}
    BY <1>10 DEF DeleteRemove
  <2>2. cancelled[victim[d]]
    BY <2>1 DEF LifeInv, StopInv
  <2>3. ASSUME NEW q \in Query PROVE HubInvOf(q)' /\ OrphanInvOf(q)'
    <3>1. CASE q = victim[d]
      BY <1>0, <2>1, <2>2, <3>1 DEF HubInvOf, OrphanInvOf
    <3>2. CASE q # victim[d]
      <4>1. q \in registry => q \in registry'
        BY <2>1, <3>2
      <4>. QED  BY <1>0, <2>1, <4>1, LifeFrame
    <3>. QED  BY <3>1, <3>2
  <2>4. StopInv'
    BY <2>1 DEF LifeInv, StopInv, TierTypes
  <2>. QED  BY <2>3, <2>4 DEF LifeInv
<1>11. CASE UNCHANGED restVars
  BY <1>11, <1>b
<1>. QED
  BY <1>1, <1>2, <1>3, <1>4, <1>5, <1>6, <1>7, <1>8, <1>9, <1>10, <1>11
  DEF TierNext, Post, Source, Delete, SseGet, SseRespond, SseClient, TierDone, tierVars

LEMMA TierLives == TierSafetySpec => []LifeInv
<1>1. TierInit => LifeInv
  BY DEF TierInit, LifeInv, HubInvOf, OrphanInvOf, StopInv
<1>. QED  BY <1>1, NextLifeInv, TierTyped, PTL DEF TierSafetySpec

\* No publisher sends on a closed inbox, whatever the order of its steps and the closer's.
THEOREM TierHubSendsOnOpen == TierSafetySpec => []HubSendsOnOpen
<1>1. TierTypes /\ LifeInv => HubSendsOnOpen
  BY DEF TierTypes, LifeInv, HubInvOf, HubSendsOnOpen
<1>. QED  BY <1>1, TierTyped, TierLives, PTL

\* A query that no request can reach is cancelled: none of its goroutines is left for ever.
THEOREM TierNoOrphan == TierSafetySpec => []NoOrphan
<1>1. LifeInv => NoOrphan
  BY DEF LifeInv, OrphanInvOf, NoOrphan
<1>. QED  BY <1>1, TierLives, PTL

-----------------------------------------------------------------------------
(* Why a query ends                                                        *)

\* A query with a worker; before, and without one, eng is "none".
Engaged == {"submitted", "inserted", "created"}

\* A source ends by its context only, a worker by its context, its source or an error, and
\* cq.events by its worker, or by its source when it has none.
EndInvOf(q) ==
    /\ inboxClosed[q] => cancelled[q]
    /\ replay[q] = "done" => cancelled[q]
    /\ engStatus[q] = "stopped" => cancelled[q]
    /\ eng[q] \in {"closing", "done"} => engStatus[q] # "running"
    /\ ended[q] => (kind[q] = "geometry" /\ cancelled[q]) \/ eng[q] = "done"
    /\ post[q] \notin Engaged => eng[q] = "none"

EndInv == \A q \in Query : EndInvOf(q)

\* A step that leaves a query's source, worker and stream alone, or cancels it.
LEMMA EndFrame ==
  ASSUME NEW q \in Query, EndInvOf(q),
         inboxClosed'[q] => inboxClosed[q], replay'[q] = "done" => replay[q] = "done",
         engStatus'[q] = engStatus[q], eng'[q] = eng[q], ended'[q] => ended[q],
         kind'[q] = kind[q], cancelled[q] => cancelled'[q],
         post'[q] \notin Engaged => post[q] \notin Engaged
  PROVE  EndInvOf(q)'
BY DEF EndInvOf

LEMMA NextEndInv == TierTypes /\ IndInv /\ EndInv /\ [TierNext]_tierVars => EndInv'
<1>. SUFFICES ASSUME TierTypes, IndInv, EndInv, [TierNext]_tierVars PROVE EndInv'
  OBVIOUS
<1>. USE DEF createVars, sourceVars, engineVars, deleteVars, restVars
<1>0. /\ \A q \in Query : EndInvOf(q)
      /\ ended \in [Query -> BOOLEAN]
  BY DEF EndInv, IndInv, FanoutTypeOK
<1>a. ASSUME UNCHANGED <<kind, post, replay, inboxClosed, eng, engStatus, ended>>,
             \A q \in Query : cancelled[q] => cancelled'[q]
      PROVE  EndInv'
  BY <1>0, <1>a, EndFrame DEF EndInv
<1>b. ASSUME NEW q \in Query,
             UNCHANGED <<kind, inboxClosed, eng, engStatus, ended>>,
             \A r \in Query : cancelled[r] => cancelled'[r],
             \A r \in Query : replay'[r] = "done" => replay[r] = "done",
             \A r \in Query : post'[r] \notin Engaged => post[r] \notin Engaged
      PROVE  EndInv'
  BY <1>0, <1>b, EndFrame DEF EndInv
<1>1. ASSUME NEW q \in Query,
             PostReject(q) \/ PostLive(q) \/ PostReplay(q) \/ PostReplayFails(q)
                 \/ PostSubmitFails(q)
      PROVE  EndInv'
  <2>1. /\ UNCHANGED <<kind, inboxClosed, eng, engStatus, ended>>
        /\ post[q] \in {"idle", "sourced"}
        /\ cancelled' = cancelled \/ cancelled' = [cancelled EXCEPT ![q] = TRUE]
        /\ replay' = replay \/ replay' = [replay EXCEPT ![q] = "wait"]
        /\ \E s \in PostState \ Engaged : post' = [post EXCEPT ![q] = s]
    BY <1>1 DEF PostReject, PostLive, PostReplay, PostReplayFails, PostSubmitFails, PostState,
                Engaged, fanoutVars, queryVars
  <2>2. \A r \in Query : cancelled[r] => cancelled'[r]
    BY <2>1 DEF TierTypes
  <2>3. \A r \in Query : replay'[r] = "done" => replay[r] = "done"
    BY <2>1 DEF TierTypes
  <2>4. \A r \in Query : post'[r] \notin Engaged => post[r] \notin Engaged
    BY <2>1 DEF TierTypes, Engaged
  <2>. QED  BY <1>b, <2>1, <2>2, <2>3, <2>4
<1>2. ASSUME NEW q \in Query, PostRegister(q) \/ PostGo(q) PROVE EndInv'
  <2>1. /\ UNCHANGED <<kind, inboxClosed, eng, engStatus, ended, cancelled, replay>>
        /\ \E s \in Engaged : post' = [post EXCEPT ![q] = s]
    BY <1>2 DEF PostRegister, PostGo, PumpStart, Engaged, fanoutVars, queryVars
  <2>2. \A r \in Query : post'[r] \notin Engaged => post[r] \notin Engaged
    BY <2>1 DEF TierTypes
  <2>. QED  BY <1>b, <2>1, <2>2
<1>3. ASSUME NEW q \in Query, PostSubmit(q) PROVE EndInv'
  <2>1. /\ UNCHANGED <<kind, inboxClosed, engStatus, ended, cancelled, replay>>
        /\ post[q] = "sourced" /\ post' = [post EXCEPT ![q] = "submitted"]
        /\ eng' = [eng EXCEPT ![q] = "select"]
    BY <1>3 DEF PostSubmit, fanoutVars, queryVars
  <2>2. EndInvOf(q)'
    <3>1. post'[q] = "submitted" /\ eng'[q] = "select" /\ eng[q] = "none"
      BY <1>0, <2>1 DEF TierTypes, EndInvOf, Engaged
    <3>. QED  BY <1>0, <2>1, <3>1 DEF EndInvOf, Engaged
  <2>3. ASSUME NEW r \in Query, r # q PROVE EndInvOf(r)'
    <3>1. post'[r] = post[r] /\ eng'[r] = eng[r]
      BY <2>1, <2>3 DEF TierTypes
    <3>. QED  BY <1>0, <2>1, <3>1, EndFrame
  <2>. QED  BY <2>2, <2>3 DEF EndInv
<1>4. ASSUME NEW q \in Query, ReplayTick(q) \/ ReplayToPump(q) PROVE EndInv'
  <2>1. /\ UNCHANGED <<kind, post, inboxClosed, eng, engStatus, ended, cancelled>>
        /\ \E s \in {"wait", "offer"} : replay' = [replay EXCEPT ![q] = s]
    BY <1>4 DEF ReplayTick, ReplayToPump, Handover, fanoutVars, queryVars
  <2>2. \A r \in Query : replay'[r] = "done" => replay[r] = "done"
    BY <2>1 DEF TierTypes
  <2>. QED  BY <1>b, <2>1, <2>2
<1>5. ASSUME NEW q \in Query, ReplayCancelled(q) PROVE EndInv'
  <2>1. /\ UNCHANGED <<kind, post, inboxClosed, eng, engStatus, cancelled>>
        /\ cancelled[q]
        /\ replay' = [replay EXCEPT ![q] = "done"]
        /\ \/ kind[q] = "geometry" /\ ended' = [ended EXCEPT ![q] = TRUE]
           \/ ended' = ended
    BY <1>5 DEF ReplayCancelled, End, fanoutVars, queryVars
  <2>2. EndInvOf(q)'
    BY <1>0, <2>1 DEF EndInvOf
  <2>3. ASSUME NEW r \in Query, r # q PROVE EndInvOf(r)'
    <3>1. replay'[r] = replay[r] /\ ended'[r] = ended[r]
      BY <1>0, <2>1, <2>3 DEF TierTypes
    <3>. QED  BY <1>0, <2>1, <3>1, EndFrame
  <2>. QED  BY <2>2, <2>3 DEF EndInv
<1>6. ASSUME NEW q \in Query, CloserRuns(q) PROVE EndInv'
  <2>1. /\ UNCHANGED <<kind, post, replay, eng, engStatus, ended, cancelled>>
        /\ cancelled[q]
        /\ inboxClosed' = [inboxClosed EXCEPT ![q] = TRUE]
    BY <1>6 DEF CloserRuns, fanoutVars, queryVars
  <2>2. EndInvOf(q)'
    BY <1>0, <2>1 DEF EndInvOf
  <2>3. ASSUME NEW r \in Query, r # q PROVE EndInvOf(r)'
    <3>1. inboxClosed'[r] = inboxClosed[r]
      BY <2>1, <2>3 DEF TierTypes
    <3>. QED  BY <1>0, <2>1, <3>1, EndFrame
  <2>. QED  BY <2>2, <2>3 DEF EndInv
<1>7. ASSUME NEW q \in Query, EngineReceive(q) PROVE EndInv'
  <2>1. /\ UNCHANGED <<kind, post, inboxClosed, ended, cancelled>>
        /\ eng[q] = "select"
        /\ replay' = replay \/ replay' = [replay EXCEPT ![q] = "wait"]
        /\ \/ eng' = [eng EXCEPT ![q] = "emit"] /\ engStatus' = engStatus
           \/ eng' = eng /\ engStatus' = engStatus
           \/ /\ eng' = [eng EXCEPT ![q] = "closing"]
              /\ engStatus' = [engStatus EXCEPT ![q] = "failed"]
    BY <1>7 DEF EngineReceive, TakeRecord, fanoutVars, queryVars
  <2>2. \A r \in Query : replay'[r] = "done" => replay[r] = "done"
    BY <2>1 DEF TierTypes
  <2>3. EndInvOf(q)'
    <3>1. post[q] \in Engaged
      BY <1>0, <2>1 DEF EndInvOf
    <3>2. \/ eng'[q] \in {"emit", "select"} /\ engStatus'[q] = engStatus[q]
          \/ eng'[q] = "closing" /\ engStatus'[q] = "failed"
      BY <2>1 DEF TierTypes
    <3>. QED  BY <1>0, <2>1, <2>2, <3>1, <3>2 DEF EndInvOf
  <2>4. ASSUME NEW r \in Query, r # q PROVE EndInvOf(r)'
    <3>1. eng'[r] = eng[r] /\ engStatus'[r] = engStatus[r]
      BY <2>1, <2>4 DEF TierTypes
    <3>. QED  BY <1>0, <2>1, <2>2, <3>1, EndFrame
  <2>. QED  BY <2>3, <2>4 DEF EndInv
<1>8. ASSUME NEW q \in Query, EngineEmit(q) PROVE EndInv'
  <2>1. /\ UNCHANGED <<kind, post, replay, inboxClosed, ended, cancelled>>
        /\ eng[q] = "emit"
        /\ \/ eng' = [eng EXCEPT ![q] = "select"] /\ engStatus' = engStatus
           \/ eng' = eng /\ engStatus' = engStatus
           \/ /\ eng' = [eng EXCEPT ![q] = "closing"]
              /\ engStatus' = [engStatus EXCEPT ![q] = "failed"]
    BY <1>8 DEF EngineEmit, Emit
  <2>2. EndInvOf(q)'
    <3>1. post[q] \in Engaged
      BY <1>0, <2>1 DEF EndInvOf
    <3>2. \/ eng'[q] \in {"emit", "select"} /\ engStatus'[q] = engStatus[q]
          \/ eng'[q] = "closing" /\ engStatus'[q] = "failed"
      BY <2>1 DEF TierTypes
    <3>. QED  BY <1>0, <2>1, <3>1, <3>2 DEF EndInvOf
  <2>3. ASSUME NEW r \in Query, r # q PROVE EndInvOf(r)'
    <3>1. eng'[r] = eng[r] /\ engStatus'[r] = engStatus[r]
      BY <2>1, <2>3 DEF TierTypes
    <3>. QED  BY <1>0, <2>1, <3>1, EndFrame
  <2>. QED  BY <2>2, <2>3 DEF EndInv
<1>9. ASSUME NEW q \in Query, EngineSourceEnds(q) \/ EngineCancelled(q) PROVE EndInv'
  <2>1. /\ UNCHANGED <<kind, post, replay, inboxClosed, ended, cancelled>>
        /\ eng[q] \in {"select", "emit"}
        /\ inboxClosed[q] \/ replay[q] = "done" \/ cancelled[q]
        /\ eng' = [eng EXCEPT ![q] = "closing"]
        /\ engStatus' = [engStatus EXCEPT ![q] = "stopped"]
    BY <1>9 DEF EngineSourceEnds, EngineCancelled, fanoutVars, queryVars
  <2>2. EndInvOf(q)'
    <3>1. post[q] \in Engaged /\ cancelled[q]
      BY <1>0, <2>1 DEF EndInvOf
    <3>2. eng'[q] = "closing" /\ engStatus'[q] = "stopped"
      BY <2>1 DEF TierTypes
    <3>. QED  BY <1>0, <2>1, <3>1, <3>2 DEF EndInvOf
  <2>3. ASSUME NEW r \in Query, r # q PROVE EndInvOf(r)'
    <3>1. eng'[r] = eng[r] /\ engStatus'[r] = engStatus[r]
      BY <2>1, <2>3 DEF TierTypes
    <3>. QED  BY <1>0, <2>1, <3>1, EndFrame
  <2>. QED  BY <2>2, <2>3 DEF EndInv
<1>10. ASSUME NEW q \in Query, EngineClose(q) PROVE EndInv'
  <2>1. /\ UNCHANGED <<kind, post, replay, inboxClosed, engStatus, cancelled>>
        /\ eng[q] = "closing"
        /\ eng' = [eng EXCEPT ![q] = "done"]
        /\ ended' = [ended EXCEPT ![q] = TRUE]
    BY <1>10 DEF EngineClose, End
  <2>2. EndInvOf(q)'
    <3>1. post[q] \in Engaged /\ eng'[q] = "done"
      BY <1>0, <2>1 DEF EndInvOf, TierTypes
    <3>. QED  BY <1>0, <2>1, <3>1 DEF EndInvOf
  <2>3. ASSUME NEW r \in Query, r # q PROVE EndInvOf(r)'
    <3>1. eng'[r] = eng[r] /\ ended'[r] = ended[r]
      BY <1>0, <2>1, <2>3 DEF TierTypes
    <3>. QED  BY <1>0, <2>1, <3>1, EndFrame
  <2>. QED  BY <2>2, <2>3 DEF EndInv
<1>11. ASSUME NEW p \in Property, Publish(p) PROVE EndInv'
  BY <1>11, <1>a DEF Publish, fanoutVars, queryVars
<1>12. ASSUME NEW d \in Deleter, DeleteGet(d) \/ Delete(d) PROVE EndInv'
  <2>1. /\ UNCHANGED <<kind, post, replay, inboxClosed, eng, engStatus, ended>>
        /\ cancelled' = cancelled \/ cancelled' = [cancelled EXCEPT ![victim[d]] = TRUE]
    BY <1>12 DEF DeleteGet, Delete, DeleteStop, DeleteRemove, fanoutVars, queryVars
  <2>2. \A q \in Query : cancelled[q] => cancelled'[q]
    BY <2>1 DEF TierTypes
  <2>. QED  BY <1>a, <2>1, <2>2
<1>13. ASSUME UNCHANGED restVars, UNCHANGED ended PROVE EndInv'
  BY <1>13, <1>a
<1>14. ASSUME NEW q \in Query, TierPump(q) PROVE EndInv'
  <2>1. UNCHANGED ended
    BY <1>14 DEF TierPump, Pump, PumpReceive, PumpFan, PumpSeesEnd, PumpClose
  <2>. QED  BY <1>13, <1>14, <2>1 DEF TierPump
<1>15. ASSUME NEW h \in Handler, SseGet(h) \/ SseRespond(h) \/ SseClient(h) PROVE EndInv'
  <2>1. UNCHANGED ended
    BY <1>15 DEF SseGet, SseRespond, SseClient, Open, Refuse, Respond, Subscribe, Receive,
                 SeeClosed, Unsubscribe, Client, KeepAlive, Written, Disconnect, queryVars
  <2>. QED  BY <1>13, <1>15, <2>1 DEF SseGet, SseRespond, SseClient
<1>16. CASE UNCHANGED tierVars
  BY <1>13, <1>16 DEF tierVars, fanoutVars, queryVars
<1>. QED
  BY <1>1, <1>2, <1>3, <1>4, <1>5, <1>6, <1>7, <1>8, <1>9, <1>10, <1>11, <1>12, <1>14, <1>15,
     <1>16
  DEF TierNext, Post, Source, Engine, TierDone

\* A query's stream ends because it was deleted or because its engine failed, never because
\* a source ran out or another request ended.
THEOREM TierStopsForAReason == TierSafetySpec => []StopsForAReason
<1>1. TierInit => EndInv
  <2>. SUFFICES ASSUME TierInit, NEW q \in Query PROVE EndInvOf(q)
    BY DEF EndInv
  <2>1. /\ replay[q] = "none" /\ eng[q] = "none" /\ engStatus[q] = "running"
        /\ ~inboxClosed[q] /\ ~ended[q]
    BY DEF TierInit, FanoutInit
  <2>. QED  BY <2>1 DEF EndInvOf
<1>2. TierTypes /\ IndInv /\ EndInv => StopsForAReason
  <2>. SUFFICES ASSUME TierTypes, IndInv, EndInv, NEW q \in Query, stopped[q]
                PROVE  cancelled[q] \/ engStatus[q] = "failed"
    BY DEF StopsForAReason
  <2>1. ended[q]
    BY DEF IndInv, PumpInv, PumpInvOf, PumpEnds
  <2>2. EndInvOf(q) /\ engStatus[q] \in {"running", "stopped", "failed"}
    BY DEF EndInv, TierTypes
  <2>. QED  BY <2>1, <2>2 DEF EndInvOf
<1>. QED  BY <1>1, <1>2, NextEndInv, TierTyped, PTL DEF TierSafetySpec

=============================================================================
