----------------------------- MODULE StreamTier -----------------------------
(***************************************************************************)
(* The streaming tier: the registry of continuous queries, the handlers    *)
(* that create, delete and read them, the two kinds of source a query      *)
(* consumes (a replay goroutine or the live hub), the in-process engine's  *)
(* worker, and the fan-out of module Fanout (src/stream.go, stream_live.go,*)
(* stream_geometry.go, and the worker of stream_engine_meos.go).           *)
(*                                                                         *)
(* A value of Query is the body of one POST and the contQuery, context,    *)
(* source and handle made for it.  A record carries no data here: what an  *)
(* engine makes of it (an event, nothing yet, an error) is its choice.     *)
(***************************************************************************)
EXTENDS Fanout, FiniteSets

CONSTANTS
    Property,   \* the (collection, feature, property) keys of the live hub
    Deleter,    \* the DELETE requests
    InboxCap    \* the capacity of a live query's source channel (64)

ASSUME TierAssumption == InboxCap \in Nat \ {0}

VARIABLES
    kind,       \* what the POST asks for: "live", "replay" or "geometry"
    target,     \* the property it is posted on
    post,       \* control of postQuery / postGeometryQuery
    cancelled,  \* the query's context is cancelled
    replay,     \* the replay goroutine of replaySource / geometryEvents
    hub,        \* live.subs: the queries whose inbox publish sends to
    inbox,      \* the number of records buffered in a live source channel
    inboxClosed,
    closer,     \* the goroutine of liveHub.subscribe that waits for ctx.Done()
    eng,        \* the worker, meosHandle.run
    engStatus,  \* meosHandle.status
    registry,   \* streamReg.queries
    nextID,     \* streamReg.nextID
    qid,        \* contQuery.id (0: not registered yet)
    del,        \* control of deleteQuery
    victim      \* the query a DELETE names

createVars == <<kind, target, post, registry, nextID, qid>>
sourceVars == <<cancelled, replay, hub, inbox, inboxClosed, closer>>
engineVars == <<eng, engStatus>>
deleteVars == <<del, victim>>
tierVars   == <<fanoutVars, createVars, sourceVars, engineVars, deleteVars>>

Kind == {"live", "replay", "geometry"}
PostState == {"idle", "rejected", "sourced", "submitted", "inserted", "created", "refused"}

TierInit ==
    /\ FanoutInit
    /\ kind \in [Query -> Kind]
    /\ target \in [Query -> Property]
    /\ post = [q \in Query |-> "idle"]
    /\ cancelled = [q \in Query |-> FALSE]
    /\ replay = [q \in Query |-> "none"]
    /\ hub = {}
    /\ inbox = [q \in Query |-> 0]
    /\ inboxClosed = [q \in Query |-> FALSE]
    /\ closer = [q \in Query |-> "none"]
    /\ eng = [q \in Query |-> "none"]
    /\ engStatus = [q \in Query |-> "running"]
    /\ registry = {}
    /\ nextID = 0
    /\ qid = [q \in Query |-> 0]
    /\ del = [d \in Deleter |-> "idle"]
    /\ victim \in [Deleter -> Query]

-----------------------------------------------------------------------------
(* postQuery and postGeometryQuery, from the first state change on         *)

\* Unknown collection, feature, property, operation, window or engine: 4xx or 501.
PostReject(q) ==
    /\ post[q] = "idle"
    /\ post' = [post EXCEPT ![q] = "rejected"]
    /\ UNCHANGED <<fanoutVars, kind, target, registry, nextID, qid,
                   sourceVars, engineVars, deleteVars>>

\* liveHub.subscribe: the inbox joins the hub, the closer waits for the context.
PostLive(q) ==
    /\ post[q] = "idle"
    /\ kind[q] = "live"
    /\ post' = [post EXCEPT ![q] = "sourced"]
    /\ hub' = hub \cup {q}
    /\ closer' = [closer EXCEPT ![q] = "waiting"]
    /\ UNCHANGED <<fanoutVars, kind, target, registry, nextID, qid,
                   cancelled, replay, inbox, inboxClosed, engineVars, deleteVars>>

\* replaySource or geometryEvents loads the stored instants and starts its goroutine ...
PostReplay(q) ==
    /\ post[q] = "idle"
    /\ kind[q] # "live"
    /\ post' = [post EXCEPT ![q] = "sourced"]
    /\ replay' = [replay EXCEPT ![q] = "wait"]
    /\ UNCHANGED <<fanoutVars, kind, target, registry, nextID, qid,
                   cancelled, hub, inbox, inboxClosed, closer, engineVars, deleteVars>>

\* ... or finds none: qcancel(), 400.
PostReplayFails(q) ==
    /\ post[q] = "idle"
    /\ kind[q] # "live"
    /\ post' = [post EXCEPT ![q] = "refused"]
    /\ cancelled' = [cancelled EXCEPT ![q] = TRUE]
    /\ UNCHANGED <<fanoutVars, kind, target, registry, nextID, qid,
                   replay, hub, inbox, inboxClosed, closer, engineVars, deleteVars>>

\* streamRegistry.submit: the engine starts its worker ...
PostSubmit(q) ==
    /\ post[q] = "sourced"
    /\ kind[q] # "geometry"
    /\ post' = [post EXCEPT ![q] = "submitted"]
    /\ eng' = [eng EXCEPT ![q] = "select"]
    /\ UNCHANGED <<fanoutVars, kind, target, registry, nextID, qid,
                   sourceVars, engStatus, deleteVars>>

\* Mutant: submit returns the error and leaves the context alone.
PostSubmitFailsLeaking(q) ==
    /\ post[q] = "sourced"
    /\ kind[q] # "geometry"
    /\ post' = [post EXCEPT ![q] = "refused"]
    /\ UNCHANGED <<fanoutVars, kind, target, registry, nextID, qid,
                   sourceVars, engineVars, deleteVars>>

\* ... or refuses the query: cancel(), 500.
PostSubmitFails(q) ==
    /\ post[q] = "sourced"
    /\ kind[q] # "geometry"
    /\ post' = [post EXCEPT ![q] = "refused"]
    /\ cancelled' = [cancelled EXCEPT ![q] = TRUE]
    /\ UNCHANGED <<fanoutVars, kind, target, registry, nextID, qid,
                   replay, hub, inbox, inboxClosed, closer, engineVars, deleteVars>>

\* streamRegistry.register, under its lock.
PostRegister(q) ==
    /\ post[q] = IF kind[q] = "geometry" THEN "sourced" ELSE "submitted"
    /\ post' = [post EXCEPT ![q] = "inserted"]
    /\ nextID' = nextID + 1
    /\ qid' = [qid EXCEPT ![q] = nextID + 1]
    /\ registry' = registry \cup {q}
    /\ UNCHANGED <<fanoutVars, kind, target, sourceVars, engineVars, deleteVars>>

\* Out of the lock: go cq.pump(), and 201.
PostGo(q) ==
    /\ post[q] = "inserted"
    /\ PumpStart(q)
    /\ post' = [post EXCEPT ![q] = "created"]
    /\ UNCHANGED <<kind, target, registry, nextID, qid, sourceVars, engineVars, deleteVars>>

Post(q) ==
    \/ PostReject(q) \/ PostLive(q) \/ PostReplay(q) \/ PostReplayFails(q)
    \/ PostSubmit(q) \/ PostSubmitFails(q) \/ PostRegister(q) \/ PostGo(q)

-----------------------------------------------------------------------------
(* The sources.  The replay goroutine loops over the stored instants, so   *)
(* it never runs out: it ends only by its context.                         *)

\* Mutant: the goroutine returns after the last stored instant.
ReplayTickOnce(q) ==
    /\ replay[q] = "wait"
    /\ \/ /\ replay' = [replay EXCEPT ![q] = "offer"]
          /\ UNCHANGED fanoutVars
       \/ /\ replay' = [replay EXCEPT ![q] = "done"]
          /\ IF kind[q] = "geometry" THEN End(q) ELSE UNCHANGED fanoutVars
    /\ UNCHANGED <<createVars, cancelled, hub, inbox, inboxClosed, closer,
                   engineVars, deleteVars>>

\* The ticker fires, cancelled or not: the outer select may pick either.
ReplayTick(q) ==
    /\ replay[q] = "wait"
    /\ replay' = [replay EXCEPT ![q] = "offer"]
    /\ UNCHANGED <<fanoutVars, createVars, cancelled, hub, inbox, inboxClosed, closer,
                   engineVars, deleteVars>>

\* Mutant: the send to the consumer does not watch the context.
ReplayCancelledWaiting(q) ==
    /\ replay[q] = "wait"
    /\ cancelled[q]
    /\ replay' = [replay EXCEPT ![q] = "done"]
    /\ IF kind[q] = "geometry" THEN End(q) ELSE UNCHANGED fanoutVars
    /\ UNCHANGED <<createVars, cancelled, hub, inbox, inboxClosed, closer,
                   engineVars, deleteVars>>

\* ctx.Done() in either select: return, close(out).  A geometry query's out is cq.events.
ReplayCancelled(q) ==
    /\ replay[q] \in {"wait", "offer"}
    /\ cancelled[q]
    /\ replay' = [replay EXCEPT ![q] = "done"]
    /\ IF kind[q] = "geometry" THEN End(q) ELSE UNCHANGED fanoutVars
    /\ UNCHANGED <<createVars, cancelled, hub, inbox, inboxClosed, closer,
                   engineVars, deleteVars>>

\* A geometry query has no engine: its pump receives from the goroutine itself.
ReplayToPump(q) ==
    /\ kind[q] = "geometry"
    /\ replay[q] = "offer"
    /\ Handover(q)
    /\ replay' = [replay EXCEPT ![q] = "wait"]
    /\ UNCHANGED <<createVars, cancelled, hub, inbox, inboxClosed, closer,
                   engineVars, deleteVars>>

\* Mutant: one record more than the channel holds.
PublishOverfull(p) ==
    /\ inbox' = [q \in Query |->
                    IF q \in hub /\ target[q] = p /\ inbox[q] <= InboxCap
                    THEN inbox[q] + 1 ELSE inbox[q]]
    /\ UNCHANGED <<fanoutVars, createVars, cancelled, replay, hub, inboxClosed, closer,
                   engineVars, deleteVars>>

\* liveHub.publish, under its lock, for a pushed record or an MQTT message.
Publish(p) ==
    /\ inbox' = [q \in Query |->
                    IF q \in hub /\ target[q] = p /\ inbox[q] < InboxCap
                    THEN inbox[q] + 1 ELSE inbox[q]]
    /\ UNCHANGED <<fanoutVars, createVars, cancelled, replay, hub, inboxClosed, closer,
                   engineVars, deleteVars>>

\* Mutant: the closer closes the inbox and leaves it in the hub.
CloserForgets(q) ==
    /\ closer[q] = "waiting"
    /\ cancelled[q]
    /\ closer' = [closer EXCEPT ![q] = "done"]
    /\ inboxClosed' = [inboxClosed EXCEPT ![q] = TRUE]
    /\ UNCHANGED <<fanoutVars, createVars, cancelled, replay, hub, inbox, engineVars, deleteVars>>

\* The goroutine of liveHub.subscribe, once the context is done, under the hub's lock.
CloserRuns(q) ==
    /\ closer[q] = "waiting"
    /\ cancelled[q]
    /\ closer' = [closer EXCEPT ![q] = "done"]
    /\ hub' = hub \ {q}
    /\ inboxClosed' = [inboxClosed EXCEPT ![q] = TRUE]
    /\ UNCHANGED <<fanoutVars, createVars, cancelled, replay, inbox, engineVars, deleteVars>>

Source(q) == ReplayTick(q) \/ ReplayToPump(q) \/ CloserRuns(q)

-----------------------------------------------------------------------------
(* The worker: select over ctx.Done() and the source, an event or more of  *)
(* what it received, its status, and the close of its results.             *)

TakeRecord(q) ==
    \/ /\ kind[q] = "live"
       /\ inbox[q] > 0
       /\ inbox' = [inbox EXCEPT ![q] = @ - 1]
       /\ UNCHANGED replay
    \/ /\ kind[q] = "replay"
       /\ replay[q] = "offer"
       /\ replay' = [replay EXCEPT ![q] = "wait"]
       /\ UNCHANGED inbox

\* A record: an event to emit, or a window that is still open, or an error.
EngineReceive(q) ==
    /\ eng[q] = "select"
    /\ TakeRecord(q)
    /\ \/ last[q] < MaxEvent /\ eng' = [eng EXCEPT ![q] = "emit"] /\ UNCHANGED engStatus
       \/ UNCHANGED engineVars
       \/ /\ eng' = [eng EXCEPT ![q] = "closing"]
          /\ engStatus' = [engStatus EXCEPT ![q] = "failed"]
    /\ UNCHANGED <<fanoutVars, createVars, cancelled, hub, inboxClosed, closer, deleteVars>>

\* emit: the send succeeds; a hopping query may have another window to emit, and may
\* fail to aggregate it.
EngineEmit(q) ==
    /\ eng[q] = "emit"
    /\ Emit(q)
    /\ \/ eng' = [eng EXCEPT ![q] = "select"] /\ UNCHANGED engStatus
       \/ last[q] + 1 < MaxEvent /\ UNCHANGED engineVars
       \/ /\ eng' = [eng EXCEPT ![q] = "closing"]
          /\ engStatus' = [engStatus EXCEPT ![q] = "failed"]
    /\ UNCHANGED <<createVars, sourceVars, deleteVars>>

\* The source channel is closed and drained.
EngineSourceEnds(q) ==
    /\ eng[q] = "select"
    /\ \/ kind[q] = "live" /\ inbox[q] = 0 /\ inboxClosed[q]
       \/ kind[q] = "replay" /\ replay[q] = "done"
    /\ eng' = [eng EXCEPT ![q] = "closing"]
    /\ engStatus' = [engStatus EXCEPT ![q] = "stopped"]
    /\ UNCHANGED <<fanoutVars, createVars, sourceVars, deleteVars>>

\* ctx.Done(), in the worker's select or in emit's.
EngineCancelled(q) ==
    /\ eng[q] \in {"select", "emit"}
    /\ cancelled[q]
    /\ eng' = [eng EXCEPT ![q] = "closing"]
    /\ engStatus' = [engStatus EXCEPT ![q] = "stopped"]
    /\ UNCHANGED <<fanoutVars, createVars, sourceVars, deleteVars>>

\* Mutant: the worker drops the results nobody has received yet.
EngineCloseDropping(q) ==
    /\ eng[q] = "closing"
    /\ ~ended[q]
    /\ ended' = [ended EXCEPT ![q] = TRUE]
    /\ events' = [events EXCEPT ![q] = <<>>]
    /\ eng' = [eng EXCEPT ![q] = "done"]
    /\ UNCHANGED <<last, pump, held, fanned, subs, stopped, handlerVars,
                   createVars, sourceVars, engStatus, deleteVars>>

\* Mutant: the worker returns and its results stay open.
EngineCloseMissing(q) ==
    /\ eng[q] = "closing"
    /\ eng' = [eng EXCEPT ![q] = "done"]
    /\ UNCHANGED <<fanoutVars, createVars, sourceVars, engStatus, deleteVars>>

\* The deferred close(h.results).
EngineClose(q) ==
    /\ eng[q] = "closing"
    /\ End(q)
    /\ eng' = [eng EXCEPT ![q] = "done"]
    /\ UNCHANGED <<createVars, sourceVars, engStatus, deleteVars>>

Engine(q) == EngineReceive(q) \/ EngineEmit(q) \/ EngineSourceEnds(q) \/ EngineClose(q)

-----------------------------------------------------------------------------
(* deleteQuery: get, stop, remove                                          *)

DeleteGet(d) ==
    /\ del[d] = "idle"
    /\ del' = [del EXCEPT ![d] = IF victim[d] \in registry THEN "got" ELSE "refused"]
    /\ UNCHANGED <<fanoutVars, createVars, sourceVars, engineVars, victim>>

\* contQuery.stop: cancel the context; the handle's Stop does nothing.
DeleteStop(d) ==
    /\ del[d] = "got"
    /\ del' = [del EXCEPT ![d] = "stopped"]
    /\ cancelled' = [cancelled EXCEPT ![victim[d]] = TRUE]
    /\ UNCHANGED <<fanoutVars, createVars, replay, hub, inbox, inboxClosed, closer,
                   engineVars, victim>>

DeleteRemove(d) ==
    /\ del[d] = "stopped"
    /\ del' = [del EXCEPT ![d] = "gone"]
    /\ registry' = registry \ {victim[d]}
    /\ UNCHANGED <<fanoutVars, kind, target, post, nextID, qid, sourceVars, engineVars, victim>>

Delete(d) == DeleteStop(d) \/ DeleteRemove(d)

-----------------------------------------------------------------------------
(* The fan-out in the tier: its pump, and handlers that look a query up.   *)

restVars == <<createVars, sourceVars, engineVars, deleteVars>>

TierPump(q) == Pump(q) /\ UNCHANGED restVars

SseGet(h) ==
    /\ IF on[h] \in registry THEN Open(h) ELSE Refuse(h)
    /\ UNCHANGED restVars

SseRespond(h) == Respond(h) /\ UNCHANGED restVars

SseClient(h) == Client(h) /\ UNCHANGED restVars

-----------------------------------------------------------------------------
\* A query that has begun is over: no goroutine of it is left.
Quiescent(q) ==
    /\ replay[q] \in {"none", "done"}
    /\ closer[q] \in {"none", "done"}
    /\ eng[q] \in {"none", "done"}
    /\ pump[q] \in {"absent", "done"}

TierDone ==
    /\ \A q \in Query : post[q] \in {"rejected", "refused", "created"} /\ Quiescent(q)
    /\ \A h \in Handler : pc[h] \in {"gone", "refused"}
    /\ \A d \in Deleter : del[d] \in {"gone", "refused"}
    /\ UNCHANGED tierVars

TierNext ==
    \/ \E q \in Query : Post(q) \/ Source(q) \/ ReplayCancelled(q)
                           \/ Engine(q) \/ EngineCancelled(q) \/ TierPump(q)
    \/ \E p \in Property : Publish(p)
    \/ \E d \in Deleter : DeleteGet(d) \/ Delete(d)
    \/ \E h \in Handler : SseGet(h) \/ SseRespond(h) \/ SseClient(h)
    \/ TierDone

\* A handler that has begun goes on, a runnable goroutine runs, and a select in which
\* ctx.Done() stays ready takes that case in the end (Go draws among the ready cases).
\* Nothing is assumed of producers or of clients (FanoutFairness).
TierFairness ==
    /\ \A q \in Query :
        /\ WF_tierVars(post[q] # "idle" /\ Post(q))
        /\ WF_tierVars(Source(q))
        /\ WF_tierVars(ReplayCancelled(q))
        /\ WF_tierVars(Engine(q))
        /\ WF_tierVars(EngineCancelled(q))
        /\ WF_tierVars(TierPump(q))
    /\ \A d \in Deleter : WF_tierVars(Delete(d))
    /\ \A h \in Handler : SF_tierVars(SseRespond(h))

TierSafetySpec == TierInit /\ [][TierNext]_tierVars

TierSpec == TierSafetySpec /\ TierFairness

-----------------------------------------------------------------------------
(* Properties                                                              *)

\* The variables of the tier have their types, and publish never fills an inbox beyond its
\* capacity: it drops the record instead (liveHub.publish).
TierTypeOK ==
    /\ FanoutTypeOK
    /\ kind \in [Query -> Kind]
    /\ target \in [Query -> Property]
    /\ post \in [Query -> PostState]
    /\ cancelled \in [Query -> BOOLEAN]
    /\ replay \in [Query -> {"none", "wait", "offer", "done"}]
    /\ hub \in SUBSET Query
    /\ inbox \in [Query -> 0..InboxCap]
    /\ inboxClosed \in [Query -> BOOLEAN]
    /\ closer \in [Query -> {"none", "waiting", "done"}]
    /\ eng \in [Query -> {"none", "select", "emit", "closing", "done"}]
    /\ engStatus \in [Query -> {"running", "stopped", "failed"}]
    /\ registry \in SUBSET Query
    /\ nextID \in Nat
    /\ qid \in [Query -> Nat]
    /\ del \in [Deleter -> {"idle", "got", "stopped", "gone", "refused"}]
    /\ victim \in [Deleter -> Query]

\* What status() answers for a query.
Status(q) ==
    IF stopped[q] THEN "stopped"
    ELSE IF kind[q] = "geometry" THEN "running"
    ELSE engStatus[q]

\* publish never sends on a closed channel: an inbox leaves the hub when it is closed,
\* whatever the order of publishers, of DELETE and of the closer.
HubSendsOnOpen == \A q \in hub : ~inboxClosed[q]

\* A query's stream ends for a reason: it was deleted, or its engine failed on a record.
\* No source runs out, and no other request can end it.
StopsForAReason ==
    \A q \in Query : stopped[q] => cancelled[q] \/ engStatus[q] = "failed"

\* A context nobody can cancel any more is cancelled: the query a DELETE removed, and
\* the one a POST gave up after it began.  Otherwise its goroutines run for ever.
NoOrphan ==
    \A q \in Query :
        \/ qid[q] > 0 /\ q \notin registry
        \/ post[q] = "refused"
        => cancelled[q]

\* Two queries never share an id, even after one of them is deleted: the link a client
\* holds never opens another client's query.
IdsAreNotReused ==
    \A q, r \in Query : qid[q] = qid[r] /\ qid[q] > 0 => q = r

\* Every step of the tier is a step of the fan-out or leaves it alone: what module
\* Fanout guarantees of any producer and any registry holds of these.
RefinesFanout == FanoutSafetySpec

\* Cancelling a query, by DELETE or by a POST that gives up, ends every goroutine of it,
\* wherever each of them is blocked, and takes its inbox out of the hub.
CancelEndsQuery ==
    \A q \in Query :
        cancelled[q] ~> Quiescent(q) /\ q \notin hub /\ post[q] \in {"refused", "created"}

\* When the engine fails, every client that reads the query's stream gets its end, if it
\* reads on or leaves; what the other clients do does not matter.
FailureReachesReaders ==
    \A h \in Handler : ReadsOn(h) =>
        (pc[h] \in {"reading", "writing"} /\ engStatus[on[h]] = "failed" ~> pc[h] = "gone")

\* CONFORMANCE.md: the states running, stopped and failed are reported by the status.
\* A registered query whose engine failed reports it.
FailedIsReported ==
    \A q \in registry : engStatus[q] = "failed" => Status(q) = "failed"

\* stream_live.go: a live source is removed "when ctx is cancelled (the query stops)".
\* A live query that has stopped leaves the hub, so publish no longer counts it.
StoppedLeavesHub ==
    \A q \in Query : stopped[q] ~> q \notin hub
=============================================================================
