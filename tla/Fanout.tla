------------------------------- MODULE Fanout -------------------------------
(***************************************************************************)
(* The fan-out of a continuous query (contQuery in src/stream.go): one     *)
(* pump goroutine per query receives the query's events and copies each    *)
(* of them to the channel of every SSE handler subscribed to the query.    *)
(*                                                                         *)
(* An event is the number of its emission by its query, 1, 2, 3, ...: what *)
(* it carries is not interpreted by this code.  A handler is one GET       *)
(* .../stream request, and the channel subscribe() makes for it is named   *)
(* by the handler.  The steps of the pump that hold cq.mu are one action,  *)
(* and so are those of subscribe and unsubscribe: receiving from a channel *)
(* is what a handler does without the lock, and it is interleaved.         *)
(***************************************************************************)
EXTENDS Integers, Sequences

CONSTANTS
    Query,      \* the contQuery objects
    Handler,    \* the GET .../stream requests, one streamQuery call each
    EventsCap,  \* the capacity of cq.events (64 behind an engine)
    SubCap,     \* the capacity of a subscriber's channel (32)
    MaxEvent    \* bound: the number of events a query emits

ASSUME FanoutAssumption ==
    /\ EventsCap \in Nat
    /\ SubCap \in Nat \ {0}
    /\ MaxEvent \in Nat

VARIABLES
    events,     \* cq.events: emitted, not yet received by the pump
    ended,      \* cq.events is closed
    last,       \* the number of the last event emitted
    pump,       \* control of cq.pump()
    held,       \* the event the pump has received and not yet copied (0: none)
    fanned,     \* the number of events the pump has copied to the subscribers
    subs,       \* cq.subs
    stopped,    \* cq.stopped
    pc,         \* control of the streamQuery handler
    on,         \* the query its request names
    queue,      \* the buffer of the handler's channel
    closes,     \* how many times the handler's channel was closed
    response,   \* the events written to the client, the one being written included
    since,      \* history: fanned when the handler subscribed
    dropped     \* history: events skipped because the handler's channel was full

queryVars   == <<events, ended, last, pump, held, fanned, subs, stopped>>
handlerVars == <<pc, on, queue, closes, response, since, dropped>>
fanoutVars  == <<queryVars, handlerVars>>

PumpState    == {"absent", "recv", "fan", "close", "done"}
HandlerState == {"idle", "got", "reading", "writing", "leaving", "gone", "refused"}

FanoutInit ==
    /\ events = [q \in Query |-> <<>>]
    /\ ended = [q \in Query |-> FALSE]
    /\ last = [q \in Query |-> 0]
    /\ pump = [q \in Query |-> "absent"]
    /\ held = [q \in Query |-> 0]
    /\ fanned = [q \in Query |-> 0]
    /\ subs = [q \in Query |-> {}]
    /\ stopped = [q \in Query |-> FALSE]
    /\ pc = [h \in Handler |-> "idle"]
    /\ on \in [Handler -> Query]
    /\ queue = [h \in Handler |-> <<>>]
    /\ closes = [h \in Handler |-> 0]
    /\ response = [h \in Handler |-> <<>>]
    /\ since = [h \in Handler |-> 0]
    /\ dropped = [h \in Handler |-> 0]

-----------------------------------------------------------------------------
(* The producer's end of cq.events: an engine's handle, or the replay      *)
(* goroutine of a geometry query.                                          *)

\* A buffered send (an engine's results channel).
Emit(q) ==
    /\ ~ended[q]
    /\ last[q] < MaxEvent
    /\ Len(events[q]) < EventsCap
    /\ last' = [last EXCEPT ![q] = @ + 1]
    /\ events' = [events EXCEPT ![q] = Append(@, last[q] + 1)]
    /\ UNCHANGED <<ended, pump, held, fanned, subs, stopped, handlerVars>>

\* A send on the unbuffered channel of geometryEvents: it meets the pump's receive.
Handover(q) ==
    /\ ~ended[q]
    /\ last[q] < MaxEvent
    /\ events[q] = <<>>
    /\ pump[q] = "recv"
    /\ last' = [last EXCEPT ![q] = @ + 1]
    /\ held' = [held EXCEPT ![q] = last[q] + 1]
    /\ pump' = [pump EXCEPT ![q] = "fan"]
    /\ UNCHANGED <<events, ended, fanned, subs, stopped, handlerVars>>

\* The producer returns and closes the channel.
End(q) ==
    /\ ~ended[q]
    /\ ended' = [ended EXCEPT ![q] = TRUE]
    /\ UNCHANGED <<events, last, pump, held, fanned, subs, stopped, handlerVars>>

-----------------------------------------------------------------------------
(* contQuery.pump                                                          *)

PumpStart(q) ==
    /\ pump[q] = "absent"
    /\ pump' = [pump EXCEPT ![q] = "recv"]
    /\ UNCHANGED <<events, ended, last, held, fanned, subs, stopped, handlerVars>>

PumpReceive(q) ==
    /\ pump[q] = "recv"
    /\ events[q] # <<>>
    /\ held' = [held EXCEPT ![q] = Head(events[q])]
    /\ events' = [events EXCEPT ![q] = Tail(@)]
    /\ pump' = [pump EXCEPT ![q] = "fan"]
    /\ UNCHANGED <<ended, last, fanned, subs, stopped, handlerVars>>

\* Mutant: one event more than the channel holds.
HasRoomOffByOne(h) == Len(queue[h]) <= SubCap

HasRoom(h) == Len(queue[h]) < SubCap

\* Mutant: the fan-out starts again while a subscriber is full.
PumpFanRetrying(q) ==
    /\ pump[q] = "fan"
    /\ queue' = [h \in Handler |->
                    IF h \in subs[q] /\ HasRoom(h) THEN Append(queue[h], held[q])
                                                   ELSE queue[h]]
    /\ IF \A h \in subs[q] : HasRoom(h)
          THEN /\ fanned' = [fanned EXCEPT ![q] = @ + 1]
               /\ held' = [held EXCEPT ![q] = 0]
               /\ pump' = [pump EXCEPT ![q] = "recv"]
          ELSE UNCHANGED <<fanned, held, pump>>
    /\ UNCHANGED <<events, ended, last, subs, stopped, pc, on, closes, response, since, dropped>>

\* Mutant: one full subscriber makes the fan-out give up the event for all.
PumpFanBreaking(q) ==
    /\ pump[q] = "fan"
    /\ LET free == \A h \in subs[q] : HasRoom(h) IN
       /\ queue' = [h \in Handler |->
                       IF h \in subs[q] /\ free THEN Append(queue[h], held[q]) ELSE queue[h]]
       /\ dropped' = [h \in Handler |->
                       IF h \in subs[q] /\ ~HasRoom(h) THEN dropped[h] + 1 ELSE dropped[h]]
    /\ fanned' = [fanned EXCEPT ![q] = @ + 1]
    /\ held' = [held EXCEPT ![q] = 0]
    /\ pump' = [pump EXCEPT ![q] = "recv"]
    /\ UNCHANGED <<events, ended, last, subs, stopped, pc, on, closes, response, since>>

\* Mutant: a full channel drops its oldest event for the new one.
PumpFanEvicting(q) ==
    /\ pump[q] = "fan"
    /\ queue' = [h \in Handler |->
                    IF h \notin subs[q] THEN queue[h]
                    ELSE IF HasRoom(h) THEN Append(queue[h], held[q])
                    ELSE Append(Tail(queue[h]), held[q])]
    /\ dropped' = [h \in Handler |->
                    IF h \in subs[q] /\ ~HasRoom(h) THEN dropped[h] + 1 ELSE dropped[h]]
    /\ fanned' = [fanned EXCEPT ![q] = @ + 1]
    /\ held' = [held EXCEPT ![q] = 0]
    /\ pump' = [pump EXCEPT ![q] = "recv"]
    /\ UNCHANGED <<events, ended, last, subs, stopped, pc, on, closes, response, since>>

\* Under cq.mu: a non-blocking send to every subscriber; a full channel is skipped.
PumpFan(q) ==
    /\ pump[q] = "fan"
    /\ queue' = [h \in Handler |->
                    IF h \in subs[q] /\ HasRoom(h) THEN Append(queue[h], held[q])
                                                   ELSE queue[h]]
    /\ dropped' = [h \in Handler |->
                    IF h \in subs[q] /\ ~HasRoom(h) THEN dropped[h] + 1
                                                    ELSE dropped[h]]
    /\ fanned' = [fanned EXCEPT ![q] = @ + 1]
    /\ held' = [held EXCEPT ![q] = 0]
    /\ pump' = [pump EXCEPT ![q] = "recv"]
    /\ UNCHANGED <<events, ended, last, subs, stopped, pc, on, closes, response, since>>

\* The range over cq.events ends once the channel is closed and drained.
PumpSeesEnd(q) ==
    /\ pump[q] = "recv"
    /\ events[q] = <<>>
    /\ ended[q]
    /\ pump' = [pump EXCEPT ![q] = "close"]
    /\ UNCHANGED <<events, ended, last, held, fanned, subs, stopped, handlerVars>>

\* Mutant: the pump returns without closing its subscribers.
PumpCloseForgetful(q) ==
    /\ pump[q] = "close"
    /\ stopped' = [stopped EXCEPT ![q] = TRUE]
    /\ pump' = [pump EXCEPT ![q] = "done"]
    /\ UNCHANGED <<events, ended, last, held, fanned, subs, handlerVars>>

\* Under cq.mu: mark the query stopped, close and forget every subscriber.
PumpClose(q) ==
    /\ pump[q] = "close"
    /\ stopped' = [stopped EXCEPT ![q] = TRUE]
    /\ closes' = [h \in Handler |-> IF h \in subs[q] THEN closes[h] + 1 ELSE closes[h]]
    /\ subs' = [subs EXCEPT ![q] = {}]
    /\ pump' = [pump EXCEPT ![q] = "done"]
    /\ UNCHANGED <<events, ended, last, held, fanned,
                   pc, on, queue, response, since, dropped>>

-----------------------------------------------------------------------------
(* streamQuery, contQuery.subscribe and contQuery.unsubscribe              *)

\* The registry holds the query the request names: the handler has its object.
Open(h) ==
    /\ pc[h] = "idle"
    /\ pc' = [pc EXCEPT ![h] = "got"]
    /\ UNCHANGED <<queryVars, on, queue, closes, response, since, dropped>>

\* It does not: 404.  (Or the ResponseWriter is no Flusher, 500: net/http's is one.)
Refuse(h) ==
    /\ pc[h] = "idle"
    /\ pc' = [pc EXCEPT ![h] = "refused"]
    /\ UNCHANGED <<queryVars, on, queue, closes, response, since, dropped>>

\* Mutant: subscribe does not look at cq.stopped.
SubscribeUnchecked(h) ==
    LET q == on[h] IN
    /\ pc[h] = "got"
    /\ pc' = [pc EXCEPT ![h] = "reading"]
    /\ since' = [since EXCEPT ![h] = fanned[q]]
    /\ subs' = [subs EXCEPT ![q] = @ \cup {h}]
    /\ UNCHANGED <<events, ended, last, pump, held, fanned, stopped,
                   on, queue, closes, response, dropped>>

Subscribe(h) ==
    /\ pc[h] = "got"
    /\ pc' = [pc EXCEPT ![h] = "reading"]
    /\ since' = [since EXCEPT ![h] = fanned[on[h]]]
    /\ \/ /\ stopped[on[h]]
          /\ closes' = [closes EXCEPT ![h] = @ + 1]
          /\ UNCHANGED subs
       \/ /\ ~stopped[on[h]]
          /\ subs' = [subs EXCEPT ![on[h]] = @ \cup {h}]
          /\ UNCHANGED closes
    /\ UNCHANGED <<events, ended, last, pump, held, fanned, stopped,
                   on, queue, response, dropped>>

\* The select takes an event, and the handler begins to write it to the client.
Receive(h) ==
    /\ pc[h] = "reading"
    /\ queue[h] # <<>>
    /\ pc' = [pc EXCEPT ![h] = "writing"]
    /\ response' = [response EXCEPT ![h] = Append(@, Head(queue[h]))]
    /\ queue' = [queue EXCEPT ![h] = Tail(@)]
    /\ UNCHANGED <<queryVars, on, closes, since, dropped>>

\* The ticker's case: the handler begins to write a comment.
KeepAlive(h) ==
    /\ pc[h] = "reading"
    /\ pc' = [pc EXCEPT ![h] = "writing"]
    /\ UNCHANGED <<queryVars, on, queue, closes, response, since, dropped>>

\* Fprintf and Flush return: the connection has taken what is written.  There is no
\* WriteTimeout: while a connected client reads nothing, they do not return.
Written(h) ==
    /\ pc[h] = "writing"
    /\ pc' = [pc EXCEPT ![h] = "reading"]
    /\ UNCHANGED <<queryVars, on, queue, closes, response, since, dropped>>

SeeClosed(h) ==
    /\ pc[h] = "reading"
    /\ queue[h] = <<>>
    /\ closes[h] > 0
    /\ pc' = [pc EXCEPT ![h] = "leaving"]
    /\ UNCHANGED <<queryVars, on, queue, closes, response, since, dropped>>

\* The client went away: a write fails, r.Context() is done and the select sees it.
Disconnect(h) ==
    /\ pc[h] \in {"reading", "writing"}
    /\ pc' = [pc EXCEPT ![h] = "leaving"]
    /\ UNCHANGED <<queryVars, on, queue, closes, response, since, dropped>>

\* Mutant: the deferred unsubscribe closes a channel the pump has closed.
UnsubscribeAlways(h) ==
    LET q == on[h] IN
    /\ pc[h] = "leaving"
    /\ pc' = [pc EXCEPT ![h] = "gone"]
    /\ subs' = [subs EXCEPT ![q] = @ \ {h}]
    /\ closes' = [closes EXCEPT ![h] = @ + 1]
    /\ UNCHANGED <<events, ended, last, pump, held, fanned, stopped,
                   on, queue, response, since, dropped>>

\* The deferred unsubscribe, under cq.mu: close the channel unless the pump did.
Unsubscribe(h) ==
    /\ pc[h] = "leaving"
    /\ pc' = [pc EXCEPT ![h] = "gone"]
    /\ \/ /\ h \in subs[on[h]]
          /\ subs' = [subs EXCEPT ![on[h]] = @ \ {h}]
          /\ closes' = [closes EXCEPT ![h] = @ + 1]
       \/ /\ h \notin subs[on[h]]
          /\ UNCHANGED <<subs, closes>>
    /\ UNCHANGED <<events, ended, last, pump, held, fanned, stopped,
                   on, queue, response, since, dropped>>

-----------------------------------------------------------------------------
Produce(q) == Emit(q) \/ Handover(q) \/ End(q)

Pump(q) == PumpReceive(q) \/ PumpFan(q) \/ PumpSeesEnd(q) \/ PumpClose(q)

\* What a handler does as soon as it can, and what it does when the ticker or its client do.
Respond(h) == Subscribe(h) \/ Receive(h) \/ SeeClosed(h) \/ Unsubscribe(h)

Client(h) == KeepAlive(h) \/ Written(h) \/ Disconnect(h)

\* Every query's stream is over and every request is answered: nothing is left to do.
FanoutDone ==
    /\ \A q \in Query : pump[q] = "done"
    /\ \A h \in Handler : pc[h] \in {"gone", "refused"}
    /\ UNCHANGED fanoutVars

FanoutNext ==
    \/ \E q \in Query : Produce(q) \/ PumpStart(q) \/ Pump(q)
    \/ \E h \in Handler : Open(h) \/ Refuse(h) \/ Respond(h) \/ Client(h)
    \/ FanoutDone

\* A runnable goroutine runs; strongly, for a handler, since its select may draw the
\* keep-alive again and again and draws at random among the cases that are ready.
\* Nothing is assumed of producers or of clients: Written waits for a client.
FanoutFairness ==
    /\ \A q \in Query : WF_fanoutVars(Pump(q))
    /\ \A h \in Handler : SF_fanoutVars(Respond(h))

\* What some properties ask of a client: it reads on, or it leaves.
ReadsOn(h) == WF_fanoutVars(Written(h))

FanoutSafetySpec == FanoutInit /\ [][FanoutNext]_fanoutVars

FanoutSpec == FanoutSafetySpec /\ FanoutFairness

-----------------------------------------------------------------------------
(* Properties                                                              *)

\* The values of every variable, and the bounds of the two channels.
FanoutTypeOK ==
    /\ events \in [Query -> Seq(1..MaxEvent)]
    /\ \A q \in Query : Len(events[q]) <= EventsCap
    /\ ended \in [Query -> BOOLEAN]
    /\ last \in [Query -> 0..MaxEvent]
    /\ pump \in [Query -> PumpState]
    /\ held \in [Query -> 0..MaxEvent]
    /\ fanned \in [Query -> 0..MaxEvent]
    /\ subs \in [Query -> SUBSET Handler]
    /\ stopped \in [Query -> BOOLEAN]
    /\ pc \in [Handler -> HandlerState]
    /\ on \in [Handler -> Query]
    /\ queue \in [Handler -> Seq(1..MaxEvent)]
    /\ \A h \in Handler : Len(queue[h]) <= SubCap
    /\ closes \in [Handler -> Nat]
    /\ response \in [Handler -> Seq(1..MaxEvent)]
    /\ since \in [Handler -> 0..MaxEvent]
    /\ dropped \in [Handler -> Nat]

\* No step of the pump sends on a closed channel, and no step closes one twice (both
\* panic in Go and end the process): a channel in cq.subs is open, and whoever closes
\* a channel, the pump or the deferred unsubscribe, is the first to.
ChannelDiscipline ==
    /\ \A q \in Query : \A h \in subs[q] : closes[h] = 0
    /\ \A h \in Handler : closes[h] <= 1

\* What the handler's client has or will have read of what was sent to it.
Stream(h) == response[h] \o queue[h]

\* However slow a client and however events are skipped, it reads events in the order
\* the query emitted them, none twice, and none from before it subscribed.
InOrder ==
    \A h \in Handler :
        /\ \A i \in 1..Len(Stream(h)) : Stream(h)[i] > since[h]
        /\ \A i, j \in 1..Len(Stream(h)) : i < j => Stream(h)[i] < Stream(h)[j]

\* A client whose channel never was full misses nothing: it has, in its response or in
\* its channel, every event copied since it subscribed; and once its query has stopped
\* that is every event the query emitted to the end.
NoSilentLoss ==
    \A h \in Handler :
        LET q == on[h] IN
        pc[h] \in {"reading", "writing"} /\ dropped[h] = 0 =>
            /\ Stream(h) = [i \in 1..(fanned[q] - since[h]) |-> since[h] + i]
            /\ stopped[q] => fanned[q] = last[q]

\* A handler that waits on an open channel, or will, is subscribed to a query whose pump has not
\* ended: somebody is left to send to it or to close its channel, whatever the order of
\* subscribe and of the pump's end.
ReaderIsServed ==
    \A h \in Handler :
        pc[h] \in {"reading", "writing"} /\ closes[h] = 0 =>
            /\ h \in subs[on[h]]
            /\ pump[on[h]] # "done"

\* Once a query's stream has ended and its pump runs, every handler that got the query,
\* before the end or after, answers its request to the end, if its own client reads on or
\* leaves.  A client that stays and reads nothing holds up its own handler for ever, and
\* neither the pump nor another reader.
EveryReaderReturns ==
    \A h \in Handler : ReadsOn(h) =>
        ((pc[h] \in {"got", "reading", "writing"} /\ ended[on[h]] /\ pump[on[h]] # "absent")
            ~> (pc[h] = "gone"))

-----------------------------------------------------------------------------
(* What the fan-out promises a client, without the pump, the locks and the *)
(* handlers' control: LossyBroadcast.                                      *)

Membership(h) ==
    IF pc[h] \in {"idle", "got", "refused"} THEN "out"
    ELSE IF closes[h] = 0 THEN "in" ELSE "closed"

Broadcast == INSTANCE LossyBroadcast WITH
    Topic <- Query, Member <- Handler, Cap <- SubCap, MaxSent <- MaxEvent,
    topic <- on, sent <- fanned, over <- stopped,
    member <- [h \in Handler |-> Membership(h)],
    backlog <- queue, delivered <- response

\* Every step of the fan-out is a step of the lossy broadcast or none.
RefinesBroadcast == Broadcast!Spec
=============================================================================
