---------------------------- MODULE Fanout_proofs ----------------------------
(***************************************************************************)
(* Proofs about the fan-out, for any queries, handlers, capacities and     *)
(* bound.  The invariant is built in three layers, each proved from those  *)
(* before it: PumpInv (where every emitted event is), SubscriberInv (who   *)
(* holds and who closes a channel), StreamInv (what a client has read).    *)
(* Under it each step maps to a step of the lossy broadcast, or to none.   *)
(***************************************************************************)
EXTENDS Fanout, TLAPS, SequenceTheorems

\* Every event emitted is copied, in the pump's hand, or in cq.events, in this order;
\* the pump ends when the stream has ended and is drained, and that is cq.stopped.
PumpCounts(q) ==
    /\ held[q] = IF pump[q] = "fan" THEN fanned[q] + 1 ELSE 0
    /\ last[q] = fanned[q] + (IF pump[q] = "fan" THEN 1 ELSE 0) + Len(events[q])

PumpOrder(q) ==
    \A i \in 1..Len(events[q]) : events[q][i] = last[q] - Len(events[q]) + i

PumpEnds(q) ==
    /\ pump[q] \in {"close", "done"} => ended[q] /\ events[q] = <<>>
    /\ stopped[q] => pump[q] = "done"
    /\ pump[q] = "done" => stopped[q]

PumpInvOf(q) == PumpCounts(q) /\ PumpOrder(q) /\ PumpEnds(q)

PumpInv == \A q \in Query : PumpInvOf(q)

IndInv == FanoutTypeOK /\ PumpInv

-----------------------------------------------------------------------------
(* Types and counts                                                        *)

LEMMA InitIndInv == FanoutInit => IndInv
<1>. SUFFICES ASSUME FanoutInit PROVE IndInv
  OBVIOUS
<1>. USE FanoutAssumption DEF FanoutInit
<1>1. FanoutTypeOK
  BY DEF FanoutTypeOK, PumpState, HandlerState
<1>2. ASSUME NEW q \in Query PROVE PumpInvOf(q)
  <2>1. Len(events[q]) = 0
    OBVIOUS
  <2>. QED  BY <2>1 DEF PumpInvOf, PumpCounts, PumpOrder, PumpEnds
<1>. QED  BY <1>1, <1>2 DEF IndInv, PumpInv

\* A step that leaves a query's pump and stream alone preserves its part of PumpInv.
LEMMA PumpFrame ==
  ASSUME NEW q \in Query, PumpInvOf(q),
         held'[q] = held[q], pump'[q] = pump[q], fanned'[q] = fanned[q],
         last'[q] = last[q], events'[q] = events[q], ended'[q] = ended[q],
         stopped'[q] = stopped[q]
  PROVE  PumpInvOf(q)'
BY DEF PumpInvOf, PumpCounts, PumpOrder, PumpEnds

LEMMA NextIndInv == IndInv /\ [FanoutNext]_fanoutVars => IndInv'
<1>. SUFFICES ASSUME IndInv, [FanoutNext]_fanoutVars
              PROVE  IndInv'
  OBVIOUS
<1>. USE FanoutAssumption DEF IndInv
<1>1. ASSUME NEW q \in Query, Emit(q) PROVE IndInv'
  <2>0. /\ PumpCounts(q) /\ PumpOrder(q) /\ PumpEnds(q)
        /\ last[q] \in Nat /\ fanned[q] \in Nat /\ Len(events[q]) \in Nat
        /\ ended[q] \in BOOLEAN /\ stopped[q] \in BOOLEAN
    BY DEF FanoutTypeOK, PumpInv, PumpInvOf
  <2>1. /\ ~ended[q]
        /\ last'[q] = last[q] + 1
        /\ Len(events'[q]) = Len(events[q]) + 1
        /\ held'[q] = held[q] /\ pump'[q] = pump[q] /\ fanned'[q] = fanned[q]
        /\ ended'[q] = ended[q] /\ stopped'[q] = stopped[q]
    BY <1>1, HeadTailProperties, AppendProperties DEF Emit, FanoutTypeOK
  <2>5. /\ \A i \in 1..Len(events[q]) : events'[q][i] = events[q][i]
        /\ events'[q][Len(events[q]) + 1] = last[q] + 1
    BY <1>1, AppendProperties DEF Emit, FanoutTypeOK
  <2>2. FanoutTypeOK'
    <3>1. last[q] + 1 \in 1..MaxEvent /\ events[q] \in Seq(1..MaxEvent)
      BY <1>1 DEF Emit, FanoutTypeOK
    <3>2. Append(events[q], last[q] + 1) \in Seq(1..MaxEvent)
      BY <3>1, AppendProperties
    <3>3. events' \in [Query -> Seq(1..MaxEvent)] /\ last' \in [Query -> 0..MaxEvent]
      BY <1>1, <3>1, <3>2 DEF Emit, FanoutTypeOK
    <3>4. ASSUME NEW r \in Query PROVE Len(events'[r]) <= EventsCap
      <4>1. CASE r = q
        BY <1>1, <2>0, <2>1, <4>1 DEF Emit
      <4>2. CASE r # q
        <5>1. events'[r] = events[r]
          BY <1>1, <4>2 DEF Emit, FanoutTypeOK
        <5>. QED  BY <5>1 DEF FanoutTypeOK
      <4>. QED  BY <4>1, <4>2
    <3>5. UNCHANGED <<ended, pump, held, fanned, subs, stopped, handlerVars>>
      BY <1>1 DEF Emit
    <3>. QED  BY <3>3, <3>4, <3>5 DEF handlerVars, FanoutTypeOK
  <2>3. PumpInvOf(q)'
    <3>1. PumpCounts(q)'
      <4>1. held'[q] = IF pump'[q] = "fan" THEN fanned'[q] + 1 ELSE 0
        BY <2>0, <2>1 DEF PumpCounts
      <4>2. last'[q] = fanned'[q] + (IF pump'[q] = "fan" THEN 1 ELSE 0) + Len(events'[q])
        <5>1. CASE pump[q] = "fan"
          <6>1. last[q] = fanned[q] + 1 + Len(events[q])
            BY <2>0, <5>1 DEF PumpCounts
          <6>2. last[q] + 1 = fanned[q] + 1 + (Len(events[q]) + 1)
            <7>. DEFINE l == last[q]  f == fanned[q]  n == Len(events[q])
            <7>1. l \in Nat /\ f \in Nat /\ n \in Nat /\ l = f + 1 + n
              BY <2>0, <6>1
            <7>. HIDE DEF l, f, n
            <7>2. l + 1 = f + 1 + (n + 1)
              BY ONLY <7>1
            <7>. QED  BY <7>2 DEF l, f, n
          <6>. QED  BY <2>1, <5>1, <6>2
        <5>2. CASE pump[q] # "fan"
          <6>1. last[q] = fanned[q] + 0 + Len(events[q])
            BY <2>0, <5>2 DEF PumpCounts
          <6>2. last[q] + 1 = fanned[q] + 0 + (Len(events[q]) + 1)
            <7>. DEFINE l == last[q]  f == fanned[q]  n == Len(events[q])
            <7>1. l \in Nat /\ f \in Nat /\ n \in Nat /\ l = f + 0 + n
              BY <2>0, <6>1
            <7>. HIDE DEF l, f, n
            <7>2. l + 1 = f + 0 + (n + 1)
              BY ONLY <7>1
            <7>. QED  BY <7>2 DEF l, f, n
          <6>. QED  BY <2>1, <5>2, <6>2
        <5>. QED  BY <5>1, <5>2
      <4>. QED  BY <4>1, <4>2 DEF PumpCounts
    <3>2. PumpOrder(q)'
      <4>. SUFFICES ASSUME NEW i \in 1..Len(events'[q])
                    PROVE  events'[q][i] = last'[q] - Len(events'[q]) + i
        BY DEF PumpOrder
      <4>1. CASE i = Len(events[q]) + 1
        BY <2>0, <2>1, <2>5, <4>1
      <4>2. CASE i \in 1..Len(events[q])
        <5>1. events[q][i] = last[q] - Len(events[q]) + i
          BY <2>0, <4>2 DEF PumpOrder
        <5>. QED  BY <2>0, <2>1, <2>5, <4>2, <5>1
      <4>3. i = Len(events[q]) + 1 \/ i \in 1..Len(events[q])
        <5>1. Len(events'[q]) = Len(events[q]) + 1 /\ Len(events[q]) \in Nat
          BY <2>0, <2>1
        <5>. QED  BY ONLY <5>1, i \in 1..Len(events'[q])
      <4>. QED  BY ONLY <4>1, <4>2, <4>3
    <3>3. PumpEnds(q)'
      BY <2>0, <2>1 DEF PumpEnds
    <3>. QED  BY <3>1, <3>2, <3>3 DEF PumpInvOf
  <2>4. ASSUME NEW r \in Query, r # q PROVE PumpInvOf(r)'
    <3>1. PumpInvOf(r)
      BY DEF PumpInv
    <3>2. /\ held'[r] = held[r] /\ pump'[r] = pump[r] /\ fanned'[r] = fanned[r]
          /\ last'[r] = last[r] /\ events'[r] = events[r] /\ ended'[r] = ended[r]
          /\ stopped'[r] = stopped[r]
      BY <1>1, <2>4 DEF Emit, FanoutTypeOK
    <3>. QED  BY <3>1, <3>2, PumpFrame
  <2>. QED  BY <2>2, <2>3, <2>4 DEF PumpInv
<1>2. ASSUME NEW q \in Query, Handover(q) PROVE IndInv'
  <2>0. /\ PumpCounts(q) /\ PumpOrder(q) /\ PumpEnds(q)
        /\ last[q] \in Nat /\ fanned[q] \in Nat /\ Len(events[q]) \in Nat
        /\ ended[q] \in BOOLEAN /\ stopped[q] \in BOOLEAN
    BY DEF FanoutTypeOK, PumpInv, PumpInvOf
  <2>1. /\ ~ended[q]
        /\ pump[q] = "recv"
        /\ events[q] = <<>>
        /\ last'[q] = last[q] + 1
        /\ held'[q] = last[q] + 1
        /\ pump'[q] = "fan"
        /\ fanned'[q] = fanned[q] /\ events'[q] = events[q] /\ ended'[q] = ended[q]
        /\ stopped'[q] = stopped[q]
    BY <1>2, HeadTailProperties, AppendProperties DEF Handover, FanoutTypeOK
  <2>2. FanoutTypeOK'
    BY <1>2 DEF Handover, handlerVars, FanoutTypeOK, PumpState, HandlerState
  <2>3. PumpInvOf(q)'
    <3>1. PumpCounts(q)'
      BY <2>0, <2>1 DEF PumpCounts
    <3>2. PumpOrder(q)'
      BY <2>0, <2>1 DEF PumpOrder
    <3>3. PumpEnds(q)'
      BY <2>0, <2>1 DEF PumpEnds
    <3>. QED  BY <3>1, <3>2, <3>3 DEF PumpInvOf
  <2>4. ASSUME NEW r \in Query, r # q PROVE PumpInvOf(r)'
    <3>1. PumpInvOf(r)
      BY DEF PumpInv
    <3>2. /\ held'[r] = held[r] /\ pump'[r] = pump[r] /\ fanned'[r] = fanned[r]
          /\ last'[r] = last[r] /\ events'[r] = events[r] /\ ended'[r] = ended[r]
          /\ stopped'[r] = stopped[r]
      BY <1>2, <2>4 DEF Handover, FanoutTypeOK
    <3>. QED  BY <3>1, <3>2, PumpFrame
  <2>. QED  BY <2>2, <2>3, <2>4 DEF PumpInv
<1>3. ASSUME NEW q \in Query, End(q) PROVE IndInv'
  <2>0. /\ PumpCounts(q) /\ PumpOrder(q) /\ PumpEnds(q)
        /\ last[q] \in Nat /\ fanned[q] \in Nat /\ Len(events[q]) \in Nat
        /\ ended[q] \in BOOLEAN /\ stopped[q] \in BOOLEAN
    BY DEF FanoutTypeOK, PumpInv, PumpInvOf
  <2>1. /\ ended'[q] = TRUE
        /\ held'[q] = held[q] /\ pump'[q] = pump[q] /\ fanned'[q] = fanned[q]
        /\ last'[q] = last[q] /\ events'[q] = events[q] /\ stopped'[q] = stopped[q]
    BY <1>3, HeadTailProperties, AppendProperties DEF End, FanoutTypeOK
  <2>2. FanoutTypeOK'
    BY <1>3 DEF End, handlerVars, FanoutTypeOK, PumpState, HandlerState
  <2>3. PumpInvOf(q)'
    <3>1. PumpCounts(q)'
      BY <2>0, <2>1 DEF PumpCounts
    <3>2. PumpOrder(q)'
      BY <2>0, <2>1 DEF PumpOrder
    <3>3. PumpEnds(q)'
      BY <2>0, <2>1 DEF PumpEnds
    <3>. QED  BY <3>1, <3>2, <3>3 DEF PumpInvOf
  <2>4. ASSUME NEW r \in Query, r # q PROVE PumpInvOf(r)'
    <3>1. PumpInvOf(r)
      BY DEF PumpInv
    <3>2. /\ held'[r] = held[r] /\ pump'[r] = pump[r] /\ fanned'[r] = fanned[r]
          /\ last'[r] = last[r] /\ events'[r] = events[r] /\ ended'[r] = ended[r]
          /\ stopped'[r] = stopped[r]
      BY <1>3, <2>4 DEF End, FanoutTypeOK
    <3>. QED  BY <3>1, <3>2, PumpFrame
  <2>. QED  BY <2>2, <2>3, <2>4 DEF PumpInv
<1>4. ASSUME NEW q \in Query, PumpStart(q) PROVE IndInv'
  <2>0. /\ PumpCounts(q) /\ PumpOrder(q) /\ PumpEnds(q)
        /\ last[q] \in Nat /\ fanned[q] \in Nat /\ Len(events[q]) \in Nat
        /\ ended[q] \in BOOLEAN /\ stopped[q] \in BOOLEAN
    BY DEF FanoutTypeOK, PumpInv, PumpInvOf
  <2>1. /\ pump[q] = "absent"
        /\ pump'[q] = "recv"
        /\ held'[q] = held[q] /\ fanned'[q] = fanned[q] /\ last'[q] = last[q]
        /\ events'[q] = events[q] /\ ended'[q] = ended[q] /\ stopped'[q] = stopped[q]
    BY <1>4, HeadTailProperties, AppendProperties DEF PumpStart, FanoutTypeOK
  <2>2. FanoutTypeOK'
    BY <1>4 DEF PumpStart, handlerVars, FanoutTypeOK, PumpState, HandlerState
  <2>3. PumpInvOf(q)'
    <3>1. PumpCounts(q)'
      BY <2>0, <2>1 DEF PumpCounts
    <3>2. PumpOrder(q)'
      BY <2>0, <2>1 DEF PumpOrder
    <3>3. PumpEnds(q)'
      BY <2>0, <2>1 DEF PumpEnds
    <3>. QED  BY <3>1, <3>2, <3>3 DEF PumpInvOf
  <2>4. ASSUME NEW r \in Query, r # q PROVE PumpInvOf(r)'
    <3>1. PumpInvOf(r)
      BY DEF PumpInv
    <3>2. /\ held'[r] = held[r] /\ pump'[r] = pump[r] /\ fanned'[r] = fanned[r]
          /\ last'[r] = last[r] /\ events'[r] = events[r] /\ ended'[r] = ended[r]
          /\ stopped'[r] = stopped[r]
      BY <1>4, <2>4 DEF PumpStart, FanoutTypeOK
    <3>. QED  BY <3>1, <3>2, PumpFrame
  <2>. QED  BY <2>2, <2>3, <2>4 DEF PumpInv
<1>5. ASSUME NEW q \in Query, PumpReceive(q) PROVE IndInv'
  <2>0. /\ PumpCounts(q) /\ PumpOrder(q) /\ PumpEnds(q)
        /\ last[q] \in Nat /\ fanned[q] \in Nat /\ Len(events[q]) \in Nat
        /\ ended[q] \in BOOLEAN /\ stopped[q] \in BOOLEAN
    BY DEF FanoutTypeOK, PumpInv, PumpInvOf
  <2>1. /\ pump[q] = "recv"
        /\ Len(events[q]) > 0
        /\ held'[q] = events[q][1]
        /\ pump'[q] = "fan"
        /\ Len(events'[q]) = Len(events[q]) - 1
        /\ fanned'[q] = fanned[q] /\ last'[q] = last[q] /\ ended'[q] = ended[q]
        /\ stopped'[q] = stopped[q]
    BY <1>5, HeadTailProperties, AppendProperties DEF PumpReceive, FanoutTypeOK
  <2>5. /\ \A i \in 1..Len(events'[q]) : events'[q][i] = events[q][i + 1]
        /\ events'[q] = Tail(events[q])
        /\ Head(events[q]) \in 1..MaxEvent /\ Tail(events[q]) \in Seq(1..MaxEvent)
        /\ held'[q] = Head(events[q])
    BY <1>5, HeadTailProperties DEF PumpReceive, FanoutTypeOK
  <2>2. FanoutTypeOK'
    <3>1. Head(events[q]) \in 0..MaxEvent
      BY <2>5
    <3>2. /\ events' \in [Query -> Seq(1..MaxEvent)]
          /\ held' \in [Query -> 0..MaxEvent]
          /\ pump' \in [Query -> PumpState]
      BY <1>5, <2>5, <3>1 DEF PumpReceive, FanoutTypeOK, PumpState
    <3>3. ASSUME NEW r \in Query PROVE Len(events'[r]) <= EventsCap
      <4>0. Len(events[r]) <= EventsCap
        BY DEF FanoutTypeOK
      <4>1. CASE r = q
        BY <2>0, <2>1, <4>0, <4>1
      <4>2. CASE r # q
        <5>1. events'[r] = events[r]
          BY <1>5, <4>2 DEF PumpReceive, FanoutTypeOK
        <5>. QED  BY <4>0, <5>1
      <4>. QED  BY <4>1, <4>2
    <3>4. UNCHANGED <<ended, last, fanned, subs, stopped, handlerVars>>
      BY <1>5 DEF PumpReceive
    <3>. QED  BY <3>2, <3>3, <3>4 DEF handlerVars, FanoutTypeOK
  <2>3. PumpInvOf(q)'
    <3>1. PumpCounts(q)'
      <4>1. events[q][1] = last[q] - Len(events[q]) + 1
        BY <2>0, <2>1 DEF PumpOrder
      <4>2. last[q] = fanned[q] + Len(events[q])
        BY <2>0, <2>1 DEF PumpCounts
      <4>3. held'[q] = fanned'[q] + 1
        BY <2>0, <2>1, <4>1, <4>2
      <4>4. last'[q] = fanned'[q] + 1 + Len(events'[q])
        <5>1. /\ Len(events'[q]) = Len(events[q]) - 1 /\ Len(events[q]) \in Nat
              /\ last'[q] = last[q] /\ fanned'[q] = fanned[q]
              /\ fanned[q] \in Nat /\ last[q] \in Nat
          BY <2>0, <2>1
        <5>. QED  BY <4>2, <5>1
      <4>. QED  BY <2>1, <4>3, <4>4 DEF PumpCounts
    <3>2. PumpOrder(q)'
      <4>. SUFFICES ASSUME NEW i \in 1..Len(events'[q])
                    PROVE  events'[q][i] = last'[q] - Len(events'[q]) + i
        BY DEF PumpOrder
      <4>1. events[q][i + 1] = last[q] - Len(events[q]) + (i + 1)
        BY <2>0, <2>1 DEF PumpOrder
      <4>2. events'[q][i] = events[q][i + 1]
        BY <2>5
      <4>3. /\ last[q] \in Nat /\ Len(events[q]) \in Nat
            /\ last'[q] = last[q] /\ Len(events'[q]) = Len(events[q]) - 1
        BY <2>0, <2>1
      <4>4. last[q] - Len(events[q]) + (i + 1) = last[q] - (Len(events[q]) - 1) + i
        <5>. DEFINE l == last[q]  n == Len(events[q])
        <5>1. l \in Nat /\ n \in Nat /\ i \in Int
          BY <2>1, <4>3
        <5>. HIDE DEF l, n
        <5>2. l - n + (i + 1) = l - (n - 1) + i
          BY ONLY <5>1
        <5>. QED  BY <5>2 DEF l, n
      <4>. QED  BY <4>1, <4>2, <4>3, <4>4
    <3>3. PumpEnds(q)'
      BY <2>0, <2>1 DEF PumpEnds
    <3>. QED  BY <3>1, <3>2, <3>3 DEF PumpInvOf
  <2>4. ASSUME NEW r \in Query, r # q PROVE PumpInvOf(r)'
    <3>1. PumpInvOf(r)
      BY DEF PumpInv
    <3>2. /\ held'[r] = held[r] /\ pump'[r] = pump[r] /\ fanned'[r] = fanned[r]
          /\ last'[r] = last[r] /\ events'[r] = events[r] /\ ended'[r] = ended[r]
          /\ stopped'[r] = stopped[r]
      BY <1>5, <2>4 DEF PumpReceive, FanoutTypeOK
    <3>. QED  BY <3>1, <3>2, PumpFrame
  <2>. QED  BY <2>2, <2>3, <2>4 DEF PumpInv
<1>6. ASSUME NEW q \in Query, PumpFan(q) PROVE IndInv'
  <2>0. /\ PumpCounts(q) /\ PumpOrder(q) /\ PumpEnds(q)
        /\ last[q] \in Nat /\ fanned[q] \in Nat /\ Len(events[q]) \in Nat
        /\ ended[q] \in BOOLEAN /\ stopped[q] \in BOOLEAN
    BY DEF FanoutTypeOK, PumpInv, PumpInvOf
  <2>1. /\ pump[q] = "fan"
        /\ pump'[q] = "recv"
        /\ held'[q] = 0
        /\ fanned'[q] = fanned[q] + 1
        /\ last'[q] = last[q] /\ events'[q] = events[q] /\ ended'[q] = ended[q]
        /\ stopped'[q] = stopped[q]
    BY <1>6, HeadTailProperties, AppendProperties DEF PumpFan, FanoutTypeOK
  <2>2. FanoutTypeOK'
    <3>1. held[q] \in 1..MaxEvent /\ fanned[q] + 1 \in 0..MaxEvent
      BY <2>0, <2>1 DEF PumpCounts, FanoutTypeOK
    <3>2. queue' \in [Handler -> Seq(1..MaxEvent)]
      <4>1. \A h \in Handler : /\ queue[h] \in Seq(1..MaxEvent)
                              /\ Append(queue[h], held[q]) \in Seq(1..MaxEvent)
        BY <3>1 DEF FanoutTypeOK
      <4>. QED  BY <1>6, <4>1 DEF PumpFan
    <3>3. \A h \in Handler : Len(queue'[h]) <= SubCap
      BY <1>6, <3>1 DEF PumpFan, FanoutTypeOK, HasRoom
    <3>4. dropped' \in [Handler -> Nat]
      <4>1. \A h \in Handler : dropped[h] \in Nat /\ dropped[h] + 1 \in Nat
        <5>1. dropped \in [Handler -> Nat]
          BY DEF FanoutTypeOK
        <5>. QED  BY <5>1
      <4>2. dropped' = [h \in Handler |-> IF h \in subs[q] /\ ~HasRoom(h)
                                           THEN dropped[h] + 1 ELSE dropped[h]]
        BY <1>6 DEF PumpFan
      <4>. QED  BY <4>1, <4>2
    <3>5. fanned' \in [Query -> 0..MaxEvent] /\ held' \in [Query -> 0..MaxEvent]
          /\ pump' \in [Query -> PumpState]
      BY <1>6, <3>1 DEF PumpFan, FanoutTypeOK, PumpState
    <3>. QED  BY <1>6, <3>2, <3>3, <3>4, <3>5 DEF PumpFan, FanoutTypeOK
  <2>3. PumpInvOf(q)'
    <3>1. PumpCounts(q)'
      BY <2>0, <2>1 DEF PumpCounts
    <3>2. PumpOrder(q)'
      BY <2>0, <2>1 DEF PumpOrder
    <3>3. PumpEnds(q)'
      BY <2>0, <2>1 DEF PumpEnds
    <3>. QED  BY <3>1, <3>2, <3>3 DEF PumpInvOf
  <2>4. ASSUME NEW r \in Query, r # q PROVE PumpInvOf(r)'
    <3>1. PumpInvOf(r)
      BY DEF PumpInv
    <3>2. /\ held'[r] = held[r] /\ pump'[r] = pump[r] /\ fanned'[r] = fanned[r]
          /\ last'[r] = last[r] /\ events'[r] = events[r] /\ ended'[r] = ended[r]
          /\ stopped'[r] = stopped[r]
      BY <1>6, <2>4 DEF PumpFan, FanoutTypeOK
    <3>. QED  BY <3>1, <3>2, PumpFrame
  <2>. QED  BY <2>2, <2>3, <2>4 DEF PumpInv
<1>7. ASSUME NEW q \in Query, PumpSeesEnd(q) PROVE IndInv'
  <2>0. /\ PumpCounts(q) /\ PumpOrder(q) /\ PumpEnds(q)
        /\ last[q] \in Nat /\ fanned[q] \in Nat /\ Len(events[q]) \in Nat
        /\ ended[q] \in BOOLEAN /\ stopped[q] \in BOOLEAN
    BY DEF FanoutTypeOK, PumpInv, PumpInvOf
  <2>1. /\ pump[q] = "recv"
        /\ pump'[q] = "close"
        /\ events[q] = <<>>
        /\ ended[q]
        /\ held'[q] = held[q] /\ fanned'[q] = fanned[q] /\ last'[q] = last[q]
        /\ events'[q] = events[q] /\ ended'[q] = ended[q] /\ stopped'[q] = stopped[q]
    BY <1>7, HeadTailProperties, AppendProperties DEF PumpSeesEnd, FanoutTypeOK
  <2>2. FanoutTypeOK'
    BY <1>7 DEF PumpSeesEnd, handlerVars, FanoutTypeOK, PumpState, HandlerState
  <2>3. PumpInvOf(q)'
    <3>1. PumpCounts(q)'
      BY <2>0, <2>1 DEF PumpCounts
    <3>2. PumpOrder(q)'
      BY <2>0, <2>1 DEF PumpOrder
    <3>3. PumpEnds(q)'
      BY <2>0, <2>1 DEF PumpEnds
    <3>. QED  BY <3>1, <3>2, <3>3 DEF PumpInvOf
  <2>4. ASSUME NEW r \in Query, r # q PROVE PumpInvOf(r)'
    <3>1. PumpInvOf(r)
      BY DEF PumpInv
    <3>2. /\ held'[r] = held[r] /\ pump'[r] = pump[r] /\ fanned'[r] = fanned[r]
          /\ last'[r] = last[r] /\ events'[r] = events[r] /\ ended'[r] = ended[r]
          /\ stopped'[r] = stopped[r]
      BY <1>7, <2>4 DEF PumpSeesEnd, FanoutTypeOK
    <3>. QED  BY <3>1, <3>2, PumpFrame
  <2>. QED  BY <2>2, <2>3, <2>4 DEF PumpInv
<1>8. ASSUME NEW q \in Query, PumpClose(q) PROVE IndInv'
  <2>0. /\ PumpCounts(q) /\ PumpOrder(q) /\ PumpEnds(q)
        /\ last[q] \in Nat /\ fanned[q] \in Nat /\ Len(events[q]) \in Nat
        /\ ended[q] \in BOOLEAN /\ stopped[q] \in BOOLEAN
    BY DEF FanoutTypeOK, PumpInv, PumpInvOf
  <2>1. /\ pump[q] = "close"
        /\ pump'[q] = "done"
        /\ stopped'[q] = TRUE
        /\ held'[q] = held[q] /\ fanned'[q] = fanned[q] /\ last'[q] = last[q]
        /\ events'[q] = events[q] /\ ended'[q] = ended[q]
    BY <1>8, HeadTailProperties, AppendProperties DEF PumpClose, FanoutTypeOK
  <2>2. FanoutTypeOK'
    <3>1. closes' \in [Handler -> Nat]
      <4>1. \A h \in Handler : closes[h] \in Nat /\ closes[h] + 1 \in Nat
        <5>1. closes \in [Handler -> Nat]
          BY DEF FanoutTypeOK
        <5>. QED  BY <5>1
      <4>2. closes' = [h \in Handler |-> IF h \in subs[q] THEN closes[h] + 1 ELSE closes[h]]
        BY <1>8 DEF PumpClose
      <4>. QED  BY <4>1, <4>2
    <3>2. /\ stopped' \in [Query -> BOOLEAN]
          /\ subs' \in [Query -> SUBSET Handler]
          /\ pump' \in [Query -> PumpState]
      BY <1>8 DEF PumpClose, FanoutTypeOK, PumpState
    <3>3. UNCHANGED <<events, ended, last, held, fanned, pc, on, queue, response, since, dropped>>
      BY <1>8 DEF PumpClose
    <3>. QED  BY <3>1, <3>2, <3>3 DEF FanoutTypeOK
  <2>3. PumpInvOf(q)'
    <3>1. PumpCounts(q)'
      BY <2>0, <2>1 DEF PumpCounts
    <3>2. PumpOrder(q)'
      BY <2>0, <2>1 DEF PumpOrder
    <3>3. PumpEnds(q)'
      BY <2>0, <2>1 DEF PumpEnds
    <3>. QED  BY <3>1, <3>2, <3>3 DEF PumpInvOf
  <2>4. ASSUME NEW r \in Query, r # q PROVE PumpInvOf(r)'
    <3>1. PumpInvOf(r)
      BY DEF PumpInv
    <3>2. /\ held'[r] = held[r] /\ pump'[r] = pump[r] /\ fanned'[r] = fanned[r]
          /\ last'[r] = last[r] /\ events'[r] = events[r] /\ ended'[r] = ended[r]
          /\ stopped'[r] = stopped[r]
      BY <1>8, <2>4 DEF PumpClose, FanoutTypeOK
    <3>. QED  BY <3>1, <3>2, PumpFrame
  <2>. QED  BY <2>2, <2>3, <2>4 DEF PumpInv
<1>9. ASSUME NEW h \in Handler, Open(h) \/ Refuse(h) \/ SeeClosed(h) \/ Client(h)
      PROVE  IndInv'
  <2>. USE <1>9 DEF Open, Refuse, SeeClosed, Client, KeepAlive, Written, Disconnect, queryVars
  <2>1. FanoutTypeOK'
    <3>1. pc' \in [Handler -> HandlerState]
      BY DEF FanoutTypeOK, HandlerState
    <3>2. UNCHANGED <<queryVars, on, queue, closes, response, since, dropped>>
      OBVIOUS
    <3>. QED  BY ONLY FanoutTypeOK, <3>1, <3>2 DEF FanoutTypeOK, queryVars
  <2>2. PumpInv'
    BY DEF PumpInv, PumpInvOf, PumpCounts, PumpOrder, PumpEnds
  <2>. QED  BY <2>1, <2>2
<1>10. ASSUME NEW h \in Handler, Subscribe(h) PROVE IndInv'
  <2>. USE <1>10 DEF Subscribe
  <2>1. FanoutTypeOK'
    <3>1. on[h] \in Query
      BY DEF FanoutTypeOK
    <3>2. subs' \in [Query -> SUBSET Handler]
      <4>1. CASE stopped[on[h]]
        <5>1. subs' = subs
          BY <4>1
        <5>. QED  BY <5>1 DEF FanoutTypeOK
      <4>2. CASE ~stopped[on[h]]
        <5>1. subs' = [subs EXCEPT ![on[h]] = subs[on[h]] \cup {h}]
          BY <4>2
        <5>. HIDE DEF Subscribe
        <5>. QED  BY <3>1, <5>1 DEF FanoutTypeOK
      <4>. QED  BY <4>1, <4>2
    <3>3. closes' \in [Handler -> Nat]
      <4>1. CASE stopped[on[h]]
        <5>1. closes' = [closes EXCEPT ![h] = closes[h] + 1]
          BY <4>1
        <5>. HIDE DEF Subscribe
        <5>. QED  BY <5>1 DEF FanoutTypeOK
      <4>2. CASE ~stopped[on[h]]
        <5>1. closes' = closes
          BY <4>2
        <5>. QED  BY <5>1 DEF FanoutTypeOK
      <4>. QED  BY <4>1, <4>2
    <3>4. pc' \in [Handler -> HandlerState] /\ since' \in [Handler -> 0..MaxEvent]
      BY <3>1 DEF FanoutTypeOK, HandlerState
    <3>. QED  BY <3>2, <3>3, <3>4 DEF FanoutTypeOK
  <2>2. PumpInv'
    BY DEF PumpInv, PumpInvOf, PumpCounts, PumpOrder, PumpEnds
  <2>. QED  BY <2>1, <2>2
<1>11. ASSUME NEW h \in Handler, Receive(h) PROVE IndInv'
  <2>. USE <1>11 DEF Receive, queryVars
  <2>1. FanoutTypeOK'
    <3>1. /\ Head(queue[h]) \in 1..MaxEvent
          /\ Tail(queue[h]) \in Seq(1..MaxEvent)
          /\ Len(Tail(queue[h])) = Len(queue[h]) - 1
      BY HeadTailProperties DEF FanoutTypeOK
    <3>2. queue' \in [Handler -> Seq(1..MaxEvent)]
      BY <3>1 DEF FanoutTypeOK
    <3>3. response' \in [Handler -> Seq(1..MaxEvent)]
      BY <3>1 DEF FanoutTypeOK
    <3>4. \A g \in Handler : Len(queue'[g]) <= SubCap
      BY <3>1 DEF FanoutTypeOK
    <3>5. pc' \in [Handler -> HandlerState]
      BY DEF FanoutTypeOK, HandlerState
    <3>. QED  BY <3>2, <3>3, <3>4, <3>5 DEF FanoutTypeOK
  <2>2. PumpInv'
    BY DEF PumpInv, PumpInvOf, PumpCounts, PumpOrder, PumpEnds
  <2>. QED  BY <2>1, <2>2
<1>12. ASSUME NEW h \in Handler, Unsubscribe(h) PROVE IndInv'
  <2>. USE <1>12 DEF Unsubscribe
  <2>1. FanoutTypeOK'
    <3>1. on[h] \in Query
      BY DEF FanoutTypeOK
    <3>2. subs' \in [Query -> SUBSET Handler] /\ closes' \in [Handler -> Nat]
      <4>1. CASE h \in subs[on[h]]
        <5>1. /\ subs' = [subs EXCEPT ![on[h]] = subs[on[h]] \ {h}]
              /\ closes' = [closes EXCEPT ![h] = closes[h] + 1]
          BY <4>1
        <5>. HIDE DEF Unsubscribe
        <5>. QED  BY <3>1, <5>1 DEF FanoutTypeOK
      <4>2. CASE h \notin subs[on[h]]
        BY <4>2 DEF FanoutTypeOK
      <4>. QED  BY <4>1, <4>2
    <3>3. pc' \in [Handler -> HandlerState]
      BY DEF FanoutTypeOK, HandlerState
    <3>. QED  BY <3>2, <3>3 DEF FanoutTypeOK
  <2>2. PumpInv'
    BY DEF PumpInv, PumpInvOf, PumpCounts, PumpOrder, PumpEnds
  <2>. QED  BY <2>1, <2>2
<1>13. CASE UNCHANGED fanoutVars
  <2>. USE <1>13 DEF fanoutVars, queryVars, handlerVars
  <2>1. FanoutTypeOK'
    BY DEF FanoutTypeOK
  <2>2. PumpInv'
    BY DEF PumpInv, PumpInvOf, PumpCounts, PumpOrder, PumpEnds
  <2>. QED  BY <2>1, <2>2
<1>. QED
  BY <1>1, <1>2, <1>3, <1>4, <1>5, <1>6, <1>7, <1>8, <1>9, <1>10, <1>11, <1>12, <1>13
  DEF FanoutNext, Produce, Pump, Respond, FanoutDone

LEMMA FanoutInductive == FanoutSafetySpec => []IndInv
<1>1. FanoutInit => IndInv
  BY InitIndInv
<1>2. IndInv /\ [FanoutNext]_fanoutVars => IndInv'
  BY NextIndInv
<1>. QED  BY <1>1, <1>2, PTL DEF FanoutSafetySpec

\* The types of the fan-out's variables hold, and its two channels stay within their
\* capacities, in every state of every behaviour.
THEOREM FanoutTypeCorrect == FanoutSafetySpec => []FanoutTypeOK
<1>1. IndInv => FanoutTypeOK
  BY DEF IndInv
<1>. QED  BY <1>1, FanoutInductive, PTL

-----------------------------------------------------------------------------
(* Who holds a handler's channel                                           *)

\* A handler is subscribed to its own query only, and then its channel is open and the
\* query runs; a reader that is not subscribed was closed by the pump's end; one that
\* has unsubscribed was closed, once, by the pump or by itself.
SubscriberInvOf(h) ==
    /\ \A q \in Query : h \in subs[q] => q = on[h]
    /\ h \in subs[on[h]] =>
            pc[h] \in {"reading", "writing", "leaving"} /\ closes[h] = 0 /\ ~stopped[on[h]]
    /\ pc[h] \in {"reading", "writing", "leaving"} /\ h \notin subs[on[h]] =>
            closes[h] = 1 /\ stopped[on[h]]
    /\ pc[h] \in {"idle", "got", "refused"} => closes[h] = 0
    /\ pc[h] = "gone" => closes[h] = 1

SubscriberInv == \A h \in Handler : SubscriberInvOf(h)

LEMMA InitSubscriberInv == FanoutInit => SubscriberInv
<1>. SUFFICES ASSUME FanoutInit, NEW h \in Handler PROVE SubscriberInvOf(h)
  BY DEF SubscriberInv
<1>1. on[h] \in Query
  BY DEF FanoutInit
<1>. QED  BY <1>1 DEF FanoutInit, SubscriberInvOf

\* A step that changes neither the subscribers, nor what is stopped, nor the channels.
LEMMA SubscriberFrame ==
  ASSUME NEW h \in Handler, SubscriberInvOf(h),
         subs' = subs, stopped' = stopped, on' = on, closes'[h] = closes[h],
         pc'[h] = pc[h]
  PROVE  SubscriberInvOf(h)'
BY DEF SubscriberInvOf

LEMMA NextSubscriberInv ==
  IndInv /\ SubscriberInv /\ [FanoutNext]_fanoutVars => SubscriberInv'
<1>. SUFFICES ASSUME IndInv, SubscriberInv, [FanoutNext]_fanoutVars, NEW h \in Handler
              PROVE  SubscriberInvOf(h)'
  BY DEF SubscriberInv
<1>0. /\ SubscriberInvOf(h)
      /\ FanoutTypeOK
      /\ on[h] \in Query
      /\ closes[h] \in Nat
  BY DEF SubscriberInv, IndInv, FanoutTypeOK
<1>1. ASSUME NEW q \in Query, Produce(q) \/ PumpStart(q) \/ PumpReceive(q)
                                \/ PumpFan(q) \/ PumpSeesEnd(q)
      PROVE  SubscriberInvOf(h)'
  <2>1. subs' = subs /\ stopped' = stopped /\ on' = on /\ closes' = closes /\ pc' = pc
    BY <1>1 DEF Produce, Emit, Handover, End, PumpStart, PumpReceive, PumpFan, PumpSeesEnd,
                handlerVars
  <2>. QED  BY <1>0, <2>1, SubscriberFrame
<1>2. ASSUME NEW q \in Query, PumpClose(q) PROVE SubscriberInvOf(h)'
  <2>1. /\ subs' = [subs EXCEPT ![q] = {}]
        /\ stopped' = [stopped EXCEPT ![q] = TRUE]
        /\ on' = on /\ pc' = pc
        /\ closes'[h] = IF h \in subs[q] THEN closes[h] + 1 ELSE closes[h]
    BY <1>2 DEF PumpClose
  <2>2. CASE on[h] = q
    BY <1>0, <2>1, <2>2 DEF SubscriberInvOf, FanoutTypeOK
  <2>3. CASE on[h] # q
    BY <1>0, <2>1, <2>3 DEF SubscriberInvOf, FanoutTypeOK
  <2>. QED  BY <2>2, <2>3
<1>3. ASSUME NEW g \in Handler, Open(g) \/ Refuse(g) \/ SeeClosed(g) \/ Client(g)
      PROVE  SubscriberInvOf(h)'
  <2>1. /\ subs' = subs /\ stopped' = stopped /\ on' = on /\ closes' = closes
        /\ \/ pc[g] = "idle" /\ pc' = [pc EXCEPT ![g] = "got"]
           \/ pc[g] = "idle" /\ pc' = [pc EXCEPT ![g] = "refused"]
           \/ pc[g] = "reading" /\ pc' = [pc EXCEPT ![g] = "writing"]
           \/ pc[g] = "writing" /\ pc' = [pc EXCEPT ![g] = "reading"]
           \/ pc[g] \in {"reading", "writing"} /\ pc' = [pc EXCEPT ![g] = "leaving"]
    BY <1>3 DEF Open, Refuse, SeeClosed, Client, KeepAlive, Written, Disconnect, queryVars
  <2>2. CASE g = h
    BY <1>0, <2>1, <2>2 DEF SubscriberInvOf, FanoutTypeOK
  <2>3. CASE g # h
    <3>1. pc'[h] = pc[h]
      <4>1. pc \in [Handler -> HandlerState]
        BY <1>0 DEF FanoutTypeOK
      <4>. QED  BY <2>1, <2>3, <4>1
    <3>. QED  BY <1>0, <2>1, <3>1, SubscriberFrame
  <2>. QED  BY <2>2, <2>3
<1>4. ASSUME NEW g \in Handler, Subscribe(g) PROVE SubscriberInvOf(h)'
  <2>1. /\ pc[g] = "got" /\ pc' = [pc EXCEPT ![g] = "reading"]
        /\ stopped' = stopped /\ on' = on
        /\ on[g] \in Query
    BY <1>0, <1>4 DEF Subscribe, FanoutTypeOK
  <2>2. CASE stopped[on[g]]
    <3>1. subs' = subs /\ closes' = [closes EXCEPT ![g] = closes[g] + 1]
      BY <1>4, <2>2 DEF Subscribe
    <3>2. CASE g = h
      BY <1>0, <2>1, <2>2, <3>1, <3>2 DEF SubscriberInvOf, FanoutTypeOK
    <3>3. CASE g # h
      <4>1. pc'[h] = pc[h] /\ closes'[h] = closes[h]
        BY <1>0, <2>1, <3>1, <3>3 DEF FanoutTypeOK
      <4>. QED  BY <1>0, <2>1, <3>1, <4>1, SubscriberFrame
    <3>. QED  BY <3>2, <3>3
  <2>3. CASE ~stopped[on[g]]
    <3>1. subs' = [subs EXCEPT ![on[g]] = subs[on[g]] \cup {g}] /\ closes' = closes
      BY <1>4, <2>3 DEF Subscribe
    <3>2. CASE g = h
      BY <1>0, <2>1, <2>3, <3>1, <3>2 DEF SubscriberInvOf, FanoutTypeOK
    <3>3. CASE g # h
      <4>1. /\ pc'[h] = pc[h]
            /\ \A q \in Query : h \in subs'[q] <=> h \in subs[q]
        BY <1>0, <2>1, <3>1, <3>3 DEF FanoutTypeOK
      <4>. QED  BY <1>0, <2>1, <3>1, <4>1 DEF SubscriberInvOf
    <3>. QED  BY <3>2, <3>3
  <2>. QED  BY <2>2, <2>3
<1>5. ASSUME NEW g \in Handler, Receive(g) PROVE SubscriberInvOf(h)'
  <2>1. /\ subs' = subs /\ stopped' = stopped /\ on' = on /\ closes' = closes
        /\ pc[g] = "reading" /\ pc' = [pc EXCEPT ![g] = "writing"]
    BY <1>5 DEF Receive, queryVars
  <2>2. CASE g = h
    BY <1>0, <2>1, <2>2 DEF SubscriberInvOf, FanoutTypeOK
  <2>3. CASE g # h
    <3>1. pc'[h] = pc[h]
      BY <1>0, <2>1, <2>3 DEF FanoutTypeOK
    <3>. QED  BY <1>0, <2>1, <3>1, SubscriberFrame
  <2>. QED  BY <2>2, <2>3
<1>6. ASSUME NEW g \in Handler, Unsubscribe(g) PROVE SubscriberInvOf(h)'
  <2>1. /\ pc[g] = "leaving" /\ pc' = [pc EXCEPT ![g] = "gone"]
        /\ stopped' = stopped /\ on' = on
        /\ on[g] \in Query
    BY <1>0, <1>6 DEF Unsubscribe, FanoutTypeOK
  <2>2. CASE g \in subs[on[g]]
    <3>1. /\ subs' = [subs EXCEPT ![on[g]] = subs[on[g]] \ {g}]
          /\ closes' = [closes EXCEPT ![g] = closes[g] + 1]
      BY <1>6, <2>2 DEF Unsubscribe
    <3>2. CASE g = h
      BY <1>0, <2>1, <2>2, <3>1, <3>2 DEF SubscriberInvOf, FanoutTypeOK
    <3>3. CASE g # h
      <4>1. /\ pc'[h] = pc[h] /\ closes'[h] = closes[h]
            /\ \A q \in Query : h \in subs'[q] <=> h \in subs[q]
        BY <1>0, <2>1, <3>1, <3>3 DEF FanoutTypeOK
      <4>. QED  BY <1>0, <2>1, <4>1 DEF SubscriberInvOf
    <3>. QED  BY <3>2, <3>3
  <2>3. CASE g \notin subs[on[g]]
    <3>1. subs' = subs /\ closes' = closes
      BY <1>6, <2>3 DEF Unsubscribe
    <3>2. CASE g = h
      BY <1>0, <2>1, <2>3, <3>1, <3>2 DEF SubscriberInvOf, FanoutTypeOK
    <3>3. CASE g # h
      <4>1. pc'[h] = pc[h]
        BY <1>0, <2>1, <3>3 DEF FanoutTypeOK
      <4>. QED  BY <1>0, <2>1, <3>1, <4>1, SubscriberFrame
    <3>. QED  BY <3>2, <3>3
  <2>. QED  BY <2>2, <2>3
<1>7. CASE UNCHANGED fanoutVars
  <2>1. subs' = subs /\ stopped' = stopped /\ on' = on /\ closes' = closes /\ pc' = pc
    BY <1>7 DEF fanoutVars, queryVars, handlerVars
  <2>. QED  BY <1>0, <2>1, SubscriberFrame
<1>. QED
  BY <1>1, <1>2, <1>3, <1>4, <1>5, <1>6, <1>7
  DEF FanoutNext, Pump, Respond, FanoutDone

LEMMA FanoutSubscribers == FanoutSafetySpec => [](IndInv /\ SubscriberInv)
<1>1. FanoutInit => SubscriberInv
  BY InitSubscriberInv
<1>2. IndInv /\ SubscriberInv /\ [FanoutNext]_fanoutVars => SubscriberInv'
  BY NextSubscriberInv
<1>. QED  BY <1>1, <1>2, FanoutInductive, PTL DEF FanoutSafetySpec

\* No channel of the fan-out is sent on after it is closed, or closed twice.
THEOREM FanoutChannelDiscipline == FanoutSafetySpec => []ChannelDiscipline
<1>1. IndInv /\ SubscriberInv => ChannelDiscipline
  <2>. SUFFICES ASSUME IndInv, SubscriberInv PROVE ChannelDiscipline
    OBVIOUS
  <2>1. ASSUME NEW q \in Query, NEW h \in subs[q] PROVE closes[h] = 0
    <3>1. h \in Handler /\ SubscriberInvOf(h)
      BY DEF IndInv, FanoutTypeOK, SubscriberInv
    <3>. QED  BY <3>1 DEF SubscriberInvOf
  <2>2. ASSUME NEW h \in Handler PROVE closes[h] <= 1
    <3>1. SubscriberInvOf(h) /\ pc[h] \in HandlerState
      BY DEF IndInv, FanoutTypeOK, SubscriberInv
    <3>2. closes[h] = 0 \/ closes[h] = 1
      BY <3>1 DEF SubscriberInvOf, HandlerState
    <3>. QED  BY <3>2
  <2>. QED  BY <2>1, <2>2 DEF ChannelDiscipline
<1>. QED  BY <1>1, FanoutSubscribers, PTL

\* No handler waits on a channel that nobody is left to close.
THEOREM FanoutReaderIsServed == FanoutSafetySpec => []ReaderIsServed
<1>1. IndInv /\ SubscriberInv => ReaderIsServed
  <2>. SUFFICES ASSUME IndInv, SubscriberInv, NEW h \in Handler,
                       pc[h] \in {"reading", "writing"}, closes[h] = 0
                PROVE  h \in subs[on[h]] /\ pump[on[h]] # "done"
    BY DEF ReaderIsServed
  <2>1. SubscriberInvOf(h) /\ on[h] \in Query /\ PumpEnds(on[h])
    BY DEF IndInv, FanoutTypeOK, SubscriberInv, PumpInv, PumpInvOf
  <2>2. h \in subs[on[h]] /\ ~stopped[on[h]]
    BY <2>1 DEF SubscriberInvOf
  <2>. QED  BY <2>1, <2>2 DEF PumpEnds
<1>. QED  BY <1>1, FanoutSubscribers, PTL

-----------------------------------------------------------------------------
(* What a client has read                                                  *)

\* Stream(h) holds events copied since h subscribed, in increasing order, and all of them
\* as long as it reads and no event was dropped for it.
StreamInvOf(h) ==
    /\ pc[h] \in {"idle", "got", "refused"} =>
            queue[h] = <<>> /\ response[h] = <<>> /\ dropped[h] = 0
    /\ since[h] <= fanned[on[h]]
    /\ \A i \in 1..Len(Stream(h)) : since[h] < Stream(h)[i] /\ Stream(h)[i] <= fanned[on[h]]
    /\ \A i, j \in 1..Len(Stream(h)) : i < j => Stream(h)[i] < Stream(h)[j]
    /\ pc[h] \in {"reading", "writing"} /\ dropped[h] = 0 =>
            /\ Len(Stream(h)) = fanned[on[h]] - since[h]
            /\ \A i \in 1..Len(Stream(h)) : Stream(h)[i] = since[h] + i

StreamInv == \A h \in Handler : StreamInvOf(h)

LEMMA StreamType ==
  ASSUME FanoutTypeOK, NEW h \in Handler
  PROVE  /\ Stream(h) \in Seq(1..MaxEvent)
         /\ Len(Stream(h)) = Len(response[h]) + Len(queue[h])
         /\ Len(Stream(h)) \in Nat
BY ConcatProperties, FanoutAssumption DEF FanoutTypeOK, Stream

LEMMA StreamNat ==
  ASSUME FanoutTypeOK, NEW h \in Handler
  PROVE  \A i \in 1..Len(Stream(h)) : Stream(h)[i] \in Nat
<1>. SUFFICES ASSUME NEW i \in 1..Len(Stream(h)) PROVE Stream(h)[i] \in Nat
  OBVIOUS
<1>. DEFINE S == 1..MaxEvent
<1>1. Stream(h) \in Seq(S)
  BY StreamType
<1>2. \A e \in S : e \in Nat
  BY FanoutAssumption
<1>. HIDE DEF S
<1>3. Stream(h)[i] \in S
  BY <1>1, ElementOfSeq
<1>. QED  BY <1>2, <1>3

LEMMA InitStreamInv == FanoutInit => StreamInv
<1>. SUFFICES ASSUME FanoutInit, NEW h \in Handler PROVE StreamInvOf(h)
  BY DEF StreamInv
<1>1. on[h] \in Query /\ queue[h] = <<>> /\ response[h] = <<>> /\ dropped[h] = 0
      /\ since[h] = 0 /\ fanned[on[h]] = 0 /\ pc[h] = "idle"
  BY DEF FanoutInit
<1>2. Stream(h) = <<>> /\ Len(Stream(h)) = 0
  BY <1>1 DEF Stream
<1>. QED  BY <1>1, <1>2 DEF StreamInvOf

\* A step that leaves the client's stream and the events copied by its query alone, and
\* does not make it a reader.
LEMMA StreamFrame ==
  ASSUME NEW h \in Handler, StreamInvOf(h),
         Stream(h)' = Stream(h), queue'[h] = queue[h], response'[h] = response[h],
         since'[h] = since[h], dropped'[h] = dropped[h],
         on' = on, fanned'[on[h]] = fanned[on[h]],
         pc'[h] \in {"idle", "got", "refused"} => pc[h] \in {"idle", "got", "refused"},
         pc'[h] \in {"reading", "writing"} => pc[h] \in {"reading", "writing"}
  PROVE  StreamInvOf(h)'
BY DEF StreamInvOf

\* The same when nothing of the handler's channel changes.
LEMMA StreamFrameQueue ==
  ASSUME NEW h \in Handler, StreamInvOf(h),
         queue'[h] = queue[h], response'[h] = response[h],
         since'[h] = since[h], dropped'[h] = dropped[h],
         on' = on, fanned'[on[h]] = fanned[on[h]],
         pc'[h] \in {"idle", "got", "refused"} => pc[h] \in {"idle", "got", "refused"},
         pc'[h] \in {"reading", "writing"} => pc[h] \in {"reading", "writing"}
  PROVE  StreamInvOf(h)'
<1>1. Stream(h)' = Stream(h)
  BY DEF Stream
<1>. QED  BY <1>1, StreamFrame

\* Facts about sequences: appending to the second part of a concatenation, and moving its
\* head to the first.
LEMMA ConcatAppend ==
  ASSUME NEW S, NEW r \in Seq(S), NEW q \in Seq(S), NEW e \in S
  PROVE  r \o Append(q, e) = Append(r \o q, e)
<1>1. <<e>> \in Seq(S)
  OBVIOUS
<1>2. r \o q \in Seq(S)
  BY ConcatProperties
<1>3. Append(q, e) = q \o <<e>>
  BY AppendIsConcat
<1>4. Append(r \o q, e) = (r \o q) \o <<e>>
  BY <1>2, AppendIsConcat
<1>5. (r \o q) \o <<e>> = r \o (q \o <<e>>)
  <2>. DEFINE u == <<e>>
  <2>1. u \in Seq(S)
    BY <1>1
  <2>. HIDE DEF u
  <2>2. (r \o q) \o u = r \o (q \o u)
    BY <2>1, ConcatAssociative
  <2>. QED  BY <2>2 DEF u
<1>. QED  BY <1>3, <1>4, <1>5

LEMMA HeadTailConcat ==
  ASSUME NEW S, NEW q \in Seq(S), q # <<>>
  PROVE  <<Head(q)>> \o Tail(q) = q
<1>1. /\ Head(q) \in S /\ Tail(q) \in Seq(S) 
      /\ Len(Tail(q)) = Len(q) - 1
      /\ \A i \in 1..Len(Tail(q)) : Tail(q)[i] = q[i + 1]
  BY HeadTailProperties
<1>2. Head(q) = q[1]
  OBVIOUS
<1>2b. <<Head(q)>> \in Seq(S) /\ Len(<<Head(q)>>) = 1 /\ <<Head(q)>>[1] = Head(q)
  BY <1>1
<1>3. Len(q) \in Nat \ {0}
  BY EmptySeq
<1>4. /\ <<Head(q)>> \o Tail(q) \in Seq(S)
      /\ Len(<<Head(q)>> \o Tail(q)) = Len(q)
      /\ \A i \in 1..Len(q) : (<<Head(q)>> \o Tail(q))[i] =
              IF i <= 1 THEN <<Head(q)>>[i] ELSE Tail(q)[i - 1]
  BY <1>1, <1>2b, <1>3, ConcatProperties
<1>5. ASSUME NEW i \in 1..Len(q) PROVE (<<Head(q)>> \o Tail(q))[i] = q[i]
  <2>1. CASE i = 1
    BY <1>2, <1>2b, <1>3, <1>4, <2>1
  <2>2. CASE i # 1
    BY <1>1, <1>3, <1>4, <2>2
  <2>. QED  BY <2>1, <2>2
<1>. QED  BY <1>4, <1>5, SeqEqual

LEMMA MoveHead ==
  ASSUME NEW S, NEW r \in Seq(S), NEW q \in Seq(S), q # <<>>
  PROVE  Append(r, Head(q)) \o Tail(q) = r \o q
<1>1. Head(q) \in S /\ Tail(q) \in Seq(S)
  BY HeadTailProperties
<1>2. <<Head(q)>> \in Seq(S)
  BY <1>1
<1>3. Append(r, Head(q)) = r \o <<Head(q)>>
  BY <1>1, AppendIsConcat
<1>4. (r \o <<Head(q)>>) \o Tail(q) = r \o (<<Head(q)>> \o Tail(q))
  <2>. DEFINE u == <<Head(q)>>  t == Tail(q)
  <2>1. u \in Seq(S) /\ t \in Seq(S)
    BY <1>1, <1>2
  <2>. HIDE DEF u, t
  <2>2. (r \o u) \o t = r \o (u \o t)
    BY <2>1, ConcatAssociative
  <2>. QED  BY <2>2 DEF u, t
<1>. QED  BY <1>3, <1>4, HeadTailConcat
\* What a copy of the next event does to the stream of a reader.
LEMMA StreamAppend ==
  ASSUME FanoutTypeOK, NEW h \in Handler, NEW e \in 1..MaxEvent,
         queue'[h] = Append(queue[h], e), response'[h] = response[h]
  PROVE  /\ Len(Stream(h)') = Len(Stream(h)) + 1
         /\ \A i \in 1..Len(Stream(h)) : Stream(h)'[i] = Stream(h)[i]
         /\ Stream(h)'[Len(Stream(h)) + 1] = e
<1>. DEFINE S == 1..MaxEvent
<1>1. response[h] \in Seq(S) /\ queue[h] \in Seq(S) /\ e \in S
  BY DEF FanoutTypeOK
<1>2. Stream(h) \in Seq(S)
  BY StreamType
<1>. HIDE DEF S
<1>3. response[h] \o Append(queue[h], e) = Append(response[h] \o queue[h], e)
  <2>. DEFINE r == response[h]  q == queue[h]
  <2>1. r \in Seq(S) /\ q \in Seq(S)
    BY <1>1
  <2>. HIDE DEF r, q
  <2>2. r \o Append(q, e) = Append(r \o q, e)
    BY <1>1, <2>1, ConcatAppend
  <2>. QED  BY <2>2 DEF r, q
<1>4. Stream(h)' = Append(Stream(h), e)
  BY <1>3 DEF Stream
<1>5. /\ Len(Append(Stream(h), e)) = Len(Stream(h)) + 1
      /\ \A i \in 1..Len(Stream(h)) : Append(Stream(h), e)[i] = Stream(h)[i]
      /\ Append(Stream(h), e)[Len(Stream(h)) + 1] = e
  BY <1>1, <1>2, AppendProperties
<1>. QED  BY <1>4, <1>5

\* Reading moves the first event of the channel to the response: the stream is the same.
LEMMA StreamReceive ==
  ASSUME FanoutTypeOK, NEW h \in Handler, queue[h] # <<>>,
         queue'[h] = Tail(queue[h]), response'[h] = Append(response[h], Head(queue[h]))
  PROVE  Stream(h)' = Stream(h)
<1>1. response[h] \in Seq(1..MaxEvent) /\ queue[h] \in Seq(1..MaxEvent)
  BY DEF FanoutTypeOK
<1>2. Append(response[h], Head(queue[h])) \o Tail(queue[h]) = response[h] \o queue[h]
  BY <1>1, MoveHead
<1>. QED  BY <1>2 DEF Stream

LEMMA NextStreamInv ==
  IndInv /\ SubscriberInv /\ StreamInv /\ [FanoutNext]_fanoutVars => StreamInv'
<1>. SUFFICES ASSUME IndInv, SubscriberInv, StreamInv, [FanoutNext]_fanoutVars,
                     NEW h \in Handler
              PROVE  StreamInvOf(h)'
  BY DEF StreamInv
<1>0. /\ StreamInvOf(h)
      /\ SubscriberInvOf(h)
      /\ FanoutTypeOK
      /\ on[h] \in Query
      /\ PumpInvOf(on[h])
  BY DEF StreamInv, SubscriberInv, IndInv, FanoutTypeOK, PumpInv
<1>1. ASSUME UNCHANGED <<pc, on, queue, response, since, dropped, fanned>>
      PROVE  StreamInvOf(h)'
  BY <1>0, <1>1, StreamFrameQueue
<1>2. ASSUME NEW q \in Query, Produce(q) \/ PumpStart(q) \/ PumpReceive(q)
                                \/ PumpSeesEnd(q) \/ PumpClose(q)
      PROVE  StreamInvOf(h)'
  <2>1. UNCHANGED <<pc, on, queue, response, since, dropped, fanned>>
    BY <1>2 DEF Produce, Emit, Handover, End, PumpStart, PumpReceive, PumpSeesEnd, PumpClose,
                handlerVars
  <2>. QED  BY <1>1, <2>1
<1>3. ASSUME NEW q \in Query, PumpFan(q) PROVE StreamInvOf(h)'
  <2>1. /\ pump[q] = "fan" /\ fanned' = [fanned EXCEPT ![q] = fanned[q] + 1]
        /\ pc' = pc /\ on' = on /\ response' = response /\ since' = since
        /\ queue'[h] = IF h \in subs[q] /\ HasRoom(h) THEN Append(queue[h], held[q])
                                                      ELSE queue[h]
        /\ dropped'[h] = IF h \in subs[q] /\ ~HasRoom(h) THEN dropped[h] + 1
                                                         ELSE dropped[h]
    BY <1>3 DEF PumpFan
  <2>2. CASE on[h] # q
    <3>1. h \notin subs[q]
      BY <1>0, <2>2 DEF SubscriberInvOf
    <3>2. fanned'[on[h]] = fanned[on[h]]
      BY <1>0, <2>1, <2>2 DEF FanoutTypeOK
    <3>. QED  BY <1>0, <2>1, <3>1, <3>2, StreamFrameQueue
  <2>3. CASE on[h] = q
    <3>1. /\ fanned'[q] = fanned[q] + 1 /\ held[q] = fanned[q] + 1
          /\ fanned[q] \in Nat /\ since[h] \in Nat /\ dropped[h] \in Nat
          /\ held[q] \in 1..MaxEvent
          /\ ~stopped[q]
      BY <1>0, <2>1, <2>3, FanoutAssumption
      DEF PumpInvOf, PumpCounts, PumpEnds, FanoutTypeOK
    <3>2. Len(Stream(h)) \in Nat /\ Stream(h) \in Seq(1..MaxEvent)
      BY <1>0, StreamType
    <3>3. CASE h \in subs[q] /\ HasRoom(h)
      <4>1. queue'[h] = Append(queue[h], held[q]) /\ dropped'[h] = dropped[h]
        BY <2>1, <3>3
      <4>2. /\ Len(Stream(h)') = Len(Stream(h)) + 1
            /\ \A i \in 1..Len(Stream(h)) : Stream(h)'[i] = Stream(h)[i]
            /\ Stream(h)'[Len(Stream(h)) + 1] = fanned[q] + 1
        BY <1>0, <2>1, <3>1, <4>1, StreamAppend
      <4>3. pc[h] \in {"reading", "writing", "leaving"}
        BY <1>0, <2>3, <3>3 DEF SubscriberInvOf
      <4>4. \A i \in 1..Len(Stream(h)) : Stream(h)[i] \in Nat
        BY <1>0, StreamNat
      <4>5. /\ \A i \in 1..Len(Stream(h)) : since[h] < Stream(h)[i] /\ Stream(h)[i] <= fanned[q]
            /\ \A i, j \in 1..Len(Stream(h)) : i < j => Stream(h)[i] < Stream(h)[j]
            /\ since[h] <= fanned[q]
        BY <1>0, <2>3 DEF StreamInvOf
      <4>6. \A i \in 1..Len(Stream(h)') :
                since[h] < Stream(h)'[i] /\ Stream(h)'[i] <= fanned[q] + 1
        <5>. SUFFICES ASSUME NEW i \in 1..Len(Stream(h)')
                      PROVE  since[h] < Stream(h)'[i] /\ Stream(h)'[i] <= fanned[q] + 1
          OBVIOUS
        <5>1. CASE i \in 1..Len(Stream(h))
          BY <3>1, <4>2, <4>4, <4>5, <5>1
        <5>2. CASE i = Len(Stream(h)) + 1
          BY <3>1, <4>2, <4>5, <5>2
        <5>. QED  BY <3>2, <4>2, <5>1, <5>2
      <4>7. \A i, j \in 1..Len(Stream(h)') : i < j => Stream(h)'[i] < Stream(h)'[j]
        <5>. SUFFICES ASSUME NEW i \in 1..Len(Stream(h)'), NEW j \in 1..Len(Stream(h)'), i < j
                      PROVE  Stream(h)'[i] < Stream(h)'[j]
          OBVIOUS
        <5>1. i \in 1..Len(Stream(h))
          BY <3>2, <4>2
        <5>2. CASE j \in 1..Len(Stream(h))
          BY <4>2, <4>5, <5>1, <5>2
        <5>3. CASE j = Len(Stream(h)) + 1
          <6>1. Stream(h)'[i] = Stream(h)[i] /\ Stream(h)[i] \in Nat /\ Stream(h)[i] <= fanned[q]
            BY <4>2, <4>4, <4>5, <5>1
          <6>2. Stream(h)'[j] = fanned[q] + 1
            BY <4>2, <5>3
          <6>3. fanned[q] \in Nat
            BY <3>1
          <6>. QED  BY <6>1, <6>2, <6>3
        <5>. QED  BY <3>2, <4>2, <5>2, <5>3
      <4>8. /\ on'[h] = q /\ fanned'[q] = fanned[q] + 1 /\ since'[h] = since[h]
            /\ pc'[h] = pc[h] /\ dropped'[h] = dropped[h]
        BY <2>1, <2>3, <3>1, <4>1
      <4>9. ASSUME pc'[h] \in {"reading", "writing"}, dropped'[h] = 0
            PROVE  /\ Len(Stream(h)') = fanned'[q] - since'[h]
                   /\ \A i \in 1..Len(Stream(h)') : Stream(h)'[i] = since'[h] + i
        <5>1. /\ Len(Stream(h)) = fanned[q] - since[h]
              /\ \A i \in 1..Len(Stream(h)) : Stream(h)[i] = since[h] + i
          BY <1>0, <2>3, <4>8, <4>9 DEF StreamInvOf
        <5>2. ASSUME NEW i \in 1..Len(Stream(h)') PROVE Stream(h)'[i] = since'[h] + i
          <6>1. CASE i \in 1..Len(Stream(h))
            BY <4>2, <4>8, <5>1, <6>1
          <6>2. CASE i = Len(Stream(h)) + 1
            BY <3>1, <4>2, <4>8, <5>1, <6>2
          <6>. QED  BY <3>2, <4>2, <6>1, <6>2
        <5>3. Len(Stream(h)') = fanned'[q] - since'[h]
          BY <3>1, <4>2, <4>8, <5>1
        <5>. QED  BY <5>2, <5>3
      <4>10. pc'[h] \notin {"idle", "got", "refused"}
        BY <4>3, <4>8
      <4>11. since'[h] <= fanned'[q]
        BY <3>1, <4>5, <4>8
      <4>12. \A i \in 1..Len(Stream(h)') : Stream(h)'[i] <= fanned'[q] /\ since'[h] < Stream(h)'[i]
        BY <4>6, <4>8
      <4>. QED  BY ONLY <4>7, <4>8, <4>9, <4>10, <4>11, <4>12 DEF StreamInvOf
    <3>4. CASE h \in subs[q] /\ ~HasRoom(h)
      <4>1. queue'[h] = queue[h] /\ dropped'[h] = dropped[h] + 1 /\ Stream(h)' = Stream(h)
        BY <2>1, <3>4 DEF Stream
      <4>2. pc[h] \in {"reading", "writing", "leaving"}
        BY <1>0, <2>3, <3>4 DEF SubscriberInvOf
      <4>3. \A i \in 1..Len(Stream(h)) : Stream(h)[i] \in Nat
        BY <1>0, StreamNat
      <4>4. /\ \A i \in 1..Len(Stream(h)) : since[h] < Stream(h)[i] /\ Stream(h)[i] <= fanned[q]
            /\ \A i, j \in 1..Len(Stream(h)) : i < j => Stream(h)[i] < Stream(h)[j]
            /\ since[h] <= fanned[q]
        BY <1>0, <2>3 DEF StreamInvOf
      <4>5. \A i \in 1..Len(Stream(h)) : Stream(h)[i] <= fanned[q] + 1
        BY <3>1, <4>3, <4>4
      <4>6. dropped[h] + 1 # 0
        BY <3>1
      <4>7. since[h] <= fanned[q] + 1
        BY <3>1, <4>4
      <4>. QED  BY <2>1, <2>3, <3>1, <4>1, <4>2, <4>4, <4>5, <4>6, <4>7 DEF StreamInvOf
    <3>5. CASE h \notin subs[q]
      <4>1. /\ queue'[h] = queue[h] /\ dropped'[h] = dropped[h]
            /\ Stream(h)' = Stream(h)
        BY <2>1, <3>5 DEF Stream
      <4>2. pc[h] \notin {"reading", "writing"}
        BY <1>0, <2>3, <3>1, <3>5 DEF SubscriberInvOf
      <4>3. \A i \in 1..Len(Stream(h)) : Stream(h)[i] \in Nat
        BY <1>0, StreamNat
      <4>4. /\ \A i \in 1..Len(Stream(h)) : since[h] < Stream(h)[i] /\ Stream(h)[i] <= fanned[q]
            /\ \A i, j \in 1..Len(Stream(h)) : i < j => Stream(h)[i] < Stream(h)[j]
            /\ since[h] <= fanned[q]
            /\ pc[h] \in {"idle", "got", "refused"} =>
                    queue[h] = <<>> /\ response[h] = <<>> /\ dropped[h] = 0
        BY <1>0, <2>3 DEF StreamInvOf
      <4>5. \A i \in 1..Len(Stream(h)) : Stream(h)[i] <= fanned[q] + 1
        BY <3>1, <4>3, <4>4
      <4>6. since[h] <= fanned[q] + 1
        BY <3>1, <4>4
      <4>. QED  BY <2>1, <2>3, <3>1, <4>1, <4>2, <4>4, <4>5, <4>6 DEF StreamInvOf
    <3>. QED  BY <3>3, <3>4, <3>5
  <2>. QED  BY <2>2, <2>3
<1>4. ASSUME NEW g \in Handler, Open(g) \/ Refuse(g) \/ SeeClosed(g) \/ Client(g)
                                  \/ Unsubscribe(g)
      PROVE  StreamInvOf(h)'
  <2>1. /\ UNCHANGED <<on, queue, response, since, dropped, fanned>>
        /\ \/ pc[g] = "idle" /\ pc' = [pc EXCEPT ![g] = "got"]
           \/ pc[g] = "idle" /\ pc' = [pc EXCEPT ![g] = "refused"]
           \/ pc[g] = "reading" /\ pc' = [pc EXCEPT ![g] = "writing"]
           \/ pc[g] = "writing" /\ pc' = [pc EXCEPT ![g] = "reading"]
           \/ pc[g] \in {"reading", "writing"} /\ pc' = [pc EXCEPT ![g] = "leaving"]
           \/ pc[g] = "leaving" /\ pc' = [pc EXCEPT ![g] = "gone"]
    BY <1>4 DEF Open, Refuse, SeeClosed, Client, KeepAlive, Written, Disconnect, Unsubscribe,
                queryVars
  <2>2. /\ pc'[h] \in {"idle", "got", "refused"} => pc[h] \in {"idle", "got", "refused"}
        /\ pc'[h] \in {"reading", "writing"} => pc[h] \in {"reading", "writing"}
    <3>1. pc \in [Handler -> HandlerState]
      BY <1>0 DEF FanoutTypeOK
    <3>. QED  BY <2>1, <3>1
  <2>. QED  BY <1>0, <2>1, <2>2, StreamFrameQueue
<1>5. ASSUME NEW g \in Handler, Subscribe(g) PROVE StreamInvOf(h)'
  <2>1. /\ pc[g] = "got" /\ pc' = [pc EXCEPT ![g] = "reading"]
        /\ since' = [since EXCEPT ![g] = fanned[on[g]]]
        /\ UNCHANGED <<on, queue, response, dropped, fanned>>
    BY <1>5 DEF Subscribe
  <2>2. CASE g = h
    <3>1. /\ queue'[h] = <<>> /\ response'[h] = <<>> /\ dropped'[h] = 0
          /\ pc'[h] = "reading" /\ since'[h] = fanned[on[h]] /\ fanned[on[h]] \in Nat
      BY <1>0, <2>1, <2>2 DEF StreamInvOf, FanoutTypeOK
    <3>2. Stream(h)' = <<>> /\ Len(Stream(h)') = 0
      BY <3>1 DEF Stream
    <3>. QED  BY <2>1, <3>1, <3>2 DEF StreamInvOf
  <2>3. CASE g # h
    <3>1. pc'[h] = pc[h] /\ since'[h] = since[h]
      BY <1>0, <2>1, <2>3 DEF FanoutTypeOK
    <3>. QED  BY <1>0, <2>1, <3>1, StreamFrameQueue
  <2>. QED  BY <2>2, <2>3
<1>6. ASSUME NEW g \in Handler, Receive(g) PROVE StreamInvOf(h)'
  <2>1. /\ pc[g] = "reading" /\ queue[g] # <<>>
        /\ response' = [response EXCEPT ![g] = Append(response[g], Head(queue[g]))]
        /\ queue' = [queue EXCEPT ![g] = Tail(queue[g])]
        /\ pc' = [pc EXCEPT ![g] = "writing"]
        /\ UNCHANGED <<on, since, dropped, fanned>>
    BY <1>6 DEF Receive, queryVars
  <2>2. CASE g = h
    <3>1. /\ queue'[h] = Tail(queue[h])
          /\ response'[h] = Append(response[h], Head(queue[h]))
      BY <1>0, <2>1, <2>2 DEF FanoutTypeOK
    <3>2. Stream(h)' = Stream(h)
      BY <1>0, <2>1, <2>2, <3>1, StreamReceive
    <3>3. pc[h] = "reading" /\ pc'[h] = "writing"
      BY <1>0, <2>1, <2>2 DEF FanoutTypeOK
    <3>. QED  BY <1>0, <2>1, <3>2, <3>3 DEF StreamInvOf
  <2>3. CASE g # h
    <3>1. queue'[h] = queue[h] /\ response'[h] = response[h] /\ pc'[h] = pc[h]
      BY <1>0, <2>1, <2>3 DEF FanoutTypeOK
    <3>. QED  BY <1>0, <2>1, <3>1, StreamFrameQueue
  <2>. QED  BY <2>2, <2>3
<1>7. CASE UNCHANGED fanoutVars
  BY <1>1, <1>7 DEF fanoutVars, queryVars, handlerVars
<1>. QED
  BY <1>2, <1>3, <1>4, <1>5, <1>6, <1>7
  DEF FanoutNext, Pump, Respond, FanoutDone

LEMMA FanoutStreams == FanoutSafetySpec => [](IndInv /\ SubscriberInv /\ StreamInv)
<1>1. FanoutInit => StreamInv
  BY InitStreamInv
<1>2. IndInv /\ SubscriberInv /\ StreamInv /\ [FanoutNext]_fanoutVars => StreamInv'
  BY NextStreamInv
<1>. QED  BY <1>1, <1>2, FanoutSubscribers, PTL DEF FanoutSafetySpec

\* A client reads events in the order of their emission, none twice.
THEOREM FanoutInOrder == FanoutSafetySpec => []InOrder
<1>1. IndInv /\ SubscriberInv /\ StreamInv => InOrder
  <2>. SUFFICES ASSUME IndInv, StreamInv, NEW h \in Handler
                PROVE  /\ \A i \in 1..Len(Stream(h)) : Stream(h)[i] > since[h]
                       /\ \A i, j \in 1..Len(Stream(h)) : i < j => Stream(h)[i] < Stream(h)[j]
    BY DEF InOrder
  <2>1. StreamInvOf(h) /\ FanoutTypeOK
    BY DEF StreamInv, IndInv
  <2>2. \A i \in 1..Len(Stream(h)) : Stream(h)[i] \in Nat
    BY <2>1, StreamNat
  <2>3. since[h] \in Nat
    <3>1. since[h] \in 0..MaxEvent
      BY <2>1 DEF FanoutTypeOK
    <3>. QED  BY <3>1, FanoutAssumption
  <2>4. \A i \in 1..Len(Stream(h)) : since[h] < Stream(h)[i]
    BY <2>1 DEF StreamInvOf
  <2>5. \A i, j \in 1..Len(Stream(h)) : i < j => Stream(h)[i] < Stream(h)[j]
    BY <2>1 DEF StreamInvOf
  <2>. QED  BY <2>2, <2>3, <2>4, <2>5
<1>. QED  BY <1>1, FanoutStreams, PTL

\* A client whose channel never was full has every event since it subscribed, to the end.
THEOREM FanoutNoSilentLoss == FanoutSafetySpec => []NoSilentLoss
<1>1. IndInv /\ SubscriberInv /\ StreamInv => NoSilentLoss
  <2>. SUFFICES ASSUME IndInv, StreamInv, NEW h \in Handler,
                       pc[h] \in {"reading", "writing"}, dropped[h] = 0
                PROVE  /\ Stream(h) = [i \in 1..(fanned[on[h]] - since[h]) |-> since[h] + i]
                       /\ stopped[on[h]] => fanned[on[h]] = last[on[h]]
    BY DEF NoSilentLoss
  <2>1. StreamInvOf(h) /\ FanoutTypeOK /\ on[h] \in Query /\ PumpInvOf(on[h])
    BY DEF StreamInv, IndInv, FanoutTypeOK, PumpInv
  <2>2. /\ Len(Stream(h)) = fanned[on[h]] - since[h]
        /\ \A i \in 1..Len(Stream(h)) : Stream(h)[i] = since[h] + i
    BY <2>1 DEF StreamInvOf
  <2>3. Stream(h) = [i \in 1..Len(Stream(h)) |-> Stream(h)[i]]
    BY <2>1, StreamType, LenProperties
  <2>4. ASSUME stopped[on[h]] PROVE fanned[on[h]] = last[on[h]]
    <3>1. pump[on[h]] = "done" /\ Len(events[on[h]]) = 0
      BY <2>1, <2>4 DEF PumpInvOf, PumpEnds
    <3>2. fanned[on[h]] \in Nat /\ last[on[h]] \in Nat
      BY <2>1, FanoutAssumption DEF FanoutTypeOK
    <3>. QED  BY <2>1, <3>1, <3>2 DEF PumpInvOf, PumpCounts
  <2>. QED  BY <2>2, <2>3, <2>4
<1>. QED  BY <1>1, FanoutStreams, PTL

-----------------------------------------------------------------------------
(* The fan-out implements the lossy broadcast                              *)

Members == [h \in Handler |-> Membership(h)]

\* A member is in exactly when its channel is in the subscribers of its topic.
LEMMA MemberIsSubscriber ==
  ASSUME IndInv, SubscriberInv, NEW h \in Handler, NEW q \in Query
  PROVE  /\ h \in subs[q] => on[h] = q /\ Membership(h) = "in"
         /\ on[h] = q /\ Membership(h) = "in" => h \in subs[q]
<1>1. SubscriberInvOf(h)
  BY DEF SubscriberInv
<1>2. ASSUME h \in subs[q] PROVE on[h] = q /\ Membership(h) = "in"
  <2>1. on[h] = q
    BY <1>1, <1>2 DEF SubscriberInvOf
  <2>2. pc[h] \in {"reading", "writing", "leaving"} /\ closes[h] = 0
    BY <1>1, <1>2, <2>1 DEF SubscriberInvOf
  <2>. QED  BY <2>1, <2>2 DEF Membership
<1>3. ASSUME on[h] = q, Membership(h) = "in", h \notin subs[q] PROVE FALSE
  <2>1. pc[h] \notin {"idle", "got", "refused"} /\ closes[h] = 0
    BY <1>3 DEF Membership
  <2>2. pc[h] \notin {"reading", "writing", "leaving"} /\ pc[h] # "gone"
    BY <1>1, <1>3, <2>1 DEF SubscriberInvOf
  <2>3. pc[h] \in HandlerState
    BY DEF IndInv, FanoutTypeOK
  <2>. QED  BY <2>1, <2>2, <2>3 DEF HandlerState
<1>. QED  BY <1>2, <1>3

LEMMA MembersFrame ==
  ASSUME \A h \in Handler : Membership(h)' = Membership(h)
  PROVE  Members' = Members
BY DEF Members

\* The broadcast sees nothing of a step that changes none of its variables.
LEMMA BroadcastStutter ==
  ASSUME UNCHANGED <<on, fanned, stopped, queue, response>>,
         \A h \in Handler : Membership(h)' = Membership(h)
  PROVE  UNCHANGED Broadcast!vars
<1>1. Members' = Members
  BY MembersFrame
<1>. QED  BY <1>1 DEF Broadcast!vars, Members

LEMMA InitBroadcast == FanoutInit => Broadcast!Init
<1>. SUFFICES ASSUME FanoutInit PROVE Broadcast!Init
  OBVIOUS
<1>1. \A h \in Handler : Membership(h) = "out"
  BY DEF FanoutInit, Membership
<1>2. Members = [h \in Handler |-> "out"]
  BY <1>1 DEF Members
<1>. QED  BY <1>2 DEF FanoutInit, Broadcast!Init, Members

LEMMA FanIsSend ==
  ASSUME IndInv, SubscriberInv, NEW q \in Query, PumpFan(q)
  PROVE  Broadcast!Send(q)
<1>1. /\ pump[q] = "fan" /\ PumpInvOf(q) /\ FanoutTypeOK
      /\ fanned[q] \in 0..MaxEvent /\ held[q] \in 0..MaxEvent
  BY DEF PumpFan, IndInv, PumpInv, FanoutTypeOK
<1>2. ~stopped[q]
  BY <1>1 DEF PumpInvOf, PumpEnds
<1>3. held[q] = fanned[q] + 1 /\ fanned[q] < MaxEvent
  <2>1. held[q] = fanned[q] + 1
    BY <1>1 DEF PumpInvOf, PumpCounts
  <2>. QED  BY <1>1, <2>1, FanoutAssumption
<1>4. queue' = [h \in Handler |->
                  IF on[h] = q /\ Members[h] = "in" /\ Len(queue[h]) < SubCap
                  THEN Append(queue[h], fanned[q] + 1) ELSE queue[h]]
  <2>1. queue' = [h \in Handler |->
                    IF h \in subs[q] /\ HasRoom(h) THEN Append(queue[h], held[q]) ELSE queue[h]]
    BY DEF PumpFan
  <2>2. \A h \in Handler : /\ h \in subs[q] => on[h] = q /\ Members[h] = "in"
                           /\ on[h] = q /\ Members[h] = "in" => h \in subs[q]
    BY MemberIsSubscriber DEF Members
  <2>. QED  BY <1>3, <2>1, <2>2 DEF HasRoom
<1>5. fanned' = [fanned EXCEPT ![q] = fanned[q] + 1]
      /\ UNCHANGED <<on, stopped, response, pc, closes>>
  BY DEF PumpFan
<1>6. Members' = Members
  BY <1>5 DEF Members, Membership
<1>. QED  BY <1>2, <1>3, <1>4, <1>5, <1>6 DEF Broadcast!Send, Members

LEMMA CloseIsFinish ==
  ASSUME IndInv, SubscriberInv, NEW q \in Query, PumpClose(q)
  PROVE  Broadcast!Finish(q)
<1>1. pump[q] = "close" /\ PumpInvOf(q) /\ FanoutTypeOK
  BY DEF PumpClose, IndInv, PumpInv
<1>2. ~stopped[q]
  BY <1>1 DEF PumpInvOf, PumpEnds
<1>3. /\ stopped' = [stopped EXCEPT ![q] = TRUE]
      /\ closes' = [h \in Handler |-> IF h \in subs[q] THEN closes[h] + 1 ELSE closes[h]]
      /\ UNCHANGED <<on, fanned, queue, response, pc>>
  BY DEF PumpClose
<1>4. ASSUME NEW h \in Handler
      PROVE  Membership(h)' = IF on[h] = q /\ Membership(h) = "in" THEN "closed"
                                                                  ELSE Membership(h)
  <2>1. CASE h \in subs[q]
    <3>1. on[h] = q /\ Membership(h) = "in"
      BY <2>1, MemberIsSubscriber
    <3>2. closes'[h] # 0
      <4>1. closes[h] \in Nat
        BY <1>1 DEF FanoutTypeOK
      <4>2. closes'[h] = closes[h] + 1
        BY <1>3, <2>1
      <4>. QED  BY <4>1, <4>2
    <3>3. pc'[h] \notin {"idle", "got", "refused"}
      BY <1>3, <3>1 DEF Membership
    <3>. QED  BY <3>1, <3>2, <3>3 DEF Membership
  <2>2. CASE h \notin subs[q]
    <3>1. ~(on[h] = q /\ Membership(h) = "in")
      BY <2>2, MemberIsSubscriber
    <3>2. closes'[h] = closes[h] /\ pc'[h] = pc[h]
      BY <1>3, <2>2
    <3>. QED  BY <3>1, <3>2 DEF Membership
  <2>. QED  BY <2>1, <2>2
<1>5. Members' = [h \in Handler |-> IF on[h] = q /\ Members[h] = "in" THEN "closed"
                                                                     ELSE Members[h]]
  BY <1>4 DEF Members
<1>. QED  BY <1>2, <1>3, <1>5 DEF Broadcast!Finish, Members

\* What a step of one handler does to the members: nothing to the others.
LEMMA MembersExcept ==
  ASSUME NEW h \in Handler, NEW v, Membership(h)' = v,
         \A g \in Handler : g # h => Membership(g)' = Membership(g)
  PROVE  Members' = [Members EXCEPT ![h] = v]
BY DEF Members

LEMMA SubscribeIsJoin ==
  ASSUME IndInv, SubscriberInv, NEW h \in Handler, Subscribe(h)
  PROVE  Broadcast!Join(h)
<1>1. /\ pc[h] = "got" /\ SubscriberInvOf(h) /\ on[h] \in Query
      /\ closes \in [Handler -> Nat] /\ pc \in [Handler -> HandlerState]
  BY DEF Subscribe, SubscriberInv, IndInv, FanoutTypeOK
<1>2. closes[h] = 0 /\ Membership(h) = "out"
  BY <1>1 DEF SubscriberInvOf, Membership
<1>3. /\ pc' = [pc EXCEPT ![h] = "reading"]
      /\ UNCHANGED <<on, fanned, stopped, queue, response>>
      /\ \/ stopped[on[h]] /\ closes' = [closes EXCEPT ![h] = closes[h] + 1]
         \/ ~stopped[on[h]] /\ closes' = closes
  BY DEF Subscribe
<1>4. Membership(h)' = IF stopped[on[h]] THEN "closed" ELSE "in"
  <2>1. pc'[h] = "reading"
    BY <1>1, <1>3
  <2>2. CASE stopped[on[h]]
    <3>1. closes'[h] = 1
      BY <1>1, <1>2, <1>3, <2>2
    <3>. QED  BY <2>1, <2>2, <3>1 DEF Membership
  <2>3. CASE ~stopped[on[h]]
    BY <1>2, <1>3, <2>1, <2>3 DEF Membership
  <2>. QED  BY <2>2, <2>3
<1>5. ASSUME NEW g \in Handler, g # h PROVE Membership(g)' = Membership(g)
  <2>1. pc'[g] = pc[g] /\ closes'[g] = closes[g]
    BY <1>1, <1>3, <1>5
  <2>. QED  BY <2>1 DEF Membership
<1>6. Members' = [Members EXCEPT ![h] = IF stopped[on[h]] THEN "closed" ELSE "in"]
  BY <1>4, <1>5, MembersExcept
<1>. QED  BY <1>2, <1>3, <1>6 DEF Broadcast!Join, Members

LEMMA ReceiveIsRead ==
  ASSUME IndInv, NEW h \in Handler, Receive(h)
  PROVE  Broadcast!Read(h)
<1>1. /\ pc[h] = "reading" /\ queue[h] # <<>>
      /\ response' = [response EXCEPT ![h] = Append(response[h], Head(queue[h]))]
      /\ queue' = [queue EXCEPT ![h] = Tail(queue[h])]
      /\ pc' = [pc EXCEPT ![h] = "writing"]
      /\ UNCHANGED <<on, fanned, stopped, closes>>
  BY DEF Receive, queryVars
<1>2. pc \in [Handler -> HandlerState]
  BY DEF IndInv, FanoutTypeOK
<1>3. \A g \in Handler : Membership(g)' = Membership(g)
  BY <1>1, <1>2 DEF Membership
<1>4. Members' = Members /\ Members[h] # "out"
  <2>1. Members' = Members
    BY <1>3, MembersFrame
  <2>. QED  BY <1>1, <2>1 DEF Members, Membership
<1>. QED  BY <1>1, <1>4 DEF Broadcast!Read, Members

LEMMA UnsubscribeIsLeave ==
  ASSUME IndInv, SubscriberInv, NEW h \in Handler, Unsubscribe(h)
  PROVE  Broadcast!Leave(h) \/ UNCHANGED Broadcast!vars
<1>1. /\ pc[h] = "leaving" /\ SubscriberInvOf(h) /\ on[h] \in Query
      /\ closes \in [Handler -> Nat] /\ pc \in [Handler -> HandlerState]
  BY DEF Unsubscribe, SubscriberInv, IndInv, FanoutTypeOK
<1>2. /\ pc' = [pc EXCEPT ![h] = "gone"]
      /\ UNCHANGED <<on, fanned, stopped, queue, response>>
      /\ \/ h \in subs[on[h]] /\ closes' = [closes EXCEPT ![h] = closes[h] + 1]
         \/ h \notin subs[on[h]] /\ closes' = closes
  BY DEF Unsubscribe
<1>3. pc'[h] = "gone"
  BY <1>1, <1>2
<1>4. ASSUME NEW g \in Handler, g # h PROVE Membership(g)' = Membership(g)
  <2>1. pc'[g] = pc[g] /\ closes'[g] = closes[g]
    BY <1>1, <1>2, <1>4
  <2>. QED  BY <2>1 DEF Membership
<1>5. CASE h \in subs[on[h]]
  <2>1. Members[h] = "in"
    BY <1>1, <1>5, MemberIsSubscriber DEF Members
  <2>2. closes'[h] # 0
    <3>1. closes[h] \in Nat /\ closes'[h] = closes[h] + 1
      BY <1>1, <1>2, <1>5
    <3>. QED  BY <3>1
  <2>3. Membership(h)' = "closed"
    BY <1>3, <2>2 DEF Membership
  <2>4. Members' = [Members EXCEPT ![h] = "closed"]
    BY <1>4, <2>3, MembersExcept
  <2>. QED  BY <1>2, <2>1, <2>4 DEF Broadcast!Leave, Members
<1>6. CASE h \notin subs[on[h]]
  <2>1. Membership(h)' = Membership(h)
    BY <1>1, <1>2, <1>3, <1>6 DEF Membership
  <2>2. \A g \in Handler : Membership(g)' = Membership(g)
    BY <1>4, <2>1
  <2>. QED  BY <1>2, <2>2, BroadcastStutter
<1>. QED  BY <1>5, <1>6

LEMMA NextBroadcast ==
  IndInv /\ SubscriberInv /\ [FanoutNext]_fanoutVars => [Broadcast!Next]_Broadcast!vars
<1>. SUFFICES ASSUME IndInv, SubscriberInv, [FanoutNext]_fanoutVars
              PROVE  Broadcast!Next \/ UNCHANGED Broadcast!vars
  OBVIOUS
<1>1. ASSUME UNCHANGED <<pc, on, closes, queue, response, fanned, stopped>>
      PROVE  UNCHANGED Broadcast!vars
  <2>1. \A h \in Handler : Membership(h)' = Membership(h)
    BY <1>1 DEF Membership
  <2>. QED  BY <1>1, <2>1, BroadcastStutter
<1>2. ASSUME NEW q \in Query,
             Produce(q) \/ PumpStart(q) \/ PumpReceive(q) \/ PumpSeesEnd(q)
      PROVE  UNCHANGED Broadcast!vars
  <2>1. UNCHANGED <<pc, on, closes, queue, response, fanned, stopped>>
    BY <1>2 DEF Produce, Emit, Handover, End, PumpStart, PumpReceive, PumpSeesEnd, handlerVars
  <2>. QED  BY <1>1, <2>1
<1>3. ASSUME NEW q \in Query, PumpFan(q) PROVE Broadcast!Next
  BY <1>3, FanIsSend DEF Broadcast!Next
<1>4. ASSUME NEW q \in Query, PumpClose(q) PROVE Broadcast!Next
  BY <1>4, CloseIsFinish DEF Broadcast!Next
<1>5. ASSUME NEW h \in Handler, Open(h) \/ Refuse(h) \/ SeeClosed(h) \/ Client(h)
      PROVE  UNCHANGED Broadcast!vars
  <2>1. /\ UNCHANGED <<on, fanned, stopped, queue, response, closes>>
        /\ \/ pc[h] = "idle" /\ pc' = [pc EXCEPT ![h] = "got"]
           \/ pc[h] = "idle" /\ pc' = [pc EXCEPT ![h] = "refused"]
           \/ pc[h] = "reading" /\ pc' = [pc EXCEPT ![h] = "writing"]
           \/ pc[h] = "writing" /\ pc' = [pc EXCEPT ![h] = "reading"]
           \/ pc[h] \in {"reading", "writing"} /\ pc' = [pc EXCEPT ![h] = "leaving"]
    BY <1>5 DEF Open, Refuse, SeeClosed, Client, KeepAlive, Written, Disconnect, queryVars
  <2>2. pc \in [Handler -> HandlerState]
    BY DEF IndInv, FanoutTypeOK
  <2>3. \A g \in Handler : Membership(g)' = Membership(g)
    BY <2>1, <2>2 DEF Membership
  <2>. QED  BY <2>1, <2>3, BroadcastStutter
<1>6. ASSUME NEW h \in Handler, Subscribe(h) PROVE Broadcast!Next
  BY <1>6, SubscribeIsJoin DEF Broadcast!Next
<1>7. ASSUME NEW h \in Handler, Receive(h) PROVE Broadcast!Next
  BY <1>7, ReceiveIsRead DEF Broadcast!Next
<1>8. ASSUME NEW h \in Handler, Unsubscribe(h)
      PROVE  Broadcast!Next \/ UNCHANGED Broadcast!vars
  BY <1>8, UnsubscribeIsLeave DEF Broadcast!Next
<1>9. CASE UNCHANGED fanoutVars
  BY <1>1, <1>9 DEF fanoutVars, queryVars, handlerVars
<1>. QED
  BY <1>2, <1>3, <1>4, <1>5, <1>6, <1>7, <1>8, <1>9
  DEF FanoutNext, Pump, Respond, FanoutDone

\* The pump, the locks and the handlers' control implement the lossy broadcast: what the
\* clients of a query read is what its specification says, whatever the interleaving.
THEOREM FanoutRefinesBroadcast == FanoutSafetySpec => RefinesBroadcast
<1>1. FanoutInit => Broadcast!Init
  BY InitBroadcast
<1>2. IndInv /\ SubscriberInv /\ [FanoutNext]_fanoutVars => [Broadcast!Next]_Broadcast!vars
  BY NextBroadcast
<1>. QED
  BY <1>1, <1>2, FanoutSubscribers, PTL DEF FanoutSafetySpec, RefinesBroadcast, Broadcast!Spec

=============================================================================
