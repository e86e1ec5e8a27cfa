--------------------------- MODULE LossyBroadcast ---------------------------
(***************************************************************************)
(* What a query's fan-out promises to its subscribers: a broadcast with a  *)
(* bounded backlog per member.  Each event sent on a topic joins the       *)
(* backlog of every member of the topic at once, except of those whose     *)
(* backlog is full; a member reads its backlog in order; when the topic is *)
(* over every member is closed, one that joins later is closed at once,    *)
(* and a closed member stays closed and keeps its backlog to read.         *)
(***************************************************************************)
EXTENDS Integers, Sequences

CONSTANTS Topic, Member, Cap, MaxSent

VARIABLES
    topic,      \* the topic of each member
    sent,       \* how many events were sent on a topic; the n-th event is n
    over,       \* the topic has ended
    member,     \* "out", "in" or "closed"
    backlog,    \* sent to the member and not yet read
    delivered   \* read by the member

vars == <<topic, sent, over, member, backlog, delivered>>

Init ==
    /\ topic \in [Member -> Topic]
    /\ sent = [t \in Topic |-> 0]
    /\ over = [t \in Topic |-> FALSE]
    /\ member = [m \in Member |-> "out"]
    /\ backlog = [m \in Member |-> <<>>]
    /\ delivered = [m \in Member |-> <<>>]

Send(t) ==
    /\ ~over[t]
    /\ sent[t] < MaxSent
    /\ sent' = [sent EXCEPT ![t] = @ + 1]
    /\ backlog' = [m \in Member |->
                    IF topic[m] = t /\ member[m] = "in" /\ Len(backlog[m]) < Cap
                    THEN Append(backlog[m], sent[t] + 1)
                    ELSE backlog[m]]
    /\ UNCHANGED <<topic, over, member, delivered>>

Join(m) ==
    /\ member[m] = "out"
    /\ member' = [member EXCEPT ![m] = IF over[topic[m]] THEN "closed" ELSE "in"]
    /\ UNCHANGED <<topic, sent, over, backlog, delivered>>

Read(m) ==
    /\ member[m] # "out"
    /\ backlog[m] # <<>>
    /\ delivered' = [delivered EXCEPT ![m] = Append(@, Head(backlog[m]))]
    /\ backlog' = [backlog EXCEPT ![m] = Tail(@)]
    /\ UNCHANGED <<topic, sent, over, member>>

Leave(m) ==
    /\ member[m] = "in"
    /\ member' = [member EXCEPT ![m] = "closed"]
    /\ UNCHANGED <<topic, sent, over, backlog, delivered>>

Finish(t) ==
    /\ ~over[t]
    /\ over' = [over EXCEPT ![t] = TRUE]
    /\ member' = [m \in Member |->
                    IF topic[m] = t /\ member[m] = "in" THEN "closed" ELSE member[m]]
    /\ UNCHANGED <<topic, sent, backlog, delivered>>

Next ==
    \/ \E t \in Topic : Send(t) \/ Finish(t)
    \/ \E m \in Member : Join(m) \/ Read(m) \/ Leave(m)

Spec == Init /\ [][Next]_vars
=============================================================================
