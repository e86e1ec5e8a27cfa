----------------------------- MODULE MCWindows -----------------------------
(***************************************************************************)
(* The instances of modules Windows and FleetViews that TLC checks.  The   *)
(* two share nothing: a behaviour is of one or of the other.               *)
(***************************************************************************)
EXTENDS Windows, FleetViews, FiniteSetsExt

\* A window of three records, a tumbling span, hops that overlap, and hops that leave gaps.
MCWindow ==
    { [type |-> "COUNT", size |-> 3, span |-> 1, hop |-> 1],
      [type |-> "TUMBLING", size |-> 1, span |-> 3, hop |-> 1],
      [type |-> "HOPPING", size |-> 1, span |-> 3, hop |-> 2],
      [type |-> "HOPPING", size |-> 1, span |-> 1, hop |-> 2] }

\* Before, at and around 1970, and two boundaries further on.
MCTime == {-2, 0, 1, 2, 3, 5}

\* A tumbling span of two seconds alone.
MCTumbling == { [type |-> "TUMBLING", size |-> 1, span |-> 2, hop |-> 1] }

MCFewTimes == {0, 3}

\* Up to two members, of four entries together: times that increase from before 1970 to the third
\* bucket of three seconds, one of them unreadable.
MCEntries(times, unread) ==
    LET sorted == SelectSeq(<<-2, 0, 2, 3, 7>>, LAMBDA t : t \in times)
    IN  [i \in DOMAIN sorted |-> [t |-> sorted[i], read |-> i # unread]]

MCDocument(all, cut) ==
    LET end == Min({cut, Len(all)}) IN <<SubSeq(all, 1, end), SubSeq(all, end + 1, Len(all))>>

\* Two features of one type, or of two; the second has two entries, in one member or in two.
MCRows ==
    {<<[id |-> 1, type |-> "Cargo", doc |-> d], [id |-> 2, type |-> type, doc |-> e]>> :
        d \in {Null} \cup {MCDocument(MCEntries(times, unread), cut) :
                 times \in UNION {kSubset(n, {-2, 0, 2, 3, 7}) : n \in 0..4}, unread \in 0..2, cut \in 0..2},
        e \in {Null, <<>>} \cup {MCDocument(MCEntries(times, 0), cut) : times \in {{0, 3}, {-2, 7}}, cut \in 1..2},
        type \in {"Cargo", "Other"}}

MCInit == WindowInit /\ FleetInit

MCNext ==
    \/ WindowNext /\ view = Null /\ UNCHANGED fleetVars
    \/ input = <<>> /\ window.type = "COUNT" /\ FleetNext /\ UNCHANGED windowVars

MCSpec == MCInit /\ [][MCNext]_<<windowVars, fleetVars>>
=============================================================================
