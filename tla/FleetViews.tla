----------------------------- MODULE FleetViews -----------------------------
(***************************************************************************)
(* The two views of a whole collection: timeseries (src/timeseries.go),    *)
(* which averages a property over time buckets, and trajectories           *)
(* (src/trajectories.go), which lists every gap-free run of every feature. *)
(* Each scans the rows of one statement, and in each row the members of    *)
(* its MF-JSON and their entries; a turn of those loops is an action.      *)
(*                                                                         *)
(* An entry is a time and whether the tier can parse it, and stands for a  *)
(* value or a position; it is told apart by its place, <<row, member,      *)
(* entry>>.  An average is what it is of, and by how many it is divided.   *)
(***************************************************************************)
EXTENDS Integers, Sequences, SequencesExt, FiniteSets

CONSTANTS
    ShipType,   \* the types of features
    Rows,       \* the results of the statement: sequences of rows
    Step,       \* the length of a bucket
    Null

\* Stands for the extremes of an int64, before the first time is known.
Far == 2^30

Entry == [t : (1 - Far) .. (Far - 1), read : BOOLEAN]
Row == [id : Nat, type : ShipType, doc : Seq(Seq(Entry)) \cup {Null}]
Average == [of : SUBSET (Nat \X Nat \X Nat), n : Nat]

\* In a member sequence the times increase.
ASSUME FleetAssumption ==
    /\ Step \in Nat \ {0}
    /\ Null \notin {"timeseries", "trajectories"} \cup Average
    /\ Rows \subseteq Seq(Row)
    /\ \A rs \in Rows : \A i \in DOMAIN rs : rs[i].doc # Null =>
          \A m \in DOMAIN rs[i].doc : \A e, f \in DOMAIN rs[i].doc[m] :
              e < f => rs[i].doc[m][e].t < rs[i].doc[m][f].t

VARIABLES
    view,       \* the endpoint that was asked, or Null
    rows,       \* what the statement has answered
    at,         \* the place the loops are at; member 0 before the row is looked at
    data,       \* timeseries: the accumulators, by type and by bucket
    seg,        \* trajectories: the segment of the member the loops are in
    trips,      \* trajectories: the trips so far
    tmin, tmax  \* the first and the last bucket; the first and the last time of a trip

fleetVars == <<view, rows, at, data, seg, trips, tmin, tmax>>

FleetInit ==
    /\ view = Null
    /\ rows = <<>>
    /\ at = <<1, 0, 1>>
    /\ data = [type \in {} |-> <<>>]
    /\ seg = <<>>
    /\ trips = <<>>
    /\ tmin = Far
    /\ tmax = -Far

\* db.Query: the rows as they are when the statement runs.
Query ==
    /\ view = Null
    /\ view' \in {"timeseries", "trajectories"}
    /\ rows' \in Rows
    /\ UNCHANGED <<at, data, seg, trips, tmin, tmax>>

Scanning == view # Null /\ at[1] <= Len(rows)
ThisRow == rows[at[1]]
InMember == Scanning /\ at[2] > 0 /\ at[2] <= Len(ThisRow.doc)

\* The entry at place p, and the places that can be read.
EntryAt(p) == rows[p[1]].doc[p[2]][p[3]]
TimeAt(p) == EntryAt(p).t
TypeAt(p) == rows[p[1]].type

\* rows.Next and rows.Scan: a row without a document is passed over, and the type of another
\* is in the answer even when none of its entries can be read.
NextRow ==
    /\ Scanning /\ at[2] = 0
    /\ IF ThisRow.doc = Null
       THEN at' = <<at[1] + 1, 0, 1>> /\ UNCHANGED data
       ELSE /\ at' = <<at[1], 1, 1>>
            /\ data' = IF view = "timeseries" /\ ThisRow.type \notin DOMAIN data
                       THEN [type \in DOMAIN data \cup {ThisRow.type} |->
                                IF type \in DOMAIN data THEN data[type] ELSE <<>>]
                       ELSE data
    /\ UNCHANGED <<view, rows, seg, trips, tmin, tmax>>

\* p.t - p.t % step: Go's remainder has the sign of the dividend.
BucketOf(t) == IF t >= 0 THEN t - (t % Step) ELSE t + ((-t) % Step)

\* The accumulators of a type, with one sample more.
Added(accs, b, p) ==
    LET a == IF b \in DOMAIN accs THEN accs[b] ELSE [of |-> {}, n |-> 0]
    IN  [x \in DOMAIN accs \cup {b} |->
            IF x = b THEN [of |-> a.of \cup {p}, n |-> a.n + 1] ELSE accs[x]]

\* Mutant: a bucket that is the first cannot be the last.
CountSampleOnce(p) ==
    LET b == BucketOf(TimeAt(p))
    IN  /\ data' = [data EXCEPT ![TypeAt(p)] = Added(@, b, p)]
        /\ tmin' = IF b < tmin THEN b ELSE tmin
        /\ tmax' = IF b >= tmin /\ b > tmax THEN b ELSE tmax
        /\ UNCHANGED seg

\* The accumulator of the sample's bucket, and the first and the last bucket.
CountSample(p) ==
    LET b == BucketOf(TimeAt(p))
    IN  /\ data' = [data EXCEPT ![TypeAt(p)] = Added(@, b, p)]
        /\ tmin' = IF b < tmin THEN b ELSE tmin
        /\ tmax' = IF b > tmax THEN b ELSE tmax
        /\ UNCHANGED seg

\* A turn of the loop of parseFloatSeries, and of parseTripSegments: what cannot be parsed is
\* passed over.
NextEntry ==
    /\ InMember /\ at[3] <= Len(ThisRow.doc[at[2]])
    /\ at' = <<at[1], at[2], at[3] + 1>>
    /\ CASE ~EntryAt(at).read -> UNCHANGED <<data, seg, tmin, tmax>>
         [] EntryAt(at).read /\ view = "timeseries" -> CountSample(at)
         [] OTHER -> seg' = Append(seg, at) /\ UNCHANGED <<data, tmin, tmax>>
    /\ UNCHANGED <<view, rows, trips>>

\* The end of a member: trajectories has a trip of it if it has two points.
EndMember ==
    /\ InMember /\ at[3] > Len(ThisRow.doc[at[2]])
    /\ at' = <<at[1], at[2] + 1, 1>>
    /\ IF Len(seg) < 2
       THEN UNCHANGED <<trips, tmin, tmax>>
       ELSE /\ trips' = Append(trips, [id |-> ThisRow.id, points |-> seg])
            /\ tmin' = IF TimeAt(seg[1]) < tmin THEN TimeAt(seg[1]) ELSE tmin
            /\ tmax' = IF TimeAt(Last(seg)) > tmax THEN TimeAt(Last(seg)) ELSE tmax
    /\ seg' = <<>>
    /\ UNCHANGED <<view, rows, data>>

EndRow ==
    /\ Scanning /\ at[2] > 0 /\ at[2] > Len(ThisRow.doc)
    /\ at' = <<at[1] + 1, 0, 1>>
    /\ UNCHANGED <<view, rows, data, seg, trips, tmin, tmax>>

\* rows.Err: the rows broke off, and the answer is an error.  Nothing of it is kept.
RowsErr ==
    /\ view # Null /\ at[2] = 0
    /\ view' = Null
    /\ rows' = <<>>
    /\ at' = <<1, 0, 1>>
    /\ data' = [type \in {} |-> <<>>]
    /\ seg' = <<>>
    /\ trips' = <<>>
    /\ tmin' = Far
    /\ tmax' = -Far

FleetNext == Query \/ NextRow \/ NextEntry \/ EndMember \/ EndRow \/ RowsErr

FleetSpec == FleetInit /\ [][FleetNext]_fleetVars

\* The answer of timeseries: the starts of the buckets, and for each type the average in each,
\* or null; no types if there are no buckets.  That of trajectories is trips, tmin and tmax.
Buckets ==
    IF tmax < tmin THEN <<>>
    ELSE [i \in 1 .. (((tmax - tmin) \div Step) + 1) |-> tmin + (i - 1) * Step]

Series ==
    [type \in IF tmax < tmin THEN {} ELSE DOMAIN data |->
        [i \in DOMAIN Buckets |->
            IF Buckets[i] \in DOMAIN data[type] THEN data[type][Buckets[i]] ELSE Null]]

-----------------------------------------------------------------------------
(* Properties                                                              *)

Answered == view # Null /\ at[1] > Len(rows)

\* The places of what can be read.
Samples ==
    LET Docs == {i \in DOMAIN rows : rows[i].doc # Null}
        Places == UNION {UNION {{<<i, m, e>> : e \in DOMAIN rows[i].doc[m]} :
                                m \in DOMAIN rows[i].doc} : i \in Docs}
    IN  {p \in Places : EntryAt(p).read}

\* The times of a uniform bucket, named by its start.
InBucket(t, b) == b <= t /\ t < b + Step

\* The sample at p is in the average of bucket i.
Counted(p, i) ==
    LET average == Series[TypeAt(p)][i] IN average # Null /\ p \in average.of

\* The buckets follow one another, a step apart.
BucketsFollow ==
    /\ (Buckets = <<>>) <=> (Samples = {})
    /\ \A i \in DOMAIN Buckets :
          Buckets[i] % Step = 0 /\ (i > 1 => Buckets[i] = Buckets[i - 1] + Step)

\* Each sample is counted in one of them, in the series of its type.
SamplesCounted ==
    \A p \in Samples :
        /\ TypeAt(p) \in DOMAIN Series
        /\ \E i \in DOMAIN Buckets : \A j \in DOMAIN Buckets : Counted(p, j) <=> j = i

\* An average is divided by the number of its samples.
AveragesDivided ==
    \A type \in DOMAIN Series : \A i \in DOMAIN Buckets :
        LET average == Series[type][i]
        IN  average # Null => average.n = Cardinality(average.of)

\* The buckets go from that of the first sample to that of the last, and an average is of all
\* the samples of its type whose times are in its bucket.
BucketsUniform ==
    /\ \A i \in DOMAIN Buckets \cap {1, Len(Buckets)} :
          \E p \in Samples : InBucket(TimeAt(p), Buckets[i])
    /\ \A type \in DOMAIN Series : \A i \in DOMAIN Buckets :
          LET those == {p \in Samples : TypeAt(p) = type /\ InBucket(TimeAt(p), Buckets[i])}
          IN  Series[type][i] =
                  IF those = {} THEN Null ELSE [of |-> those, n |-> Cardinality(those)]

\* A sample from before 1970 is counted in a bucket that starts after it (see README.md): that
\* the buckets are uniform is stated of the later ones.
BucketsAreExact ==
    /\ BucketsFollow /\ SamplesCounted /\ AveragesDivided
    /\ (\A p \in Samples : TimeAt(p) >= 0) => BucketsUniform

\* What can be read at q is what can be read next after p, in one member.
Follows(p, q) ==
    /\ p[1] = q[1] /\ p[2] = q[2] /\ p[3] < q[3]
    /\ \A x \in Samples : ~(x[1] = p[1] /\ x[2] = p[2] /\ p[3] < x[3] /\ x[3] < q[3])

\* Two points are neighbours in a trip of their feature exactly if they are so in one member,
\* what cannot be read left out: no trip crosses a gap.  No point is in two trips, and the
\* clock of the animation covers every trip, and starts and ends with one.
TripsKeepGaps ==
    LET drawn == UNION {{<<trips[i].points[k], trips[i].points[k + 1]>> :
                             k \in 1 .. (Len(trips[i].points) - 1)} : i \in DOMAIN trips}
        Times == UNION {{TimeAt(trips[i].points[k]) : k \in DOMAIN trips[i].points} : i \in DOMAIN trips}
    IN  /\ drawn = {pq \in Samples \X Samples : Follows(pq[1], pq[2])}
        /\ \A i \in DOMAIN trips : \A k \in DOMAIN trips[i].points :
              trips[i].id = rows[trips[i].points[k][1]].id
        /\ \A i, j \in DOMAIN trips :
              i # j => Range(trips[i].points) \cap Range(trips[j].points) = {}
        /\ trips # <<>> => tmin \in Times /\ tmax \in Times
        /\ \A t \in Times : tmin <= t /\ t <= tmax

\* "Over uniform time buckets", for samples from 1970 on, and "each trip is one gap-free
\* segment": what the two views serve against what the rows hold.
FleetViewsAreExact ==
    Answered => IF view = "timeseries" THEN BucketsAreExact ELSE TripsKeepGaps
=============================================================================
