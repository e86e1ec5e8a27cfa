-------------------------- MODULE FleetViews_proofs --------------------------
(***************************************************************************)
(* Proofs about the views of a whole collection, for any rows, any lengths *)
(* of members and any bucket length: what the loops have accumulated is    *)
(* about the places they have passed, and the answer is about all.         *)
(***************************************************************************)
EXTENDS FleetViews, TLAPS, FiniteSetTheorems, SequenceTheorems

\* The loops are past a member, and past an entry.
Ended(i, m) == i < at[1] \/ (i = at[1] /\ m < at[2])
IsPassed(p) == Ended(p[1], p[2]) \/ (p[1] = at[1] /\ p[2] = at[2] /\ p[3] < at[3])
Passed == {p \in Samples : IsPassed(p)}

\* What can be read at a place.
IsSample(p) ==
    /\ p = <<p[1], p[2], p[3]>>
    /\ p[1] \in 1..Len(rows) /\ rows[p[1]].doc # Null
    /\ p[2] \in 1..Len(rows[p[1]].doc)
    /\ p[3] \in 1..Len(rows[p[1]].doc[p[2]])
    /\ EntryAt(p).read

FleetTypeOK ==
    /\ view \in {Null, "timeseries", "trajectories"}
    /\ view = Null => FleetInit
    /\ rows \in Seq(Row) /\ (view # Null => rows \in Rows)
    /\ at \in (Nat \ {0}) \X Nat \X (Nat \ {0})
    /\ at[1] <= Len(rows) + 1
    /\ at[2] > 0 => /\ at[1] <= Len(rows)
                    /\ ThisRow.doc # Null
                    /\ at[2] <= Len(ThisRow.doc) + 1
    /\ tmin \in Int /\ tmax \in Int
    /\ DOMAIN data \subseteq ShipType
    /\ seg \in Seq(Samples) /\ (view # "trajectories" => seg = <<>>)
    /\ trips \in Seq([id : Nat, points : Seq(Samples)])
    /\ IsFiniteSet(Passed)

\* timeseries: a bucket has the samples of its type and name that are passed, and the first and
\* the last bucket have one.
Name(p) == BucketOf(TimeAt(p))
Those(type, b) == {p \in Passed : TypeAt(p) = type /\ Name(p) = b}

\* The times of the bucket that the code names b: from 1970 on by its start, before by its end,
\* and the one named 0 has both.
NamedBy(t, b) == IF t >= 0 THEN InBucket(t, b) ELSE b - Step < t /\ t <= b

TypesKnown ==
    /\ at[2] > 0 => ThisRow.type \in DOMAIN data
    /\ \A p \in Passed : TypeAt(p) \in DOMAIN data /\ Name(p) \in DOMAIN data[TypeAt(p)]

Accumulated ==
    \A type \in DOMAIN data : \A b \in DOMAIN data[type] :
        /\ Those(type, b) # {}
        /\ data[type][b] = [of |-> Those(type, b), n |-> Cardinality(Those(type, b))]

BucketRange ==
    /\ Passed = {} => tmin = Far /\ tmax = -Far
    /\ Passed # {} => /\ \E p \in Passed : tmin = Name(p)
                      /\ \E p \in Passed : tmax = Name(p)
    /\ \A p \in Passed : tmin <= Name(p) /\ Name(p) <= tmax

SeriesInv == view # "trajectories" => TypesKnown /\ Accumulated /\ BucketRange

\* trajectories: a sequence of places is the places of a set in order, once each; the segment
\* is what is passed of its member, and a trip is a whole member that is passed.
Lists(s, S) ==
    /\ \A k \in 1..Len(s) : s[k] \in S
    /\ \A p \in S : \E k \in 1..Len(s) : s[k] = p
    /\ \A j, k \in 1..Len(s) : j < k => s[j][3] < s[k][3]

PassedOf(i, m) == {p \in Passed : p[1] = i /\ p[2] = m}
Start(x) == trips[x].points[1]
Finish(x) == Last(trips[x].points)

TripsWhole ==
    \A x \in 1..Len(trips) :
        /\ Len(trips[x].points) >= 2
        /\ Lists(trips[x].points, PassedOf(Start(x)[1], Start(x)[2]))
        /\ Ended(Start(x)[1], Start(x)[2])
        /\ trips[x].id = rows[Start(x)[1]].id

TripsApart ==
    \A x, y \in 1..Len(trips) : Start(x)[1] = Start(y)[1] /\ Start(x)[2] = Start(y)[2] => x = y

TripsAll ==
    \A p, q \in Passed : p[1] = q[1] /\ p[2] = q[2] /\ p[3] < q[3] /\ Ended(p[1], p[2]) =>
        \E x \in 1..Len(trips) : Start(x)[1] = p[1] /\ Start(x)[2] = p[2]

ClockRange ==
    /\ trips = <<>> => tmin = Far /\ tmax = -Far
    /\ trips # <<>> => /\ \E x \in 1..Len(trips) : tmin = TimeAt(Start(x))
                       /\ \E x \in 1..Len(trips) : tmax = TimeAt(Finish(x))
    /\ \A x \in 1..Len(trips) : tmin <= TimeAt(Start(x)) /\ TimeAt(Finish(x)) <= tmax

TripInv ==
    view # "timeseries" =>
        /\ Lists(seg, PassedOf(at[1], at[2]))
        /\ TripsWhole /\ TripsApart /\ TripsAll /\ ClockRange

FleetInv == FleetTypeOK /\ SeriesInv /\ TripInv

-----------------------------------------------------------------------------
(* Samples and buckets                                                     *)

LEMMA SampleIs ==
  ASSUME rows \in Seq(Row)
  PROVE  \A p : p \in Samples <=> IsSample(p)
<1>. DEFINE Docs == {i \in DOMAIN rows : rows[i].doc # Null}
            Places == UNION {UNION {{<<i, m, e>> : e \in DOMAIN rows[i].doc[m]} :
                                m \in DOMAIN rows[i].doc} : i \in Docs}
<1>1. \A p : p \in Places <=> \E i \in Docs : \E m \in DOMAIN rows[i].doc :
                                 \E e \in DOMAIN rows[i].doc[m] : p = <<i, m, e>>
  OBVIOUS
<1>2. \A i \in Docs : /\ i \in 1..Len(rows) /\ rows[i].doc \in Seq(Seq(Entry))
                      /\ DOMAIN rows[i].doc = 1..Len(rows[i].doc)
                      /\ \A m \in DOMAIN rows[i].doc : DOMAIN rows[i].doc[m] = 1..Len(rows[i].doc[m])
  <2>. TAKE i \in Docs
  <2>1. i \in 1..Len(rows) /\ rows[i] \in Row /\ rows[i].doc # Null
    OBVIOUS
  <2>2. rows[i].doc \in Seq(Seq(Entry))
    BY <2>1 DEF Row
  <2>. DEFINE d == rows[i].doc
  <2>3. DOMAIN d = 1..Len(d) /\ \A m \in DOMAIN d : DOMAIN d[m] = 1..Len(d[m])
    <3>. HIDE DEF d
    <3>1. d \in Seq(Seq(Entry))
      BY <2>2 DEF d
    <3>. QED  BY <3>1
  <2>. QED  BY <2>1, <2>2, <2>3
<1>3. DOMAIN rows = 1..Len(rows)
  OBVIOUS
<1>4. \A p : p \in Places <=> /\ p = <<p[1], p[2], p[3]>>
                              /\ p[1] \in Docs
                              /\ p[2] \in 1..Len(rows[p[1]].doc)
                              /\ p[3] \in 1..Len(rows[p[1]].doc[p[2]])
  <2>. HIDE DEF Places, Docs
  <2>. QED  BY <1>1, <1>2
<1>5. Samples = {p \in Places : EntryAt(p).read}
  BY DEF Samples
<1>. QED  BY <1>3, <1>4, <1>5 DEF IsSample

LEMMA SampleTyped ==
  ASSUME rows \in Seq(Row), NEW p \in Samples
  PROVE  /\ p \in (Nat \ {0}) \X (Nat \ {0}) \X (Nat \ {0})
         /\ p = <<p[1], p[2], p[3]>>
         /\ p[1] \in 1..Len(rows) /\ rows[p[1]].doc \in Seq(Seq(Entry)) /\ rows[p[1]].doc # Null
         /\ p[2] \in 1..Len(rows[p[1]].doc)
         /\ p[3] \in 1..Len(rows[p[1]].doc[p[2]])
         /\ TimeAt(p) \in Int /\ -Far < TimeAt(p) /\ TimeAt(p) < Far
         /\ TypeAt(p) \in ShipType
         /\ rows[p[1]].id \in Nat
<1>1. IsSample(p)
  BY SampleIs
<1>2. p[1] \in 1..Len(rows) /\ rows[p[1]] \in Row
  BY <1>1 DEF IsSample
<1>3. rows[p[1]].doc \in Seq(Seq(Entry)) /\ rows[p[1]].type \in ShipType /\ rows[p[1]].id \in Nat
  BY <1>1, <1>2 DEF IsSample, Row
<1>4. p[2] \in 1..Len(rows[p[1]].doc) /\ rows[p[1]].doc[p[2]] \in Seq(Entry)
  BY <1>1, <1>3 DEF IsSample
<1>5. p[3] \in 1..Len(rows[p[1]].doc[p[2]]) /\ EntryAt(p) \in Entry
  BY <1>1, <1>4 DEF IsSample, EntryAt
<1>6. TimeAt(p) \in (1 - Far) .. (Far - 1)
  BY <1>5 DEF TimeAt, Entry
<1>7. Far \in Int
  BY DEF Far
<1>8. TimeAt(p) \in Int /\ -Far < TimeAt(p) /\ TimeAt(p) < Far
  BY <1>6, <1>7
<1>9. p = <<p[1], p[2], p[3]>> /\ p[1] \in Nat \ {0} /\ p[2] \in Nat \ {0} /\ p[3] \in Nat \ {0}
  BY <1>1, <1>2, <1>4, <1>5 DEF IsSample
<1>. QED  BY <1>1, <1>2, <1>3, <1>4, <1>5, <1>8, <1>9 DEF TypeAt, IsSample

\* The quotient and the remainder.
LEMMA StepDivision ==
  ASSUME NEW t \in Int
  PROVE  /\ t \div Step \in Int /\ t % Step \in Int
         /\ t = Step * (t \div Step) + (t % Step)
         /\ 0 <= t % Step /\ t % Step < Step
  BY FleetAssumption

\* The multiples of a length are at least the length apart.
LEMMA MultiplesApart ==
  ASSUME NEW p \in Int, NEW q \in Int, p < q
  PROVE  Step * p + Step <= Step * q
<1>1. Step \in Nat \ {0}
  BY FleetAssumption
<1>2. Step * p + Step = Step * (p + 1)
  BY <1>1
<1>3. \A k \in Nat : Step * (p + 1) <= Step * (p + 1 + k)
  BY <1>1
<1>4. q - (p + 1) \in Nat /\ p + 1 + (q - (p + 1)) = q
  OBVIOUS
<1>. QED  BY <1>2, <1>3, <1>4

LEMMA OneQuotient ==
  ASSUME NEW t \in Int, NEW q \in Int, Step * q <= t, t < Step * q + Step
  PROVE  t \div Step = q /\ t % Step = t - Step * q
<1>. DEFINE p == t \div Step
<1>1. /\ p \in Int /\ Step * p <= t /\ t < Step * p + Step
      /\ Step * p \in Int /\ Step * q \in Int /\ Step \in Nat \ {0}
      /\ t % Step \in Int /\ t = Step * p + (t % Step)
  BY StepDivision, FleetAssumption
<1>. HIDE DEF p
<1>2. ~(p < q)
  BY <1>1, MultiplesApart
<1>3. ~(q < p)
  BY <1>1, MultiplesApart
<1>4. p = q
  BY <1>1, <1>2, <1>3
<1>5. t % Step = t - Step * q
  <2>1. Step * p = Step * q
    BY <1>4
  <2>. QED  BY <1>1, <2>1
<1>. QED  BY <1>4, <1>5 DEF p

LEMMA IsMultiple ==
  ASSUME NEW q \in Int
  PROVE  (Step * q) % Step = 0 /\ Step * q \in Int
<1>1. Step * q \in Int /\ Step \in Nat \ {0}
  BY FleetAssumption
<1>2. (Step * q) % Step = Step * q - Step * q
  BY <1>1, OneQuotient
<1>. QED  BY <1>1, <1>2

\* The name of a bucket is a multiple of the step, not farther from 1970 than the time, and is
\* that of the one bucket that has the time.
LEMMA BucketIs ==
  ASSUME NEW t \in Int
  PROVE  /\ BucketOf(t) \in Int /\ BucketOf(t) % Step = 0
         /\ (0 <= BucketOf(t) /\ BucketOf(t) <= t) \/ (t <= BucketOf(t) /\ BucketOf(t) <= 0)
         /\ \A b \in Int : b % Step = 0 => (NamedBy(t, b) <=> BucketOf(t) = b)
<1>0. Step \in Nat \ {0}
  BY FleetAssumption
<1>1. CASE t >= 0
  <2>. DEFINE q == t \div Step
  <2>1. /\ q \in Int /\ t % Step \in Int /\ Step * q \in Int
        /\ t = Step * q + (t % Step) /\ 0 <= t % Step /\ t % Step < Step
    BY <1>0, StepDivision
  <2>2. BucketOf(t) = Step * q
    BY <1>1, <2>1 DEF BucketOf
  <2>3. 0 <= Step * q
    <3>1. Step * (-1) + Step = 0 /\ Step * 0 = 0
      BY <1>0
    <3>. HIDE DEF q
    <3>2. CASE q < 0
      <4>1. Step * q + Step <= Step * 0
        BY <2>1, <3>2, MultiplesApart
      <4>. QED  BY <1>0, <1>1, <2>1, <3>1, <4>1
    <3>3. CASE 0 < q
      BY <1>0, <2>1, <3>1, <3>3, MultiplesApart
    <3>. QED  BY <2>1, <3>1, <3>2, <3>3
  <2>4. ASSUME NEW b \in Int, b % Step = 0
        PROVE  NamedBy(t, b) <=> BucketOf(t) = b
    <3>. DEFINE r == b \div Step
    <3>1. r \in Int /\ b = Step * r
      <4>1. r \in Int /\ Step * r \in Int /\ b = Step * r + (b % Step)
        BY <1>0, StepDivision
      <4>. QED  BY <2>4, <4>1
    <3>2. NamedBy(t, b) <=> b <= t /\ t < b + Step
      BY <1>1 DEF NamedBy, InBucket
    <3>3. b <= t /\ t < b + Step => r = q
      <4>. HIDE DEF r
      <4>. QED  BY <3>1, OneQuotient
    <3>4. BucketOf(t) = b => b <= t /\ t < b + Step
      BY <1>0, <2>1, <2>2
    <3>. QED  BY <2>2, <3>1, <3>2, <3>3, <3>4
  <2>5. BucketOf(t) % Step = 0 /\ BucketOf(t) \in Int
    BY <2>1, <2>2, IsMultiple
  <2>. QED  BY <1>1, <2>1, <2>2, <2>3, <2>4, <2>5
<1>2. CASE ~(t >= 0)
  <2>. DEFINE q == (-t) \div Step
  <2>1. /\ q \in Int /\ (-t) % Step \in Int /\ Step * q \in Int
        /\ -t = Step * q + ((-t) % Step) /\ 0 <= (-t) % Step /\ (-t) % Step < Step
    BY <1>0, StepDivision
  <2>2. BucketOf(t) = -(Step * q)
    BY <1>2, <2>1 DEF BucketOf
  <2>3. 0 <= Step * q
    <3>1. Step * (-1) + Step = 0 /\ Step * 0 = 0
      BY <1>0
    <3>. HIDE DEF q
    <3>2. CASE q < 0
      <4>1. Step * q + Step <= Step * 0
        BY <2>1, <3>2, MultiplesApart
      <4>. QED  BY <1>0, <1>2, <2>1, <3>1, <4>1
    <3>3. CASE 0 < q
      BY <1>0, <2>1, <3>1, <3>3, MultiplesApart
    <3>. QED  BY <2>1, <3>1, <3>2, <3>3
  <2>4. ASSUME NEW b \in Int, b % Step = 0
        PROVE  NamedBy(t, b) <=> BucketOf(t) = b
    <3>. DEFINE r == b \div Step
    <3>1. r \in Int /\ b = Step * r
      <4>1. r \in Int /\ Step * r \in Int /\ b = Step * r + (b % Step)
        BY <1>0, StepDivision
      <4>. QED  BY <2>4, <4>1
    <3>2. NamedBy(t, b) <=> b - Step < t /\ t <= b
      BY <1>2 DEF NamedBy
    <3>3. b - Step < t /\ t <= b => -r = q
      <4>. HIDE DEF r
      <4>. SUFFICES ASSUME b - Step < t, t <= b PROVE -r = q
        OBVIOUS
      <4>1. -r \in Int /\ Step * (-r) = -b
        BY <1>0, <3>1
      <4>. DEFINE s == -r
                  u == -t
      <4>2. s \in Int /\ u \in Int /\ Step * s <= u /\ u < Step * s + Step
        BY <1>0, <4>1
      <4>3. u \div Step = s
        <5>. HIDE DEF s, u
        <5>. QED  BY <4>2, OneQuotient
      <4>. QED  BY <4>3
    <3>4. BucketOf(t) = b => b - Step < t /\ t <= b
      BY <1>0, <2>1, <2>2
    <3>5. -r = q => -(Step * q) = b
      BY <1>0, <3>1
    <3>. QED  BY <2>2, <3>2, <3>3, <3>4, <3>5
  <2>5. BucketOf(t) % Step = 0 /\ BucketOf(t) \in Int
    <3>. DEFINE s == -q
    <3>1. s \in Int /\ Step * s = -(Step * q)
      BY <1>0, <2>1
    <3>. HIDE DEF s
    <3>2. (Step * s) % Step = 0 /\ Step * s \in Int
      BY <3>1, IsMultiple
    <3>. QED  BY <2>2, <3>1, <3>2
  <2>. QED  BY <1>2, <2>1, <2>2, <2>3, <2>4, <2>5
<1>. QED  BY <1>1, <1>2

LEMMA NameTyped ==
  ASSUME rows \in Seq(Row), NEW p \in Samples
  PROVE  Name(p) \in Int /\ Name(p) % Step = 0 /\ -Far < Name(p) /\ Name(p) < Far
<1>. DEFINE t == TimeAt(p)
            b == BucketOf(t)
<1>1. t \in Int /\ -Far < t /\ t < Far /\ Far \in Int /\ 0 < Far
  BY SampleTyped DEF Far
<1>2. b \in Int /\ b % Step = 0 /\ ((0 <= b /\ b <= t) \/ (t <= b /\ b <= 0))
  <2>. HIDE DEF t
  <2>. QED  BY <1>1, BucketIs
<1>3. -Far < b /\ b < Far
  <2>. HIDE DEF t, b
  <2>. QED  BY <1>1, <1>2
<1>. QED  BY <1>2, <1>3 DEF Name

-----------------------------------------------------------------------------
(* What a turn of the loops passes                                         *)

LEMMA PassedTyped ==
  ASSUME FleetTypeOK, NEW p \in Passed
  PROVE  p \in Samples /\ IsPassed(p) /\ p[1] <= at[1]
<1>1. p \in Samples /\ IsPassed(p)
  BY DEF Passed
<1>2. p[1] \in Nat /\ at[1] \in Nat
  BY <1>1, SampleTyped DEF FleetTypeOK
<1>. QED  BY <1>1, <1>2 DEF IsPassed, Ended

LEMMA RowsKept ==
  ASSUME rows' = rows
  PROVE  /\ Samples' = Samples
         /\ \A p : TimeAt(p)' = TimeAt(p) /\ TypeAt(p)' = TypeAt(p) /\ Name(p)' = Name(p)
  BY DEF Samples, TimeAt, TypeAt, Name, EntryAt

\* Between rows, and between members, no sample is passed.
LEMMA NoSample ==
  ASSUME FleetTypeOK, rows' = rows,
         \/ at[2] = 0 /\ ThisRow.doc = Null /\ at' = <<at[1] + 1, 0, 1>>
         \/ at[2] = 0 /\ at' = <<at[1], 1, 1>>
         \/ at[2] > 0 /\ at[2] > Len(ThisRow.doc) /\ at' = <<at[1] + 1, 0, 1>>
  PROVE  /\ Passed' = Passed
         /\ \A i, m \in Nat : Ended(i, m) => Ended(i, m)'
         /\ \A p \in Passed : Ended(p[1], p[2])' => Ended(p[1], p[2])
<1>1. at[1] \in Nat /\ at[2] \in Nat /\ at[3] \in Nat \ {0} /\ rows \in Seq(Row)
  BY DEF FleetTypeOK
<1>2. \A p \in Samples : IsPassed(p)' <=> IsPassed(p)
  <2>. TAKE p \in Samples
  <2>1. /\ p[1] \in Nat /\ p[2] \in Nat \ {0} /\ p[3] \in Nat \ {0}
        /\ rows[p[1]].doc # Null
        /\ p[2] <= Len(rows[p[1]].doc)
    <3>1. p[2] \in 1..Len(rows[p[1]].doc) /\ Len(rows[p[1]].doc) \in Nat
      BY <1>1, SampleTyped
    <3>. QED  BY <1>1, <3>1, SampleTyped
  <2>2. CASE at[2] = 0 /\ ThisRow.doc = Null /\ at' = <<at[1] + 1, 0, 1>>
    <3>1. p[1] # at[1]
      BY <2>1, <2>2 DEF ThisRow
    <3>. QED  BY <1>1, <2>1, <2>2, <3>1 DEF IsPassed, Ended
  <2>3. CASE at[2] = 0 /\ at' = <<at[1], 1, 1>>
    BY <1>1, <2>1, <2>3 DEF IsPassed, Ended
  <2>4. CASE at[2] > 0 /\ at[2] > Len(ThisRow.doc) /\ at' = <<at[1] + 1, 0, 1>>
    <3>1. p[1] = at[1] => p[2] < at[2]
      <4>. SUFFICES ASSUME p[1] = at[1] PROVE p[2] < at[2]
        OBVIOUS
      <4>1. Len(ThisRow.doc) \in Nat /\ p[2] <= Len(ThisRow.doc)
        BY <1>1, <2>1, SampleTyped DEF ThisRow
      <4>. QED  BY <1>1, <2>1, <2>4, <4>1
    <3>. QED  BY <1>1, <2>1, <2>4, <3>1 DEF IsPassed, Ended
  <2>. QED  BY <2>2, <2>3, <2>4
<1>3. Passed' = Passed
  BY <1>2, RowsKept DEF Passed
<1>4. \A i, m \in Nat : Ended(i, m) => Ended(i, m)'
  BY <1>1 DEF Ended
<1>5. ASSUME NEW p \in Passed, Ended(p[1], p[2])' PROVE Ended(p[1], p[2])
  <2>1. /\ p \in Samples /\ IsPassed(p) /\ p[1] <= at[1]
        /\ p[1] \in Nat /\ p[2] \in Nat \ {0} /\ p[3] \in Nat
    BY <1>1, PassedTyped, SampleTyped
  <2>2. CASE at[2] = 0
    BY <1>1, <2>1, <2>2 DEF IsPassed, Ended
  <2>3. CASE at[2] > 0 /\ at[2] > Len(ThisRow.doc)
    <3>1. p[1] = at[1] => p[2] < at[2]
      <4>. SUFFICES ASSUME p[1] = at[1] PROVE p[2] < at[2]
        OBVIOUS
      <4>1. p[2] \in 1..Len(ThisRow.doc) /\ Len(ThisRow.doc) \in Nat
        BY <1>1, <2>1, SampleTyped DEF ThisRow
      <4>. QED  BY <1>1, <2>1, <2>3, <4>1
    <3>. QED  BY <1>1, <2>1, <3>1 DEF Ended
  <2>. QED  BY <2>2, <2>3
<1>. QED  BY <1>3, <1>4, <1>5

\* At the end of a member no sample is passed, and the member has ended.
LEMMA MemberEnds ==
  ASSUME FleetTypeOK, rows' = rows, EndMember
  PROVE  /\ Passed' = Passed
         /\ \A i, m \in Nat : Ended(i, m)' <=> Ended(i, m) \/ (i = at[1] /\ m = at[2])
         /\ \A p \in Passed : ~(p[1] = at[1] /\ p[2] = at[2] + 1)
<1>1. /\ at[1] \in Nat /\ at[2] \in Nat \ {0} /\ at[3] \in Nat \ {0} /\ rows \in Seq(Row)
      /\ at' = <<at[1], at[2] + 1, 1>> /\ at[3] > Len(ThisRow.doc[at[2]])
  BY DEF FleetTypeOK, EndMember, InMember
<1>2. \A i, m \in Nat : Ended(i, m)' <=> Ended(i, m) \/ (i = at[1] /\ m = at[2])
  BY <1>1 DEF Ended
<1>3. \A p \in Samples : /\ p[1] \in Nat /\ p[2] \in Nat /\ p[3] \in Nat \ {0}
                         /\ p[1] = at[1] /\ p[2] = at[2] => p[3] < at[3]
  <2>. TAKE p \in Samples
  <2>1. p[1] \in Nat /\ p[2] \in Nat /\ p[3] \in Nat \ {0}
    BY <1>1, SampleTyped
  <2>2. ASSUME p[1] = at[1], p[2] = at[2] PROVE p[3] < at[3]
    <3>1. ThisRow.doc \in Seq(Seq(Entry)) /\ at[2] \in 1..Len(ThisRow.doc)
      BY <1>1, <2>2, SampleTyped DEF ThisRow
    <3>2. Len(ThisRow.doc[at[2]]) \in Nat
      BY <3>1
    <3>3. p[3] \in 1..Len(rows[p[1]].doc[p[2]])
      BY <1>1, SampleTyped
    <3>4. p[3] <= Len(ThisRow.doc[at[2]])
      BY <2>2, <3>2, <3>3 DEF ThisRow
    <3>. QED  BY <1>1, <2>1, <3>2, <3>4
  <2>. QED  BY <2>1, <2>2
<1>4. \A p \in Samples : IsPassed(p)' <=> IsPassed(p)
  BY <1>1, <1>2, <1>3 DEF IsPassed
<1>5. Passed' = Passed
  BY <1>4, RowsKept DEF Passed
<1>6. \A p \in Passed : ~(p[1] = at[1] /\ p[2] = at[2] + 1)
  BY <1>1, <1>3 DEF Passed, IsPassed, Ended
<1>. QED  BY <1>2, <1>5, <1>6

\* An entry passes itself, if it can be read.
LEMMA EntryPassed ==
  ASSUME FleetTypeOK, NextEntry
  PROVE  /\ rows' = rows /\ view' = view /\ trips' = trips /\ view # Null
         /\ \A i, m : Ended(i, m)' <=> Ended(i, m)
         /\ at \notin Passed
         /\ EntryAt(at).read => at \in Samples /\ Passed' = Passed \cup {at}
         /\ ~EntryAt(at).read => Passed' = Passed
<1>1. /\ at[1] \in Nat \ {0} /\ at[2] \in Nat \ {0} /\ at[3] \in Nat \ {0} /\ rows \in Seq(Row)
      /\ at = <<at[1], at[2], at[3]>>
      /\ at' = <<at[1], at[2], at[3] + 1>>
      /\ rows' = rows /\ view' = view /\ trips' = trips /\ view # Null
      /\ at[1] <= Len(rows) /\ ThisRow.doc # Null
      /\ at[2] <= Len(ThisRow.doc) /\ at[3] <= Len(ThisRow.doc[at[2]])
  <2>1. InMember /\ at[3] <= Len(ThisRow.doc[at[2]]) /\ at' = <<at[1], at[2], at[3] + 1>>
    BY DEF NextEntry
  <2>2. rows' = rows /\ view' = view /\ trips' = trips
    BY DEF NextEntry
  <2>. QED  BY <2>1, <2>2 DEF FleetTypeOK, InMember, Scanning
<1>2. \A i, m : Ended(i, m)' <=> Ended(i, m)
  BY <1>1 DEF Ended
<1>3. at \in Samples <=> EntryAt(at).read
  <2>1. at[1] \in 1..Len(rows)
    BY <1>1
  <2>2. ThisRow \in Row
    BY <1>1, <2>1 DEF ThisRow
  <2>3. ThisRow.doc \in Seq(Seq(Entry))
    BY <1>1, <2>2 DEF Row
  <2>4. at[2] \in 1..Len(ThisRow.doc) /\ at[3] \in 1..Len(ThisRow.doc[at[2]])
    BY <1>1, <2>3
  <2>5. IsSample(at) <=> EntryAt(at).read
    BY <1>1, <2>1, <2>4 DEF IsSample, ThisRow
  <2>. QED  BY <1>1, <2>5, SampleIs
<1>4. ~IsPassed(at)
  BY <1>1 DEF IsPassed, Ended
<1>5. \A p \in Samples : IsPassed(p)' <=> IsPassed(p) \/ p = at
  <2>. TAKE p \in Samples
  <2>1. p[1] \in Nat /\ p[2] \in Nat /\ p[3] \in Nat /\ p = <<p[1], p[2], p[3]>>
    BY <1>1, SampleTyped
  <2>2. p = at <=> p[1] = at[1] /\ p[2] = at[2] /\ p[3] = at[3]
    BY <1>1, <2>1
  <2>3. at'[1] = at[1] /\ at'[2] = at[2] /\ at'[3] = at[3] + 1
    BY <1>1
  <2>4. Ended(p[1], p[2])' <=> Ended(p[1], p[2])
    BY <1>2
  <2>5. p[3] < at[3] + 1 <=> p[3] < at[3] \/ p[3] = at[3]
    BY <1>1, <2>1
  <2>. QED  BY <2>2, <2>3, <2>4, <2>5 DEF IsPassed
<1>6. Passed' = {p \in Samples : IsPassed(p)'}
  BY <1>1, RowsKept DEF Passed
<1>7. EntryAt(at).read => Passed' = Passed \cup {at}
  BY <1>3, <1>5, <1>6 DEF Passed
<1>8. ~EntryAt(at).read => Passed' = Passed
  BY <1>3, <1>5, <1>6 DEF Passed
<1>. QED  BY <1>1, <1>2, <1>3, <1>4, <1>7, <1>8 DEF Passed

-----------------------------------------------------------------------------
(* The invariant                                                           *)

LEMMA FleetTypeInit ==
  ASSUME FleetInit
  PROVE  FleetTypeOK /\ Passed = {}
<1>1. /\ view = Null /\ rows = <<>> /\ at = <<1, 0, 1>> /\ data = [type \in {} |-> <<>>]
      /\ seg = <<>> /\ trips = <<>> /\ tmin = Far /\ tmax = -Far
  BY DEF FleetInit
<1>2. rows \in Seq(Row) /\ Len(rows) = 0 /\ seg \in Seq(Samples)
      /\ trips \in Seq([id : Nat, points : Seq(Samples)])
  BY <1>1
<1>3. Passed = {}
  BY <1>1, <1>2, SampleTyped DEF Passed
<1>4. IsFiniteSet(Passed)
  BY <1>3, FS_EmptySet
<1>5. tmin \in Int /\ tmax \in Int
  BY <1>1 DEF Far
<1>6. at \in (Nat \ {0}) \X Nat \X (Nat \ {0}) /\ at[1] <= Len(rows) + 1 /\ at[2] = 0
  BY <1>1, <1>2
<1>7. DOMAIN data \subseteq ShipType
  BY <1>1
<1>. QED  BY <1>1, <1>2, <1>3, <1>4, <1>5, <1>6, <1>7 DEF FleetTypeOK

\* Before the first row there is nothing.
LEMMA NothingPassed ==
  ASSUME Passed = {}, at = <<1, 0, 1>>, data = [type \in {} |-> <<>>],
         seg = <<>>, trips = <<>>, tmin = Far, tmax = -Far
  PROVE  SeriesInv /\ TripInv
<1>1. SeriesInv
  BY DEF SeriesInv, TypesKnown, Accumulated, BucketRange
<1>2. Len(seg) = 0 /\ Len(trips) = 0 /\ PassedOf(at[1], at[2]) = {}
  BY DEF PassedOf
<1>3. TripInv
  BY <1>2 DEF TripInv, Lists, TripsWhole, TripsApart, TripsAll, ClockRange
<1>. QED  BY <1>1, <1>3

LEMMA InitKept == FleetInit => FleetInv
<1>. SUFFICES ASSUME FleetInit PROVE FleetInv
  OBVIOUS
<1>1. FleetTypeOK /\ Passed = {}
  BY FleetTypeInit
<1>2. SeriesInv /\ TripInv
  BY <1>1, NothingPassed DEF FleetInit
<1>. QED  BY <1>1, <1>2 DEF FleetInv

LEMMA RowsErrKeeps ==
  ASSUME RowsErr
  PROVE  FleetInv'
<1>1. FleetInit'
  BY DEF RowsErr, FleetInit
<1>2. (FleetInit => FleetInv)'
  BY InitKept, PTL
<1>. QED  BY <1>1, <1>2

LEMMA QueryKeeps ==
  ASSUME FleetInv, Query
  PROVE  FleetInv'
<1>1. FleetInit /\ FleetTypeOK
  BY DEF FleetInv, FleetTypeOK, Query
<1>2. /\ view' \in {"timeseries", "trajectories"} /\ rows' \in Rows /\ rows' \in Seq(Row)
      /\ at' = <<1, 0, 1>> /\ data' = [type \in {} |-> <<>>] /\ seg' = <<>> /\ trips' = <<>>
      /\ tmin' = Far /\ tmax' = -Far
  BY <1>1, FleetAssumption DEF FleetInit, Query
<1>3. \A p \in Samples' : p[1] \in Nat \ {0} /\ p[2] \in Nat \ {0}
  <2>1. \A i \in DOMAIN rows' : rows'[i].doc # Null =>
            /\ DOMAIN rows'[i].doc \subseteq Nat \ {0}
    <3>. TAKE i \in DOMAIN rows'
    <3>. HAVE rows'[i].doc # Null
    <3>1. rows'[i] \in Row
      BY <1>2
    <3>2. rows'[i].doc \in Seq(Seq(Entry))
      BY <3>1 DEF Row
    <3>. QED  BY <3>2
  <2>2. DOMAIN rows' \subseteq Nat \ {0}
    BY <1>2
  <2>. QED  BY <2>1, <2>2 DEF Samples
<1>4. Passed' = {}
  <2>1. \A p \in Samples' : ~IsPassed(p)'
    BY <1>2, <1>3 DEF IsPassed, Ended
  <2>. QED  BY <2>1 DEF Passed
<1>5. FleetTypeOK'
  <2>1. view' # Null
    BY <1>2, FleetAssumption
  <2>2. IsFiniteSet(Passed')
    BY <1>4, FS_EmptySet
  <2>3. tmin' \in Int /\ tmax' \in Int
    BY <1>2 DEF Far
  <2>4. at' \in (Nat \ {0}) \X Nat \X (Nat \ {0}) /\ at'[1] <= Len(rows') + 1 /\ at'[2] = 0
    BY <1>2
  <2>5. seg' \in Seq(Samples') /\ trips' \in Seq([id : Nat, points : Seq(Samples')]) /\ DOMAIN data' \subseteq ShipType
    BY <1>2
  <2>. QED  BY <1>2, <2>1, <2>2, <2>3, <2>4, <2>5 DEF FleetTypeOK
<1>6. SeriesInv' /\ TripInv'
  <2>1. SeriesInv'
    BY <1>2, <1>4 DEF SeriesInv, TypesKnown, Accumulated, BucketRange
  <2>2. Len(seg') = 0 /\ Len(trips') = 0 /\ PassedOf(at[1], at[2])' = {}
    BY <1>2, <1>4 DEF PassedOf
  <2>3. TripInv'
    BY <1>2, <1>4, <2>2 DEF TripInv, Lists, TripsWhole, TripsApart, TripsAll, ClockRange
  <2>. QED  BY <2>1, <2>3
<1>. QED  BY <1>5, <1>6 DEF FleetInv

LEMMA TripTyped ==
  ASSUME FleetTypeOK, NEW x \in 1..Len(trips)
  PROVE  trips[x].points \in Seq(Samples) /\ trips[x].id \in Nat
<1>. DEFINE Trip == [id : Nat, points : Seq(Samples)]
<1>1. trips \in Seq(Trip)
  BY DEF FleetTypeOK
<1>2. trips[x] \in Trip
  <2>. HIDE DEF Trip
  <2>. QED  BY <1>1
<1>. QED  BY <1>2

LEMMA TripEnds ==
  ASSUME FleetTypeOK, TripsWhole, NEW x \in 1..Len(trips)
  PROVE  /\ Start(x) \in Samples /\ Finish(x) \in Samples
         /\ Finish(x) = trips[x].points[Len(trips[x].points)]
<1>1. trips[x].points \in Seq(Samples) /\ Len(trips[x].points) >= 2
  BY TripTyped DEF TripsWhole
<1>. QED  BY <1>1 DEF Start, Finish, Last

\* What a turn that passes no sample leaves as it was.
LEMMA SeriesFrame ==
  ASSUME SeriesInv, UNCHANGED <<view, rows, data, tmin, tmax>>, Passed' = Passed,
         at'[2] > 0 => at[2] > 0 /\ at'[1] = at[1]
  PROVE  SeriesInv'
<1>. SUFFICES ASSUME view # "trajectories" PROVE TypesKnown' /\ Accumulated' /\ BucketRange'
  BY DEF SeriesInv
<1>1. TypesKnown /\ Accumulated /\ BucketRange
  BY DEF SeriesInv
<1>2. \A p : TypeAt(p)' = TypeAt(p) /\ Name(p)' = Name(p)
  BY RowsKept
<1>3. TypesKnown'
  BY <1>1, <1>2 DEF TypesKnown, ThisRow
<1>4. \A type, b : Those(type, b)' = Those(type, b)
  BY <1>2 DEF Those
<1>5. Accumulated'
  BY <1>1, <1>4 DEF Accumulated
<1>6. BucketRange'
  BY <1>1, <1>2 DEF BucketRange
<1>. QED  BY <1>3, <1>5, <1>6

LEMMA TripFrame ==
  ASSUME FleetTypeOK, TripInv, UNCHANGED <<view, rows, trips, tmin, tmax>>, Passed' = Passed,
         \A i, m \in Nat : Ended(i, m) => Ended(i, m)',
         \A p \in Passed : Ended(p[1], p[2])' => Ended(p[1], p[2]),
         Lists(seg, PassedOf(at[1], at[2]))'
  PROVE  TripInv'
<1>. SUFFICES ASSUME view # "timeseries"
              PROVE  TripsWhole' /\ TripsApart' /\ TripsAll' /\ ClockRange'
  BY DEF TripInv
<1>1. TripsWhole /\ TripsApart /\ TripsAll /\ ClockRange
  BY DEF TripInv
<1>2. \A x : Start(x)' = Start(x) /\ Finish(x)' = Finish(x)
  BY DEF Start, Finish
<1>3. \A i, m : PassedOf(i, m)' = PassedOf(i, m)
  BY DEF PassedOf
<1>4. TripsWhole'
  <2>. SUFFICES ASSUME NEW x \in 1..Len(trips)
                PROVE  Ended(Start(x)[1], Start(x)[2])'
    BY <1>1, <1>2, <1>3 DEF TripsWhole
  <2>1. Ended(Start(x)[1], Start(x)[2])
    BY <1>1 DEF TripsWhole
  <2>2. Start(x) \in Samples
    BY <1>1, TripEnds
  <2>3. Start(x)[1] \in Nat /\ Start(x)[2] \in Nat
    BY <2>2, SampleTyped DEF FleetTypeOK
  <2>. QED  BY <1>2, <2>1, <2>3
<1>5. TripsApart'
  BY <1>1, <1>2 DEF TripsApart
<1>6. TripsAll'
  <2>. SUFFICES ASSUME NEW p \in Passed, NEW q \in Passed,
                       p[1] = q[1], p[2] = q[2], p[3] < q[3], Ended(p[1], p[2])'
                PROVE  \E x \in 1..Len(trips) : Start(x)[1] = p[1] /\ Start(x)[2] = p[2]
    BY <1>2 DEF TripsAll
  <2>1. Ended(p[1], p[2])
    OBVIOUS
  <2>. QED  BY <1>1, <2>1 DEF TripsAll
<1>7. ClockRange'
  <2>1. \A x : TimeAt(Start(x))' = TimeAt(Start(x)) /\ TimeAt(Finish(x))' = TimeAt(Finish(x))
    BY <1>2 DEF TimeAt, EntryAt
  <2>. QED  BY <1>1, <2>1 DEF ClockRange
<1>. QED  BY <1>4, <1>5, <1>6, <1>7

LEMMA NextRowKeeps ==
  ASSUME FleetInv, NextRow
  PROVE  FleetInv'
<1>1. /\ FleetTypeOK /\ SeriesInv /\ TripInv /\ view # Null /\ at[2] = 0 /\ at[1] <= Len(rows)
      /\ UNCHANGED <<view, rows, seg, trips, tmin, tmax>>
      /\ rows \in Seq(Row) /\ at[1] \in Nat \ {0}
  BY DEF FleetInv, FleetTypeOK, NextRow, Scanning
<1>2. \/ ThisRow.doc = Null /\ at' = <<at[1] + 1, 0, 1>> /\ UNCHANGED data
      \/ /\ ThisRow.doc # Null /\ at' = <<at[1], 1, 1>>
         /\ data' = IF view = "timeseries" /\ ThisRow.type \notin DOMAIN data
                    THEN [type \in DOMAIN data \cup {ThisRow.type} |->
                             IF type \in DOMAIN data THEN data[type] ELSE <<>>]
                    ELSE data
  BY DEF NextRow
<1>3. /\ Passed' = Passed
      /\ \A i, m \in Nat : Ended(i, m) => Ended(i, m)'
      /\ \A p \in Passed : Ended(p[1], p[2])' => Ended(p[1], p[2])
  BY <1>1, <1>2, NoSample
<1>4. Samples' = Samples /\ \A p : TypeAt(p)' = TypeAt(p) /\ Name(p)' = Name(p)
  BY <1>1, RowsKept
<1>5. ThisRow \in Row
  BY <1>1 DEF ThisRow
<1>6. FleetTypeOK'
  <2>1. /\ at' \in (Nat \ {0}) \X Nat \X (Nat \ {0})
        /\ at'[1] <= Len(rows) + 1
        /\ at'[2] > 0 => /\ at'[1] <= Len(rows) /\ rows[at'[1]].doc # Null
                         /\ at'[2] <= Len(rows[at'[1]].doc) + 1
    <3>1. CASE ThisRow.doc = Null /\ at' = <<at[1] + 1, 0, 1>>
      BY <1>1, <3>1
    <3>2. CASE ThisRow.doc # Null /\ at' = <<at[1], 1, 1>>
      <4>1. ThisRow.doc \in Seq(Seq(Entry))
        BY <1>5, <3>2 DEF Row
      <4>2. 1 <= Len(ThisRow.doc) + 1
        BY <4>1
      <4>. QED  BY <1>1, <3>2, <4>2 DEF ThisRow
    <3>. QED  BY <1>2, <3>1, <3>2
  <2>2. DOMAIN data' \subseteq ShipType
    BY <1>1, <1>2, <1>5 DEF FleetTypeOK, Row
  <2>. QED  BY <1>1, <1>3, <1>4, <2>1, <2>2 DEF FleetTypeOK, ThisRow
<1>7. SeriesInv'
  <2>. SUFFICES ASSUME view # "trajectories" PROVE TypesKnown' /\ Accumulated' /\ BucketRange'
    BY <1>1 DEF SeriesInv
  <2>1. TypesKnown /\ Accumulated /\ BucketRange /\ view = "timeseries"
    BY <1>1 DEF SeriesInv, FleetTypeOK
  <2>2. /\ DOMAIN data \subseteq DOMAIN data'
        /\ \A type \in DOMAIN data : data'[type] = data[type]
        /\ \A type \in DOMAIN data' : type \in DOMAIN data \/ data'[type] = <<>>
        /\ at'[2] > 0 => at'[1] = at[1] /\ ThisRow.type \in DOMAIN data'
    BY <1>2, <2>1
  <2>3. TypesKnown'
    BY <1>1, <1>3, <1>4, <2>1, <2>2 DEF TypesKnown, ThisRow
  <2>4. \A type, b : Those(type, b)' = Those(type, b)
    BY <1>3, <1>4 DEF Those
  <2>5. DOMAIN <<>> = {}
    OBVIOUS
  <2>6. Accumulated'
    BY <2>1, <2>2, <2>4, <2>5 DEF Accumulated
  <2>7. BucketRange'
    BY <1>1, <1>3, <1>4, <2>1 DEF BucketRange
  <2>. QED  BY <2>3, <2>6, <2>7
<1>8. TripInv'
  <2>. SUFFICES ASSUME view # "timeseries" PROVE TripInv'
    BY <1>1 DEF TripInv
  <2>1. \A p \in Passed : ~(p[1] = at[1])
    <3>. SUFFICES ASSUME NEW p \in Passed, p[1] = at[1] PROVE FALSE
      OBVIOUS
    <3>1. IsPassed(p) /\ p[2] \in Nat \ {0}
      BY <1>1, PassedTyped, SampleTyped
    <3>. QED  BY <1>1, <3>1 DEF IsPassed, Ended
  <2>2. \A p \in Passed : p[1] <= at[1] /\ p[1] \in Nat
    BY <1>1, PassedTyped, SampleTyped
  <2>3. PassedOf(at[1], at[2]) = {} /\ PassedOf(at[1], at[2])' = {}
    BY <1>1, <1>2, <1>3, <2>1, <2>2 DEF PassedOf
  <2>4. Lists(seg, PassedOf(at[1], at[2]))'
    BY <1>1, <2>3 DEF TripInv, Lists
  <2>. QED  BY <1>1, <1>3, <2>4, TripFrame
<1>. QED  BY <1>6, <1>7, <1>8 DEF FleetInv

LEMMA EndRowKeeps ==
  ASSUME FleetInv, EndRow
  PROVE  FleetInv'
<1>1. /\ FleetTypeOK /\ SeriesInv /\ TripInv /\ view # Null /\ at[2] > 0 /\ at[2] > Len(ThisRow.doc)
      /\ at[1] <= Len(rows) /\ at' = <<at[1] + 1, 0, 1>>
      /\ UNCHANGED <<view, rows, data, seg, trips, tmin, tmax>>
      /\ rows \in Seq(Row) /\ at[1] \in Nat \ {0} /\ at[2] \in Nat
  BY DEF FleetInv, FleetTypeOK, EndRow, Scanning
<1>2. /\ Passed' = Passed
      /\ \A i, m \in Nat : Ended(i, m) => Ended(i, m)'
      /\ \A p \in Passed : Ended(p[1], p[2])' => Ended(p[1], p[2])
  BY <1>1, NoSample
<1>3. Samples' = Samples
  BY <1>1, RowsKept
<1>4. FleetTypeOK'
  BY <1>1, <1>2, <1>3 DEF FleetTypeOK
<1>5. SeriesInv'
  BY <1>1, <1>2, SeriesFrame
<1>6. TripInv'
  <2>. SUFFICES ASSUME view # "timeseries" PROVE TripInv'
    BY <1>1 DEF TripInv
  <2>1. \A p \in Passed : /\ p[1] <= at[1] /\ p[1] \in Nat
                          /\ ~(p[1] = at[1] /\ p[2] = at[2])
    <3>. TAKE p \in Passed
    <3>1. p[1] <= at[1] /\ p \in Samples
      BY <1>1, PassedTyped
    <3>2. p[1] \in Nat /\ p[2] \in 1..Len(rows[p[1]].doc) /\ Len(rows[p[1]].doc) \in Nat
      BY <1>1, <3>1, SampleTyped
    <3>. QED  BY <1>1, <3>1, <3>2 DEF ThisRow
  <2>2. PassedOf(at[1], at[2]) = {} /\ PassedOf(at[1], at[2])' = {}
    BY <1>1, <1>2, <2>1 DEF PassedOf
  <2>3. Lists(seg, PassedOf(at[1], at[2]))'
    BY <1>1, <2>2 DEF TripInv, Lists
  <2>. QED  BY <1>1, <1>2, <2>3, TripFrame
<1>. QED  BY <1>4, <1>5, <1>6 DEF FleetInv

\* A sample more for its bucket.
LEMMA SampleCounted ==
  ASSUME FleetInv, NextEntry, EntryAt(at).read, view = "timeseries"
  PROVE  SeriesInv'
<1>. DEFINE b == Name(at)
            ty == TypeAt(at)
            accs == data[ty]
            a == IF b \in DOMAIN accs THEN accs[b] ELSE [of |-> {}, n |-> 0]
<1>1. /\ FleetTypeOK /\ TypesKnown /\ Accumulated /\ BucketRange /\ rows \in Seq(Row)
      /\ tmin \in Int /\ tmax \in Int /\ IsFiniteSet(Passed)
  BY DEF FleetInv, SeriesInv, FleetTypeOK
<1>2. /\ rows' = rows /\ view' = view /\ at \notin Passed /\ at \in Samples
      /\ Passed' = Passed \cup {at}
  BY <1>1, EntryPassed
<1>3. /\ data' = [data EXCEPT ![ty] = [x \in DOMAIN accs \cup {b} |->
                      IF x = b THEN [of |-> a.of \cup {at}, n |-> a.n + 1] ELSE accs[x]]]
      /\ tmin' = IF b < tmin THEN b ELSE tmin
      /\ tmax' = IF b > tmax THEN b ELSE tmax
  <2>1. CountSample(at)
    BY DEF NextEntry
  <2>. QED  BY <2>1 DEF CountSample, Added, Name
<1>4. \A p : TypeAt(p)' = TypeAt(p) /\ Name(p)' = Name(p)
  BY <1>2, RowsKept
<1>5. ty \in DOMAIN data /\ at'[1] = at[1] /\ ThisRow.type = ty
  <2>1. at[2] > 0 /\ at' = <<at[1], at[2], at[3] + 1>>
    BY DEF NextEntry, InMember
  <2>. QED  BY <1>1, <2>1 DEF TypesKnown, ThisRow, TypeAt
<1>6. /\ DOMAIN data' = DOMAIN data
      /\ \A type \in DOMAIN data : type # ty => data'[type] = data[type]
      /\ data'[ty] = [x \in DOMAIN accs \cup {b} |->
                         IF x = b THEN [of |-> a.of \cup {at}, n |-> a.n + 1] ELSE accs[x]]
  BY <1>3, <1>5
<1>7. TypesKnown'
  <2>1. \A p \in Passed' : TypeAt(p) \in DOMAIN data' /\ Name(p) \in DOMAIN data'[TypeAt(p)]
    BY <1>1, <1>2, <1>5, <1>6 DEF TypesKnown
  <2>. QED  BY <1>2, <1>4, <1>5, <1>6, <2>1 DEF TypesKnown, ThisRow
<1>8. \A type, c : Those(type, c)' = IF type = ty /\ c = b THEN Those(type, c) \cup {at} ELSE Those(type, c)
  BY <1>2, <1>4 DEF Those
<1>9. a.of = Those(ty, b) /\ a.n = Cardinality(Those(ty, b))
  <2>1. CASE b \in DOMAIN accs
    BY <1>1, <1>5, <2>1 DEF Accumulated
  <2>2. CASE b \notin DOMAIN accs
    <3>1. Those(ty, b) = {}
      BY <1>1, <2>2 DEF TypesKnown, Those
    <3>. QED  BY <2>2, <3>1, FS_EmptySet
  <2>. QED  BY <2>1, <2>2
<1>10. Cardinality(Those(ty, b) \cup {at}) = Cardinality(Those(ty, b)) + 1
  <2>1. Those(ty, b) \subseteq Passed /\ at \notin Those(ty, b)
    BY <1>2 DEF Those
  <2>2. IsFiniteSet(Those(ty, b))
    BY <1>1, <2>1, FS_Subset
  <2>. QED  BY <2>1, <2>2, FS_AddElement
<1>11. Accumulated'
  <2>. SUFFICES ASSUME NEW type \in DOMAIN data, NEW c \in DOMAIN data'[type]
                PROVE  /\ Those(type, c)' # {}
                       /\ data'[type][c] = [of |-> Those(type, c)', n |-> Cardinality(Those(type, c)')]
    BY <1>6 DEF Accumulated
  <2>1. CASE type = ty /\ c = b
    <3>1. data'[ty][b] = [of |-> a.of \cup {at}, n |-> a.n + 1]
      BY <1>6
    <3>. HIDE DEF a
    <3>. QED  BY <1>8, <1>9, <1>10, <2>1, <3>1
  <2>2. CASE ~(type = ty /\ c = b)
    <3>1. c \in DOMAIN data[type] /\ data'[type][c] = data[type][c]
      BY <1>6, <2>2
    <3>2. Those(type, c)' = Those(type, c)
      BY <1>8, <2>2
    <3>. QED  BY <1>1, <3>1, <3>2 DEF Accumulated
  <2>. QED  BY <2>1, <2>2
<1>12. BucketRange'
  <2>1. b \in Int /\ -Far < b /\ b < Far /\ Far \in Int
    BY <1>1, <1>2, NameTyped DEF Far
  <2>2. \A p \in Passed : Name(p) \in Int /\ p \in Samples
    BY <1>1, PassedTyped, NameTyped
  <2>. HIDE DEF b
  <2>3. /\ \E p \in Passed' : tmin' = Name(p)
        /\ \E p \in Passed' : tmax' = Name(p)
        /\ \A p \in Passed' : tmin' <= Name(p) /\ Name(p) <= tmax'
    <3>1. Name(at) = b
      BY DEF b
    <3>2. CASE Passed = {}
      BY <1>1, <1>2, <1>3, <2>1, <3>1, <3>2 DEF BucketRange
    <3>3. CASE Passed # {}
      BY <1>1, <1>2, <1>3, <2>1, <2>2, <3>1, <3>3 DEF BucketRange
    <3>. QED  BY <3>2, <3>3
  <2>4. Passed' # {}
    BY <1>2
  <2>. QED  BY <1>4, <2>3, <2>4 DEF BucketRange
<1>. QED  BY <1>7, <1>11, <1>12 DEF SeriesInv

\* A point more for the segment.
LEMMA PointAdded ==
  ASSUME FleetInv, NextEntry, EntryAt(at).read, view = "trajectories"
  PROVE  TripInv'
<1>1. /\ FleetTypeOK /\ Lists(seg, PassedOf(at[1], at[2]))
      /\ TripsWhole /\ TripsApart /\ TripsAll /\ ClockRange
      /\ rows \in Seq(Row) /\ at \in (Nat \ {0}) \X Nat \X (Nat \ {0})
  BY DEF FleetInv, TripInv, FleetTypeOK
<1>2. /\ rows' = rows /\ view' = view /\ trips' = trips /\ at \notin Passed /\ at \in Samples
      /\ Passed' = Passed \cup {at}
      /\ \A i, m : Ended(i, m)' <=> Ended(i, m)
  BY <1>1, EntryPassed
<1>3. seg' = Append(seg, at) /\ tmin' = tmin /\ tmax' = tmax /\ at' = <<at[1], at[2], at[3] + 1>>
  BY DEF NextEntry
<1>4. seg \in Seq(Samples)
  BY <1>1 DEF FleetTypeOK
<1>5. ~Ended(at[1], at[2])
  BY <1>1 DEF Ended
<1>6. Lists(seg, PassedOf(at[1], at[2]))'
  <2>1. PassedOf(at[1], at[2])' = PassedOf(at[1], at[2]) \cup {at}
    BY <1>2, <1>3 DEF PassedOf
  <2>2. \A p \in PassedOf(at[1], at[2]) : p[3] < at[3]
    BY <1>5 DEF PassedOf, Passed, IsPassed
  <2>3. /\ Len(seg') = Len(seg) + 1 /\ Len(seg) \in Nat
        /\ \A k \in 1..Len(seg) : seg'[k] = seg[k]
        /\ seg'[Len(seg) + 1] = at
    BY <1>2, <1>3, <1>4
  <2>. DEFINE S == PassedOf(at[1], at[2])
  <2>4. Lists(seg', S \cup {at})
    <3>. HIDE DEF S
    <3>1. Lists(seg, S) /\ \A p \in S : p[3] < at[3]
      BY <1>1, <2>2 DEF S
    <3>2. \A k \in 1..Len(seg') : seg'[k] \in S \cup {at}
      BY <2>3, <3>1 DEF Lists
    <3>3. \A p \in S \cup {at} : \E k \in 1..Len(seg') : seg'[k] = p
      <4>1. \A p \in S : \E k \in 1..Len(seg) : seg'[k] = p
        BY <2>3, <3>1 DEF Lists
      <4>2. 1..Len(seg) \subseteq 1..Len(seg') /\ Len(seg) + 1 \in 1..Len(seg')
        BY <2>3
      <4>. QED  BY <2>3, <4>1, <4>2
    <3>4. ASSUME NEW j \in 1..Len(seg'), NEW k \in 1..Len(seg'), j < k
          PROVE  seg'[j][3] < seg'[k][3]
      <4>1. j \in 1..Len(seg)
        BY <2>3, <3>4
      <4>2. seg'[j] = seg[j] /\ seg[j] \in S
        BY <2>3, <3>1, <4>1 DEF Lists
      <4>3. CASE k \in 1..Len(seg)
        BY <2>3, <3>1, <3>4, <4>1, <4>3 DEF Lists
      <4>4. CASE k = Len(seg) + 1
        BY <2>3, <3>1, <4>2, <4>4
      <4>. QED  BY <2>3, <4>3, <4>4
    <3>. QED  BY <3>2, <3>3, <3>4 DEF Lists
  <2>. QED  BY <2>1, <2>4
<1>7. \A x : Start(x)' = Start(x) /\ Finish(x)' = Finish(x)
  BY <1>2 DEF Start, Finish
<1>8. TripsWhole'
  <2>. SUFFICES ASSUME NEW x \in 1..Len(trips)
                PROVE  PassedOf(Start(x)[1], Start(x)[2])' = PassedOf(Start(x)[1], Start(x)[2])
    BY <1>1, <1>2, <1>7 DEF TripsWhole
  <2>1. Ended(Start(x)[1], Start(x)[2])
    BY <1>1 DEF TripsWhole
  <2>2. ~(at[1] = Start(x)[1] /\ at[2] = Start(x)[2])
    BY <1>5, <2>1
  <2>. QED  BY <1>2, <1>7, <2>2 DEF PassedOf
<1>9. TripsApart'
  BY <1>1, <1>2, <1>7 DEF TripsApart
<1>10. TripsAll'
  <2>. SUFFICES ASSUME NEW p \in Passed', NEW q \in Passed',
                       p[1] = q[1], p[2] = q[2], p[3] < q[3], Ended(p[1], p[2])
                PROVE  \E x \in 1..Len(trips) : Start(x)[1] = p[1] /\ Start(x)[2] = p[2]
    BY <1>2, <1>7 DEF TripsAll
  <2>1. p \in Passed /\ q \in Passed
    BY <1>2, <1>5
  <2>. QED  BY <1>1, <2>1 DEF TripsAll
<1>11. ClockRange'
  <2>1. \A x : TimeAt(Start(x))' = TimeAt(Start(x)) /\ TimeAt(Finish(x))' = TimeAt(Finish(x))
    BY <1>2, <1>7 DEF TimeAt, EntryAt
  <2>. QED  BY <1>1, <1>2, <1>3, <2>1 DEF ClockRange
<1>. QED  BY <1>6, <1>8, <1>9, <1>10, <1>11 DEF TripInv

LEMMA NextEntryKeeps ==
  ASSUME FleetInv, NextEntry
  PROVE  FleetInv'
<1>1. /\ FleetTypeOK /\ SeriesInv /\ TripInv /\ rows \in Seq(Row)
      /\ at \in (Nat \ {0}) \X Nat \X (Nat \ {0}) /\ IsFiniteSet(Passed)
      /\ view \in {"timeseries", "trajectories"}
  <2>1. view # Null
    BY DEF NextEntry, InMember, Scanning
  <2>. QED  BY <2>1 DEF FleetInv, FleetTypeOK
<1>2. /\ rows' = rows /\ view' = view /\ trips' = trips
      /\ \A i, m : Ended(i, m)' <=> Ended(i, m)
      /\ EntryAt(at).read => at \in Samples /\ Passed' = Passed \cup {at}
      /\ ~EntryAt(at).read => Passed' = Passed
  BY <1>1, EntryPassed
<1>3. /\ at' = <<at[1], at[2], at[3] + 1>> /\ at[1] <= Len(rows) /\ at[2] > 0
      /\ ThisRow.doc # Null /\ at[2] <= Len(ThisRow.doc)
  <2>1. at' = <<at[1], at[2], at[3] + 1>> /\ InMember
    BY DEF NextEntry
  <2>. QED  BY <1>1, <2>1 DEF InMember, Scanning, FleetTypeOK
<1>4. /\ ~EntryAt(at).read => UNCHANGED <<data, seg, tmin, tmax>>
      /\ EntryAt(at).read /\ view = "timeseries" => CountSample(at)
      /\ EntryAt(at).read /\ view = "trajectories" =>
            seg' = Append(seg, at) /\ UNCHANGED <<data, tmin, tmax>>
  BY DEF NextEntry
<1>5. Samples' = Samples
  BY <1>2, RowsKept
<1>6. IsFiniteSet(Passed')
  BY <1>1, <1>2, FS_AddElement
<1>7. FleetTypeOK'
  <2>1. /\ at' \in (Nat \ {0}) \X Nat \X (Nat \ {0}) /\ at'[1] = at[1] /\ at'[2] = at[2]
        /\ ThisRow' = ThisRow
    BY <1>1, <1>2, <1>3 DEF ThisRow
  <2>2. /\ tmin' \in Int /\ tmax' \in Int /\ DOMAIN data' \subseteq ShipType
        /\ seg' \in Seq(Samples) /\ (view # "trajectories" => seg' = <<>>)
    <3>1. /\ tmin \in Int /\ tmax \in Int /\ DOMAIN data \subseteq ShipType
          /\ seg \in Seq(Samples) /\ (view # "trajectories" => seg = <<>>)
      BY <1>1 DEF FleetTypeOK
    <3>2. CASE ~EntryAt(at).read
      BY <1>4, <3>1, <3>2
    <3>3. CASE EntryAt(at).read /\ view = "timeseries"
      <4>1. BucketOf(TimeAt(at)) \in Int
        BY <1>1, <1>2, <3>3, NameTyped DEF Name
      <4>. QED  BY <1>4, <3>1, <3>3, <4>1 DEF CountSample
    <3>4. CASE EntryAt(at).read /\ view = "trajectories"
      BY <1>2, <1>4, <3>1, <3>4
    <3>. QED  BY <1>1, <3>2, <3>3, <3>4
  <2>3. view' # Null
    BY <1>1, <1>2, FleetAssumption
  <2>. QED  BY <1>1, <1>2, <1>5, <1>6, <2>1, <2>2, <2>3 DEF FleetTypeOK
<1>8. SeriesInv'
  <2>1. CASE view = "trajectories"
    BY <1>2, <2>1 DEF SeriesInv
  <2>2. CASE ~EntryAt(at).read
    BY <1>1, <1>2, <1>3, <1>4, <2>2, SeriesFrame
  <2>3. CASE EntryAt(at).read /\ view = "timeseries"
    BY <2>3, SampleCounted
  <2>. QED  BY <1>1, <2>1, <2>2, <2>3
<1>9. TripInv'
  <2>1. CASE view = "timeseries"
    BY <1>2, <2>1 DEF TripInv
  <2>2. CASE ~EntryAt(at).read /\ view # "timeseries"
    <3>1. Lists(seg, PassedOf(at[1], at[2]))
      BY <1>1, <2>2 DEF TripInv
    <3>2. PassedOf(at[1], at[2])' = PassedOf(at[1], at[2])
      BY <1>2, <1>3, <2>2 DEF PassedOf
    <3>3. Lists(seg, PassedOf(at[1], at[2]))'
      BY <1>4, <2>2, <3>1, <3>2 DEF Lists
    <3>. QED  BY <1>1, <1>2, <1>4, <2>2, <3>3, TripFrame
  <2>3. CASE EntryAt(at).read /\ view = "trajectories"
    BY <2>3, PointAdded
  <2>. QED  BY <1>1, <2>1, <2>2, <2>3
<1>. QED  BY <1>7, <1>8, <1>9 DEF FleetInv

\* The segment has the places of the member that ends: with fewer than two there is no pair.
LEMMA NoPair ==
  ASSUME Lists(seg, PassedOf(at[1], at[2])), seg \in Seq(Samples), Len(seg) < 2, rows \in Seq(Row),
         NEW p \in Passed, NEW q \in Passed,
         p[1] = at[1], p[2] = at[2], q[1] = at[1], q[2] = at[2], p[3] < q[3]
  PROVE  FALSE
<1>1. PICK j \in 1..Len(seg), k \in 1..Len(seg) : seg[j] = p /\ seg[k] = q
  BY DEF Lists, PassedOf
<1>2. j = k
  BY <1>1
<1>3. p[3] \in Nat
  BY SampleTyped DEF Passed
<1>. QED  BY <1>1, <1>2, <1>3

\* The member ends without a trip.
LEMMA NoTrip ==
  ASSUME FleetInv, EndMember, view = "trajectories", Len(seg) < 2
  PROVE  TripsWhole' /\ TripsApart' /\ TripsAll' /\ ClockRange'
<1>1. /\ FleetTypeOK /\ Lists(seg, PassedOf(at[1], at[2]))
      /\ TripsWhole /\ TripsApart /\ TripsAll /\ ClockRange
      /\ rows \in Seq(Row) /\ seg \in Seq(Samples)
  BY DEF FleetInv, TripInv, FleetTypeOK
<1>2. UNCHANGED <<rows, trips, tmin, tmax>>
  BY DEF EndMember
<1>3. /\ Passed' = Passed
      /\ \A i, m \in Nat : Ended(i, m)' <=> Ended(i, m) \/ (i = at[1] /\ m = at[2])
  BY <1>1, <1>2, MemberEnds
<1>4. \A x : Start(x)' = Start(x) /\ Finish(x)' = Finish(x)
  BY <1>2 DEF Start, Finish
<1>5. TripsWhole'
  <2>. SUFFICES ASSUME NEW x \in 1..Len(trips)
                PROVE  Ended(Start(x)[1], Start(x)[2])' /\ PassedOf(Start(x)[1], Start(x)[2])' = PassedOf(Start(x)[1], Start(x)[2])
    BY <1>1, <1>2, <1>4 DEF TripsWhole
  <2>1. Start(x)[1] \in Nat /\ Start(x)[2] \in Nat
    BY <1>1, TripEnds, SampleTyped
  <2>. QED  BY <1>1, <1>3, <1>4, <2>1 DEF TripsWhole, PassedOf
<1>6. TripsApart'
  BY <1>1, <1>2, <1>4 DEF TripsApart
<1>7. TripsAll'
  <2>. SUFFICES ASSUME NEW p \in Passed, NEW q \in Passed,
                       p[1] = q[1], p[2] = q[2], p[3] < q[3], Ended(p[1], p[2])'
                PROVE  \E x \in 1..Len(trips) : Start(x)[1] = p[1] /\ Start(x)[2] = p[2]
    BY <1>2, <1>3, <1>4 DEF TripsAll
  <2>1. p[1] \in Nat /\ p[2] \in Nat
    BY <1>1, SampleTyped DEF Passed
  <2>2. Ended(p[1], p[2])
    BY <1>1, <1>3, <2>1, NoPair
  <2>. QED  BY <1>1, <2>2 DEF TripsAll
<1>8. ClockRange'
  <2>1. \A x : TimeAt(Start(x))' = TimeAt(Start(x)) /\ TimeAt(Finish(x))' = TimeAt(Finish(x))
    BY <1>2, <1>4 DEF TimeAt, EntryAt
  <2>. QED  BY <1>1, <1>2, <2>1 DEF ClockRange
<1>. QED  BY <1>5, <1>6, <1>7, <1>8

\* The member ends, and is a trip more.
LEMMA OneTrip ==
  ASSUME FleetInv, EndMember, view = "trajectories", Len(seg) >= 2
  PROVE  TripsWhole' /\ TripsApart' /\ TripsAll' /\ ClockRange' /\ tmin' \in Int /\ tmax' \in Int
<1>. DEFINE first == seg[1]
            final == Last(seg)
<1>1. /\ FleetTypeOK /\ Lists(seg, PassedOf(at[1], at[2]))
      /\ TripsWhole /\ TripsApart /\ TripsAll /\ ClockRange
      /\ rows \in Seq(Row) /\ seg \in Seq(Samples) /\ at[1] \in Nat /\ at[2] \in Nat
      /\ tmin \in Int /\ tmax \in Int
      /\ trips \in Seq([id : Nat, points : Seq(Samples)])
  BY DEF FleetInv, TripInv, FleetTypeOK
<1>0. PICK new \in Nat : new = Len(trips) + 1
  BY <1>1
<1>2. /\ rows' = rows
      /\ trips' = Append(trips, [id |-> ThisRow.id, points |-> seg])
      /\ tmin' = IF TimeAt(first) < tmin THEN TimeAt(first) ELSE tmin
      /\ tmax' = IF TimeAt(final) > tmax THEN TimeAt(final) ELSE tmax
  <2>1. ~(Len(seg) < 2)
    BY <1>1
  <2>. QED  BY <2>1 DEF EndMember
<1>3. /\ Passed' = Passed
      /\ \A i, m \in Nat : Ended(i, m)' <=> Ended(i, m) \/ (i = at[1] /\ m = at[2])
  BY <1>1, <1>2, MemberEnds
<1>4. /\ Len(trips') = new /\ Len(trips) \in Nat
      /\ \A x \in 1..Len(trips) : trips'[x] = trips[x]
      /\ trips'[new] = [id |-> ThisRow.id, points |-> seg]
  <2>. DEFINE t == [id |-> ThisRow.id, points |-> seg]
  <2>. HIDE DEF t
  <2>1. trips' = Append(trips, t)
    BY <1>2 DEF t
  <2>2. Len(trips') = new /\ Len(trips) \in Nat /\ trips'[new] = t
        /\ \A x \in 1..Len(trips) : trips'[x] = trips[x]
    BY <1>0, <1>1, <2>1
  <2>. QED  BY <2>2 DEF t
<1>5. \A x \in 1..Len(trips) : Start(x)' = Start(x) /\ Finish(x)' = Finish(x)
  BY <1>4 DEF Start, Finish
<1>6. Start(new)' = first /\ Finish(new)' = final
  BY <1>4 DEF Start, Finish
<1>7. /\ first \in Samples /\ final \in Samples
      /\ first[1] = at[1] /\ first[2] = at[2]
  BY <1>1 DEF Lists, PassedOf, Last
<1>8. ~Ended(at[1], at[2])
  BY <1>1 DEF Ended
<1>9. \A x \in 1..Len(trips) : /\ Start(x)[1] \in Nat /\ Start(x)[2] \in Nat
                               /\ Start(x) \in Samples /\ Finish(x) \in Samples
  BY <1>1, TripEnds, SampleTyped
<1>10. TripsWhole'
  <2>. SUFFICES ASSUME NEW x \in 1..Len(trips')
                PROVE  /\ Len(trips'[x].points) >= 2
                       /\ Lists(trips'[x].points, PassedOf(Start(x)'[1], Start(x)'[2]))
                       /\ Ended(Start(x)[1], Start(x)[2])'
                       /\ trips'[x].id = rows'[Start(x)'[1]].id
    BY <1>3 DEF TripsWhole, Lists, PassedOf
  <2>2. CASE x \in 1..Len(trips)
    BY <1>1, <1>2, <1>3, <1>4, <1>5, <1>9, <2>2 DEF TripsWhole
  <2>3. CASE x = new
    <3>1. trips'[x].points = seg /\ trips'[x].id = ThisRow.id
      BY <1>4, <2>3
    <3>2. Start(x)'[1] = at[1] /\ Start(x)'[2] = at[2]
      BY <1>6, <1>7, <2>3
    <3>. QED  BY <1>1, <1>2, <1>3, <3>1, <3>2 DEF ThisRow
  <2>. QED  BY <1>0, <1>4, <2>2, <2>3
<1>11. TripsApart'
  <2>1. \A x \in 1..Len(trips) : ~(Start(x)[1] = at[1] /\ Start(x)[2] = at[2])
    BY <1>1, <1>8 DEF TripsWhole
  <2>. SUFFICES ASSUME NEW x \in 1..Len(trips'), NEW y \in 1..Len(trips'),
                       Start(x)'[1] = Start(y)'[1], Start(x)'[2] = Start(y)'[2]
                PROVE  x = y
    BY DEF TripsApart
  <2>2. (x \in 1..Len(trips) \/ x = new) /\ (y \in 1..Len(trips) \/ y = new)
    BY <1>0, <1>4
  <2>3. CASE x \in 1..Len(trips) /\ y \in 1..Len(trips)
    BY <1>1, <1>5, <2>3 DEF TripsApart
  <2>4. CASE x \in 1..Len(trips) /\ y = new
    BY <1>5, <1>6, <1>7, <2>1, <2>4
  <2>5. CASE x = new /\ y \in 1..Len(trips)
    BY <1>5, <1>6, <1>7, <2>1, <2>5
  <2>. QED  BY <2>2, <2>3, <2>4, <2>5
<1>12. 1..Len(trips) \subseteq 1..Len(trips') /\ new \in 1..Len(trips')
  BY <1>0, <1>4
<1>13. TripsAll'
  <2>. SUFFICES ASSUME NEW p \in Passed, NEW q \in Passed,
                       p[1] = q[1], p[2] = q[2], p[3] < q[3], Ended(p[1], p[2])'
                PROVE  \E x \in 1..Len(trips') : Start(x)'[1] = p[1] /\ Start(x)'[2] = p[2]
    BY <1>3 DEF TripsAll
  <2>1. p[1] \in Nat /\ p[2] \in Nat
    BY <1>1, SampleTyped DEF Passed
  <2>2. CASE Ended(p[1], p[2])
    <3>1. \E x \in 1..Len(trips) : Start(x)[1] = p[1] /\ Start(x)[2] = p[2]
      BY <1>1, <2>2 DEF TripsAll
    <3>. QED  BY <1>5, <1>12, <3>1
  <2>3. CASE p[1] = at[1] /\ p[2] = at[2]
    BY <1>6, <1>7, <1>12, <2>3
  <2>. QED  BY <1>3, <2>1, <2>2, <2>3
<1>14. ClockRange' /\ tmin' \in Int /\ tmax' \in Int
  <2>. DEFINE a == TimeAt(first)
              z == TimeAt(final)
  <2>1. /\ a \in Int /\ -Far < a /\ a < Far
        /\ z \in Int /\ -Far < z /\ z < Far
        /\ Far \in Int
    <3>. HIDE DEF first, final
    <3>1. Far \in Int
      BY DEF Far
    <3>. QED  BY <1>1, <1>7, <3>1, SampleTyped
  <2>2. \A x \in 1..Len(trips) : TimeAt(Start(x)) \in Int /\ TimeAt(Finish(x)) \in Int
    BY <1>1, <1>9, SampleTyped
  <2>3. \A p : TimeAt(p)' = TimeAt(p)
    BY <1>2, RowsKept
  <2>4. /\ \A x \in 1..Len(trips) : TimeAt(Start(x))' = TimeAt(Start(x)) /\ TimeAt(Finish(x))' = TimeAt(Finish(x))
        /\ TimeAt(Start(new))' = a /\ TimeAt(Finish(new))' = z
    BY <1>2, <1>5, <1>6 DEF TimeAt, EntryAt
  <2>5. trips' # <<>>
    BY <1>0, <1>4
  <2>6. trips = <<>> => Len(trips) = 0
    OBVIOUS
  <2>7. tmin' = (IF a < tmin THEN a ELSE tmin) /\ tmax' = (IF z > tmax THEN z ELSE tmax)
    BY <1>2
  <2>. HIDE DEF a, z
  <2>8. \A x \in 1..Len(trips') : x \in 1..Len(trips) \/ x = new
    BY <1>0, <1>4
  <2>9. /\ tmin' <= a /\ z <= tmax' /\ tmin' \in Int /\ tmax' \in Int
        /\ tmin' <= tmin /\ tmax <= tmax'
    BY <1>1, <2>1, <2>7
  <2>10. \A x \in 1..Len(trips') : tmin' <= TimeAt(Start(x))' /\ TimeAt(Finish(x))' <= tmax'
    <3>. TAKE x \in 1..Len(trips')
    <3>1. CASE x \in 1..Len(trips)
      <4>1. tmin <= TimeAt(Start(x)) /\ TimeAt(Finish(x)) <= tmax
        BY <1>1, <3>1 DEF ClockRange
      <4>2. tmin' <= TimeAt(Start(x)) /\ TimeAt(Finish(x)) <= tmax'
        <5>. DEFINE s == TimeAt(Start(x))
                    f == TimeAt(Finish(x))
        <5>1. s \in Int /\ f \in Int /\ tmin <= s /\ f <= tmax /\ tmin \in Int /\ tmax \in Int
          BY <1>1, <2>2, <3>1, <4>1
        <5>. HIDE DEF s, f
        <5>2. tmin' <= s /\ f <= tmax'
          BY <2>9, <5>1
        <5>. QED  BY <5>2 DEF s, f
      <4>. QED  BY <2>4, <3>1, <4>2
    <3>2. CASE x = new
      BY <2>4, <2>9, <3>2
    <3>. QED  BY <2>8, <3>1, <3>2
  <2>11. tmin' = a \/ (trips # <<>> /\ tmin' = tmin)
    BY <1>1, <2>1, <2>7 DEF ClockRange
  <2>12. tmax' = z \/ (trips # <<>> /\ tmax' = tmax)
    BY <1>1, <2>1, <2>7 DEF ClockRange
  <2>13. \E x \in 1..Len(trips') : tmin' = TimeAt(Start(x))'
    BY <1>1, <1>12, <2>4, <2>11 DEF ClockRange
  <2>14. \E x \in 1..Len(trips') : tmax' = TimeAt(Finish(x))'
    BY <1>1, <1>12, <2>4, <2>12 DEF ClockRange
  <2>. QED  BY <2>5, <2>9, <2>10, <2>13, <2>14 DEF ClockRange
<1>. QED  BY <1>10, <1>11, <1>13, <1>14

LEMMA EndMemberKeeps ==
  ASSUME FleetInv, EndMember
  PROVE  FleetInv'
<1>1. /\ FleetTypeOK /\ SeriesInv /\ TripInv /\ rows \in Seq(Row) /\ seg \in Seq(Samples)
      /\ at[1] \in Nat \ {0} /\ at[2] \in Nat \ {0} /\ at[1] <= Len(rows)
      /\ IsFiniteSet(Passed) /\ ThisRow.doc # Null /\ at[2] <= Len(ThisRow.doc)
      /\ view \in {"timeseries", "trajectories"}
      /\ trips \in Seq([id : Nat, points : Seq(Samples)])
  <2>1. view # Null /\ at[2] > 0 /\ at[1] <= Len(rows) /\ at[2] <= Len(ThisRow.doc)
    BY DEF EndMember, InMember, Scanning
  <2>. QED  BY <2>1 DEF FleetInv, FleetTypeOK
<1>2. /\ at' = <<at[1], at[2] + 1, 1>> /\ seg' = <<>> /\ UNCHANGED <<view, rows, data>>
      /\ Len(seg) < 2 => UNCHANGED <<trips, tmin, tmax>>
      /\ ~(Len(seg) < 2) => trips' = Append(trips, [id |-> ThisRow.id, points |-> seg])
  BY DEF EndMember
<1>3. /\ Passed' = Passed
      /\ \A p \in Passed : ~(p[1] = at[1] /\ p[2] = at[2] + 1)
  BY <1>1, <1>2, MemberEnds
<1>4. Samples' = Samples
  BY <1>2, RowsKept
<1>5. view = "timeseries" => seg = <<>> /\ Len(seg) = 0
  BY <1>1 DEF FleetTypeOK
<1>6. FleetTypeOK'
  <2>1. ThisRow \in Row
    BY <1>1 DEF ThisRow
  <2>2. ThisRow.id \in Nat /\ ThisRow.doc \in Seq(Seq(Entry))
    BY <1>1, <2>1 DEF Row
  <2>3. /\ at' \in (Nat \ {0}) \X Nat \X (Nat \ {0}) /\ at'[1] = at[1] /\ at'[2] = at[2] + 1
        /\ at[2] + 1 <= Len(ThisRow.doc) + 1 /\ ThisRow' = ThisRow
    <3>1. at' \in (Nat \ {0}) \X Nat \X (Nat \ {0}) /\ at'[1] = at[1] /\ at'[2] = at[2] + 1
      BY <1>1, <1>2
    <3>2. Len(ThisRow.doc) \in Nat
      BY <2>2
    <3>3. at[2] + 1 <= Len(ThisRow.doc) + 1
      BY <1>1, <3>2
    <3>4. ThisRow' = ThisRow
      BY <1>2, <3>1 DEF ThisRow
    <3>. QED  BY <3>1, <3>3, <3>4
  <2>4. tmin' \in Int /\ tmax' \in Int
    <3>1. CASE Len(seg) < 2
      BY <1>1, <1>2, <3>1 DEF FleetTypeOK
    <3>2. CASE ~(Len(seg) < 2)
      <4>1. Len(seg) >= 2 /\ view = "trajectories"
        BY <1>1, <1>5, <3>2
      <4>. QED  BY <4>1, OneTrip
    <3>. QED  BY <3>1, <3>2
  <2>5. trips' \in Seq([id : Nat, points : Seq(Samples)])
    <3>. DEFINE Trip == [id : Nat, points : Seq(Samples)]
                t == [id |-> ThisRow.id, points |-> seg]
    <3>1. t \in Trip
      BY <1>1, <2>2
    <3>2. trips \in Seq(Trip) /\ (trips' = trips \/ trips' = Append(trips, t))
      BY <1>1, <1>2
    <3>. HIDE DEF Trip, t
    <3>3. trips' \in Seq(Trip)
      BY <3>1, <3>2
    <3>. QED  BY <3>3 DEF Trip
  <2>6. seg' \in Seq(Samples)
    BY <1>2
  <2>7. DOMAIN data' \subseteq ShipType /\ view' \in {Null, "timeseries", "trajectories"}
        /\ rows' \in Seq(Row) /\ (view' # Null => rows' \in Rows) /\ view' # Null
    BY <1>1, <1>2, FleetAssumption DEF FleetTypeOK
  <2>. QED  BY <1>1, <1>2, <1>3, <1>4, <2>3, <2>4, <2>5, <2>6, <2>7 DEF FleetTypeOK
<1>7. SeriesInv'
  <2>1. CASE view = "trajectories"
    BY <1>2, <2>1 DEF SeriesInv
  <2>2. CASE view = "timeseries"
    <3>1. UNCHANGED <<view, rows, data, tmin, tmax>> /\ at'[1] = at[1]
      BY <1>1, <1>2, <1>5, <2>2
    <3>. QED  BY <1>1, <1>3, <3>1, SeriesFrame
  <2>. QED  BY <1>1, <2>1, <2>2
<1>8. TripInv'
  <2>1. CASE view = "timeseries"
    BY <1>2, <2>1 DEF TripInv
  <2>2. CASE view = "trajectories"
    <3>1. PassedOf(at[1], at[2])' = {}
      BY <1>2, <1>3 DEF PassedOf
    <3>2. Lists(seg, PassedOf(at[1], at[2]))'
      BY <1>2, <3>1 DEF Lists
    <3>3. TripsWhole' /\ TripsApart' /\ TripsAll' /\ ClockRange'
      <4>1. Len(seg) < 2 \/ Len(seg) >= 2
        BY <1>1
      <4>. QED  BY <2>2, <4>1, NoTrip, OneTrip
    <3>. QED  BY <3>2, <3>3 DEF TripInv
  <2>. QED  BY <1>1, <2>1, <2>2
<1>. QED  BY <1>6, <1>7, <1>8 DEF FleetInv

\* No place is counted or drawn twice, none is left out, and no trip goes on into another
\* member: each turn of the loops keeps what they have accumulated about the places passed.
THEOREM FleetInvariance == FleetSpec => []FleetInv
<1>1. FleetInit => FleetInv
  BY InitKept
<1>2. FleetInv /\ [FleetNext]_fleetVars => FleetInv'
  <2>. SUFFICES ASSUME FleetInv, [FleetNext]_fleetVars PROVE FleetInv'
    OBVIOUS
  <2>1. CASE Query
    BY <2>1, QueryKeeps
  <2>2. CASE NextRow
    BY <2>2, NextRowKeeps
  <2>3. CASE NextEntry
    BY <2>3, NextEntryKeeps
  <2>4. CASE EndMember
    BY <2>4, EndMemberKeeps
  <2>5. CASE EndRow
    BY <2>5, EndRowKeeps
  <2>6. CASE RowsErr
    BY <2>6, RowsErrKeeps
  <2>7. CASE UNCHANGED fleetVars
    <3>1. UNCHANGED <<view, rows, at, data, seg, trips, tmin, tmax>>
      BY <2>7 DEF fleetVars
    <3>2. FleetTypeOK' = FleetTypeOK
      BY <3>1 DEF FleetTypeOK, FleetInit, Passed, IsPassed, Ended, Samples, EntryAt, ThisRow
    <3>3. Passed' = Passed
      BY <3>1 DEF Passed, IsPassed, Ended, Samples, EntryAt
    <3>4. SeriesInv'
      BY <3>1, <3>3, SeriesFrame DEF FleetInv
    <3>5. TripInv'
      <4>1. \A i, m : Ended(i, m)' <=> Ended(i, m)
        BY <3>1 DEF Ended
      <4>2. TripInv /\ FleetTypeOK
        BY DEF FleetInv
      <4>3. CASE view = "timeseries"
        BY <3>1, <4>3 DEF TripInv
      <4>4. CASE view # "timeseries"
        <5>1. Lists(seg, PassedOf(at[1], at[2]))'
          BY <3>1, <3>3, <4>2, <4>4 DEF TripInv, Lists, PassedOf
        <5>. QED  BY <3>1, <3>3, <4>1, <4>2, <5>1, TripFrame
      <4>. QED  BY <4>3, <4>4
    <3>. QED  BY <3>2, <3>4, <3>5 DEF FleetInv
  <2>. QED  BY <2>1, <2>2, <2>3, <2>4, <2>5, <2>6, <2>7 DEF FleetNext
<1>. QED  BY <1>1, <1>2, PTL DEF FleetSpec

-----------------------------------------------------------------------------
(* The answers                                                             *)

\* When the loops are through, every sample is passed, and every member has ended.
LEMMA AllPassed ==
  ASSUME FleetTypeOK, Answered
  PROVE  Passed = Samples /\ \A p \in Samples : Ended(p[1], p[2])
<1>1. \A p \in Samples : Ended(p[1], p[2])
  BY SampleTyped DEF FleetTypeOK, Answered, Ended
<1>. QED  BY <1>1 DEF Passed, IsPassed

\* The buckets are the multiples of the step from the first to the last.
LEMMA Grid ==
  ASSUME tmin \in Int, tmax \in Int, tmin <= tmax, tmin % Step = 0, tmax % Step = 0
  PROVE  \E last \in Nat \ {0} :
            /\ DOMAIN Buckets = 1..last /\ Len(Buckets) = last /\ Buckets # <<>>
            /\ Buckets[1] = tmin /\ Buckets[last] = tmax
            /\ \A i \in 1..last : Buckets[i] \in Int /\ Buckets[i] % Step = 0
            /\ \A i \in 2..last : Buckets[i] = Buckets[i - 1] + Step
            /\ \A i, j \in 1..last : Buckets[i] = Buckets[j] => i = j
            /\ \A b \in Int : b % Step = 0 /\ tmin <= b /\ b <= tmax =>
                  \E i \in 1..last : Buckets[i] = b
<1>. DEFINE a == tmin \div Step
            z == tmax \div Step
            last == z - a + 1
<1>0. Step \in Nat \ {0}
  BY FleetAssumption
<1>1. /\ a \in Int /\ tmin = Step * a
      /\ z \in Int /\ tmax = Step * z
  <2>1. /\ a \in Int /\ Step * a \in Int /\ tmin = Step * a + (tmin % Step)
        /\ z \in Int /\ Step * z \in Int /\ tmax = Step * z + (tmax % Step)
    BY <1>0, StepDivision
  <2>. QED  BY <2>1
<1>. HIDE DEF a, z
<1>2. ~(z < a)
  <2>. SUFFICES ASSUME z < a PROVE FALSE
    OBVIOUS
  <2>1. Step * z + Step <= Step * a
    BY <1>1, MultiplesApart
  <2>2. Step * z \in Int /\ Step * a \in Int
    BY <1>0, <1>1
  <2>. QED  BY <1>0, <1>1, <2>1, <2>2
<1>3. last \in Nat \ {0}
  BY <1>1, <1>2
<1>4. ((tmax - tmin) \div Step) + 1 = last
  <2>. DEFINE d == z - a
              u == tmax - tmin
  <2>1. d \in Int /\ Step * d = Step * z - Step * a
    BY <1>0, <1>1
  <2>2. u \in Int /\ Step * d <= u /\ u < Step * d + Step
    BY <1>0, <1>1, <2>1
  <2>3. u \div Step = d
    <3>. HIDE DEF d, u
    <3>. QED  BY <2>1, <2>2, OneQuotient
  <2>. QED  BY <2>3
<1>5. Buckets = [i \in 1..last |-> tmin + (i - 1) * Step]
  <2>1. ~(tmax < tmin)
    OBVIOUS
  <2>. QED  BY <1>4, <2>1 DEF Buckets
<1>. HIDE DEF last
<1>6. \A i \in 1..last : Buckets[i] = Step * (a + (i - 1))
  <2>. TAKE i \in 1..last
  <2>1. i - 1 \in Int /\ Buckets[i] = tmin + (i - 1) * Step
    BY <1>3, <1>5
  <2>2. Step * (a + (i - 1)) = Step * a + (i - 1) * Step
    BY <1>0, <1>1, <2>1
  <2>. QED  BY <1>1, <2>1, <2>2
<1>7. \A i \in 1..last : Buckets[i] \in Int /\ Buckets[i] % Step = 0
  <2>. TAKE i \in 1..last
  <2>. DEFINE q == a + (i - 1)
  <2>1. q \in Int /\ Buckets[i] = Step * q
    BY <1>1, <1>3, <1>6
  <2>. HIDE DEF q
  <2>. QED  BY <2>1, IsMultiple
<1>8. \A i \in 2..last : Buckets[i] = Buckets[i - 1] + Step
  <2>. TAKE i \in 2..last
  <2>1. i \in 1..last /\ i - 1 \in 1..last /\ i \in Int
    BY <1>3
  <2>2. Buckets[i] = tmin + (i - 1) * Step /\ Buckets[i - 1] = tmin + (i - 1 - 1) * Step
    BY <1>5, <2>1
  <2>3. (i - 1) * Step = (i - 1 - 1) * Step + Step /\ (i - 1 - 1) * Step \in Int
    BY <1>0, <2>1
  <2>. QED  BY <1>0, <2>2, <2>3
<1>9. Buckets[1] = tmin /\ Buckets[last] = tmax
  <2>1. 1 \in 1..last /\ last \in 1..last
    BY <1>3
  <2>2. a + (1 - 1) = a /\ a + (last - 1) = z
    BY <1>1 DEF last
  <2>. QED  BY <1>1, <1>6, <2>1, <2>2
<1>10. ASSUME NEW b \in Int, b % Step = 0, tmin <= b, b <= tmax
       PROVE  \E i \in 1..last : Buckets[i] = b
  <2>. DEFINE q == b \div Step
  <2>1. q \in Int /\ b = Step * q
    <3>1. q \in Int /\ Step * q \in Int /\ b = Step * q + (b % Step)
      BY <1>0, StepDivision
    <3>. QED  BY <1>10, <3>1
  <2>. HIDE DEF q
  <2>2. ~(q < a)
    <3>. SUFFICES ASSUME q < a PROVE FALSE
      OBVIOUS
    <3>1. Step * q + Step <= Step * a
      BY <1>1, <2>1, MultiplesApart
    <3>. QED  BY <1>0, <1>1, <1>10, <2>1, <3>1
  <2>3. ~(z < q)
    <3>. SUFFICES ASSUME z < q PROVE FALSE
      OBVIOUS
    <3>1. Step * z + Step <= Step * q
      BY <1>1, <2>1, MultiplesApart
    <3>. QED  BY <1>0, <1>1, <1>10, <2>1, <3>1
  <2>. DEFINE i == q - a + 1
  <2>4. i \in 1..last /\ a + (i - 1) = q
    BY <1>1, <2>1, <2>2, <2>3 DEF last
  <2>5. Buckets[i] = b
    <3>. HIDE DEF i
    <3>. QED  BY <1>6, <2>1, <2>4
  <2>. QED  BY <2>4, <2>5
<1>11. DOMAIN Buckets = 1..last /\ Len(Buckets) = last /\ Buckets # <<>>
  <2>1. Buckets \in Seq(Int) /\ DOMAIN Buckets = 1..last
    <3>1. \A i \in 1..last : Buckets[i] \in Int
      BY <1>7
    <3>. QED  BY <1>3, <1>5, <3>1
  <2>2. Len(Buckets) = last
    BY <1>3, <2>1
  <2>. QED  BY <1>3, <2>1, <2>2
<1>12. ASSUME NEW i \in 1..last, NEW j \in 1..last, Buckets[i] = Buckets[j] PROVE i = j
  <2>. DEFINE p == a + (i - 1)
              q == a + (j - 1)
  <2>1. p \in Int /\ q \in Int /\ Buckets[i] = Step * p /\ Buckets[j] = Step * q
    BY <1>1, <1>3, <1>6
  <2>2. Buckets[i] \in Int
    BY <1>7
  <2>3. p = q
    <3>. HIDE DEF p, q
    <3>1. CASE p < q
      <4>1. Step * p + Step <= Step * q
        BY <2>1, <3>1, MultiplesApart
      <4>2. Buckets[i] + Step <= Buckets[i]
        BY <1>12, <2>1, <4>1
      <4>. QED  BY <1>0, <2>2, <4>2
    <3>2. CASE q < p
      <4>1. Step * q + Step <= Step * p
        BY <2>1, <3>2, MultiplesApart
      <4>2. Buckets[i] + Step <= Buckets[i]
        BY <1>12, <2>1, <4>1
      <4>. QED  BY <1>0, <2>2, <4>2
    <3>. QED  BY <2>1, <3>1, <3>2
  <2>. QED  BY <1>1, <1>3, <2>3
<1>. QED  BY <1>3, <1>7, <1>8, <1>9, <1>10, <1>11, <1>12

\* timeseries.
LEMMA SeriesExact ==
  ASSUME FleetInv, Answered, view = "timeseries"
  PROVE  BucketsAreExact
<1>1. /\ FleetTypeOK /\ TypesKnown /\ Accumulated /\ BucketRange /\ rows \in Seq(Row)
      /\ tmin \in Int /\ tmax \in Int
  BY DEF FleetInv, SeriesInv, FleetTypeOK
<1>2. Passed = Samples
  BY <1>1, AllPassed
<1>3. \A p \in Samples : /\ Name(p) \in Int /\ Name(p) % Step = 0 /\ TimeAt(p) \in Int
                         /\ \A b \in Int : b % Step = 0 => (NamedBy(TimeAt(p), b) <=> Name(p) = b)
  <2>. TAKE p \in Samples
  <2>1. TimeAt(p) \in Int /\ Name(p) \in Int /\ Name(p) % Step = 0
    BY <1>1, SampleTyped, NameTyped
  <2>2. \A t \in Int : \A b \in Int : b % Step = 0 => (NamedBy(t, b) <=> BucketOf(t) = b)
    BY BucketIs
  <2>. QED  BY <2>1, <2>2 DEF Name
<1>4. CASE Samples = {}
  <2>1. tmax < tmin
    BY <1>1, <1>2, <1>4 DEF BucketRange, Far
  <2>2. Buckets = <<>> /\ DOMAIN Series = {}
    BY <2>1 DEF Buckets, Series
  <2>3. DOMAIN Buckets = {}
    BY <2>2
  <2>. QED
    BY <1>4, <2>2, <2>3
       DEF BucketsAreExact, BucketsFollow, SamplesCounted, AveragesDivided, BucketsUniform
<1>5. CASE Samples # {}
  <2>1. PICK p \in Samples, q \in Samples : tmin = Name(p) /\ tmax = Name(q)
    BY <1>1, <1>2, <1>5 DEF BucketRange
  <2>2. tmin <= tmax /\ tmin % Step = 0 /\ tmax % Step = 0
    BY <1>1, <1>2, <1>3, <2>1 DEF BucketRange
  <2>3. PICK last \in Nat \ {0} :
            /\ DOMAIN Buckets = 1..last /\ Len(Buckets) = last /\ Buckets # <<>>
            /\ Buckets[1] = tmin /\ Buckets[last] = tmax
            /\ \A i \in 1..last : Buckets[i] \in Int /\ Buckets[i] % Step = 0
            /\ \A i \in 2..last : Buckets[i] = Buckets[i - 1] + Step
            /\ \A i, j \in 1..last : Buckets[i] = Buckets[j] => i = j
            /\ \A b \in Int : b % Step = 0 /\ tmin <= b /\ b <= tmax =>
                  \E i \in 1..last : Buckets[i] = b
    BY <1>1, <2>2, Grid
  <2>4. ~(tmax < tmin)
    BY <1>1, <2>2
  <2>5. /\ DOMAIN Series = DOMAIN data
        /\ \A type \in DOMAIN data : \A i \in 1..last :
              Series[type][i] = IF Buckets[i] \in DOMAIN data[type] THEN data[type][Buckets[i]] ELSE Null
    BY <2>3, <2>4 DEF Series
  <2>6. \A i \in DOMAIN Buckets :
           Buckets[i] % Step = 0 /\ (i > 1 => Buckets[i] = Buckets[i - 1] + Step)
    <3>. TAKE i \in DOMAIN Buckets
    <3>1. i \in 1..last /\ (i > 1 => i \in 2..last)
      BY <2>3
    <3>. QED  BY <2>3, <3>1
  <2>7. ASSUME NEW type \in DOMAIN data, NEW i \in 1..last
        PROVE  LET those == Those(type, Buckets[i])
               IN  /\ Series[type][i] =
                          IF those = {} THEN Null ELSE [of |-> those, n |-> Cardinality(those)]
                   /\ those # {} => Series[type][i] # Null
    <3>. DEFINE those == Those(type, Buckets[i])
                average == [of |-> those, n |-> Cardinality(those)]
    <3>1. average # Null
      <4>1. those \subseteq Passed /\ those \subseteq Nat \X Nat \X Nat
        BY <1>1, SampleTyped DEF Those, Passed
      <4>2. Cardinality(those) \in Nat
        <5>. HIDE DEF those
        <5>. QED  BY <1>1, <4>1, FS_Subset, FS_CardinalityType DEF FleetTypeOK
      <4>. HIDE DEF those
      <4>. QED  BY <4>1, <4>2, FleetAssumption DEF Average
    <3>2. CASE Buckets[i] \in DOMAIN data[type]
      <4>1. those # {} /\ data[type][Buckets[i]] = average
        BY <1>1, <3>2 DEF Accumulated
      <4>2. Series[type][i] = data[type][Buckets[i]]
        BY <2>5, <3>2
      <4>. QED  BY <3>1, <4>1, <4>2
    <3>3. CASE Buckets[i] \notin DOMAIN data[type]
      <4>1. those = {}
        BY <1>1, <3>3 DEF TypesKnown, Those
      <4>. QED  BY <2>5, <3>3, <4>1
    <3>. QED  BY <3>2, <3>3
  <2>8. ASSUME NEW x \in Samples
        PROVE  /\ TypeAt(x) \in DOMAIN Series
               /\ \E i \in DOMAIN Buckets : \A j \in DOMAIN Buckets : Counted(x, j) <=> j = i
    <3>. DEFINE type == TypeAt(x)
    <3>1. tmin <= Name(x) /\ Name(x) <= tmax /\ type \in DOMAIN data
      BY <1>1, <1>2 DEF BucketRange, TypesKnown
    <3>2. PICK i \in 1..last : Buckets[i] = Name(x)
      BY <1>3, <2>3, <3>1
    <3>3. ASSUME NEW j \in 1..last PROVE Counted(x, j) <=> j = i
      <4>. DEFINE those == Those(type, Buckets[j])
      <4>1. /\ Series[type][j] =
                   IF those = {} THEN Null ELSE [of |-> those, n |-> Cardinality(those)]
            /\ those # {} => Series[type][j] # Null
        BY <2>7, <3>1
      <4>2. x \in those <=> Buckets[j] = Buckets[i]
        BY <1>2, <3>2 DEF Those
      <4>3. Counted(x, j) <=> Series[type][j] # Null /\ x \in Series[type][j].of
        BY DEF Counted
      <4>4. Counted(x, j) <=> x \in those
        <5>. HIDE DEF those, type
        <5>. QED  BY <4>1, <4>3
      <4>. QED  BY <2>3, <4>2, <4>4
    <3>. QED  BY <2>3, <2>5, <3>1, <3>3
  <2>9. ASSUME NEW type \in DOMAIN Series, NEW i \in DOMAIN Buckets, Series[type][i] # Null
        PROVE  Series[type][i].n = Cardinality(Series[type][i].of)
    <3>. DEFINE those == Those(type, Buckets[i])
    <3>1. Series[type][i] = IF those = {} THEN Null ELSE [of |-> those, n |-> Cardinality(those)]
      BY <2>3, <2>5, <2>7
    <3>. HIDE DEF those
    <3>. QED  BY <2>9, <3>1
  <2>10. ASSUME \A x \in Samples : TimeAt(x) >= 0
         PROVE  /\ \A i \in DOMAIN Buckets \cap {1, Len(Buckets)} :
                      \E x \in Samples : InBucket(TimeAt(x), Buckets[i])
                /\ \A type \in DOMAIN Series : \A i \in DOMAIN Buckets :
                      LET those == {x \in Samples : TypeAt(x) = type /\ InBucket(TimeAt(x), Buckets[i])}
                      IN  Series[type][i] =
                              IF those = {} THEN Null ELSE [of |-> those, n |-> Cardinality(those)]
    <3>1. \A x \in Samples : \A b \in Int : b % Step = 0 => (InBucket(TimeAt(x), b) <=> Name(x) = b)
      BY <1>3, <2>10 DEF NamedBy
    <3>2. InBucket(TimeAt(p), Buckets[1]) /\ InBucket(TimeAt(q), Buckets[last])
      BY <1>1, <2>1, <2>2, <2>3, <3>1
    <3>3. ASSUME NEW type \in DOMAIN Series, NEW i \in DOMAIN Buckets
          PROVE  LET those == {x \in Samples : TypeAt(x) = type /\ InBucket(TimeAt(x), Buckets[i])}
                 IN  Series[type][i] =
                         IF those = {} THEN Null ELSE [of |-> those, n |-> Cardinality(those)]
      <4>1. {x \in Samples : TypeAt(x) = type /\ InBucket(TimeAt(x), Buckets[i])}
               = Those(type, Buckets[i])
        BY <1>2, <2>3, <3>1 DEF Those
      <4>2. Series[type][i] =
               IF Those(type, Buckets[i]) = {} THEN Null
               ELSE [of |-> Those(type, Buckets[i]), n |-> Cardinality(Those(type, Buckets[i]))]
        BY <2>3, <2>5, <2>7
      <4>. QED  BY <4>1, <4>2
    <3>. QED  BY <2>3, <3>2, <3>3
  <2>11. (Buckets = <<>>) <=> (Samples = {})
    BY <1>5, <2>3
  <2>12. BucketsFollow
    BY <2>6, <2>11, Zenon DEF BucketsFollow
  <2>13. SamplesCounted
    BY <2>8 DEF SamplesCounted
  <2>14. AveragesDivided
    BY <2>9 DEF AveragesDivided
  <2>15. (\A x \in Samples : TimeAt(x) >= 0) => BucketsUniform
    BY <2>10 DEF BucketsUniform
  <2>. QED  BY <2>12, <2>13, <2>14, <2>15 DEF BucketsAreExact
<1>. QED  BY <1>4, <1>5

\* trajectories: in a list of a member's places the times increase, and the next point is the
\* next place that can be read.
LEMMA ListedTimes ==
  ASSUME FleetTypeOK, view # Null, NEW i \in Nat, NEW m \in Nat,
         NEW s \in Seq(Samples), Lists(s, PassedOf(i, m)), Len(s) >= 2,
         NEW k \in 1..Len(s)
  PROVE  TimeAt(s[1]) <= TimeAt(s[k]) /\ TimeAt(s[k]) <= TimeAt(Last(s))
<1>1. rows \in Seq(Row) /\ rows \in Rows
  BY DEF FleetTypeOK
<1>2. ASSUME NEW a \in 1..Len(s), NEW b \in 1..Len(s), a <= b
      PROVE  TimeAt(s[a]) <= TimeAt(s[b])
  <2>1. s[a] \in PassedOf(i, m) /\ s[b] \in PassedOf(i, m) /\ s[a] \in Samples /\ s[b] \in Samples
    BY DEF Lists
  <2>2. TimeAt(s[a]) \in Int /\ TimeAt(s[b]) \in Int
    BY <1>1, <2>1, SampleTyped
  <2>3. CASE a = b
    BY <2>2, <2>3
  <2>4. CASE a < b
    <3>1. s[a][3] < s[b][3]
      BY <2>4 DEF Lists
    <3>2. /\ i \in 1..Len(rows) /\ rows[i].doc # Null /\ rows[i].doc \in Seq(Seq(Entry))
          /\ m \in 1..Len(rows[i].doc)
          /\ s[a][1] = i /\ s[a][2] = m /\ s[b][1] = i /\ s[b][2] = m
          /\ s[a][3] \in 1..Len(rows[i].doc[m]) /\ s[b][3] \in 1..Len(rows[i].doc[m])
      BY <1>1, <2>1, SampleTyped DEF PassedOf
    <3>3. /\ i \in DOMAIN rows /\ m \in DOMAIN rows[i].doc
          /\ s[a][3] \in DOMAIN rows[i].doc[m] /\ s[b][3] \in DOMAIN rows[i].doc[m]
      <4>. DEFINE d == rows[i].doc
      <4>1. i \in DOMAIN rows
        BY <1>1, <3>2
      <4>. HIDE DEF d
      <4>2. d \in Seq(Seq(Entry)) /\ m \in 1..Len(d)
        BY <3>2 DEF d
      <4>3. m \in DOMAIN d /\ d[m] \in Seq(Entry)
        BY <4>2
      <4>4. DOMAIN d[m] = 1..Len(d[m])
        BY <4>3
      <4>. QED  BY <3>2, <4>1, <4>3, <4>4 DEF d
    <3>4. rows[i].doc[m][s[a][3]].t < rows[i].doc[m][s[b][3]].t
      BY <1>1, <3>1, <3>2, <3>3, FleetAssumption
    <3>5. TimeAt(s[a]) < TimeAt(s[b])
      BY <3>2, <3>4 DEF TimeAt, EntryAt
    <3>. QED  BY <2>2, <3>5
  <2>. QED  BY <1>2, <2>3, <2>4
<1>3. Last(s) = s[Len(s)] /\ 1 \in 1..Len(s) /\ Len(s) \in 1..Len(s) /\ 1 <= k /\ k <= Len(s)
  BY DEF Last
<1>. QED  BY <1>2, <1>3

LEMMA Neighbours ==
  ASSUME rows \in Seq(Row), NEW i \in Nat, NEW m \in Nat, Passed = Samples,
         NEW s \in Seq(Samples), Lists(s, PassedOf(i, m))
  PROVE  /\ \A k \in 1 .. (Len(s) - 1) : Follows(s[k], s[k + 1])
         /\ \A p, q \in PassedOf(i, m) : Follows(p, q) =>
               \E k \in 1 .. (Len(s) - 1) : s[k] = p /\ s[k + 1] = q
<1>1. \A k \in 1..Len(s) : s[k] \in Samples /\ s[k][1] = i /\ s[k][2] = m /\ s[k][3] \in Nat
  BY SampleTyped DEF Lists, PassedOf
<1>2. ASSUME NEW j \in 1..Len(s), NEW k \in 1..Len(s)
      PROVE  s[j][3] < s[k][3] <=> j < k
  <2>1. CASE j < k
    BY <2>1 DEF Lists
  <2>2. CASE k < j
    <3>1. s[k][3] < s[j][3]
      BY <2>2 DEF Lists
    <3>. QED  BY <1>1, <2>2, <3>1
  <2>3. CASE k = j
    BY <1>1, <2>3
  <2>. QED  BY <2>1, <2>2, <2>3
<1>3. ASSUME NEW k \in 1 .. (Len(s) - 1)
      PROVE  Follows(s[k], s[k + 1])
  <2>1. k \in 1..Len(s) /\ k + 1 \in 1..Len(s) /\ k < k + 1
    OBVIOUS
  <2>2. ASSUME NEW x \in Samples, x[1] = i, x[2] = m, s[k][3] < x[3], x[3] < s[k + 1][3]
        PROVE  FALSE
    <3>1. PICK j \in 1..Len(s) : s[j] = x
      BY <2>2 DEF Lists, PassedOf
    <3>2. k < j /\ j < k + 1
      BY <1>2, <2>1, <2>2, <3>1
    <3>. QED  BY <3>2
  <2>. QED  BY <1>1, <1>2, <2>1, <2>2 DEF Follows
<1>4. ASSUME NEW p \in PassedOf(i, m), NEW q \in PassedOf(i, m), Follows(p, q)
      PROVE  \E k \in 1 .. (Len(s) - 1) : s[k] = p /\ s[k + 1] = q
  <2>1. PICK j \in 1..Len(s), k \in 1..Len(s) : s[j] = p /\ s[k] = q
    BY DEF Lists
  <2>2. j < k
    BY <1>2, <1>4, <2>1 DEF Follows
  <2>3. ~(j + 1 < k)
    <3>. SUFFICES ASSUME j + 1 < k PROVE FALSE
      OBVIOUS
    <3>1. j + 1 \in 1..Len(s) /\ j < j + 1
      BY <2>2
    <3>2. s[j][3] < s[j + 1][3] /\ s[j + 1][3] < s[k][3] /\ s[j + 1] \in Samples
          /\ s[j + 1][1] = p[1] /\ s[j + 1][2] = p[2]
      BY <1>1, <1>2, <2>1, <3>1
    <3>. QED  BY <1>4, <2>1, <3>2 DEF Follows
  <2>4. k = j + 1 /\ j \in 1 .. (Len(s) - 1)
    BY <2>2, <2>3
  <2>. QED  BY <2>1, <2>4
<1>. QED  BY <1>3, <1>4

LEMMA TripsExact ==
  ASSUME FleetInv, Answered, view = "trajectories"
  PROVE  TripsKeepGaps
<1>1. /\ FleetTypeOK /\ TripsWhole /\ TripsApart /\ TripsAll /\ ClockRange
      /\ rows \in Seq(Row) /\ trips \in Seq([id : Nat, points : Seq(Samples)])
      /\ view # Null /\ tmin \in Int /\ tmax \in Int
  BY DEF FleetInv, TripInv, FleetTypeOK, Answered
<1>2. Passed = Samples /\ \A p \in Samples : Ended(p[1], p[2])
  BY <1>1, AllPassed
<1>3. DOMAIN trips = 1..Len(trips)
  BY <1>1
<1>4. \A x \in 1..Len(trips) :
         /\ trips[x].points \in Seq(Samples) /\ Len(trips[x].points) >= 2
         /\ DOMAIN trips[x].points = 1..Len(trips[x].points)
         /\ Start(x) \in Samples /\ Start(x)[1] \in Nat /\ Start(x)[2] \in Nat
         /\ Lists(trips[x].points, PassedOf(Start(x)[1], Start(x)[2]))
         /\ Finish(x) = trips[x].points[Len(trips[x].points)]
  <2>. TAKE x \in 1..Len(trips)
  <2>1. trips[x].points \in Seq(Samples) /\ Len(trips[x].points) >= 2
    BY <1>1, TripTyped DEF TripsWhole
  <2>2. /\ Start(x) \in Samples /\ Start(x)[1] \in Nat /\ Start(x)[2] \in Nat
        /\ Finish(x) = trips[x].points[Len(trips[x].points)]
    BY <1>1, TripEnds, SampleTyped
  <2>. QED  BY <1>1, <2>1, <2>2 DEF TripsWhole
<1>. DEFINE drawn == UNION {{<<trips[i].points[k], trips[i].points[k + 1]>> :
                                k \in 1 .. (Len(trips[i].points) - 1)} : i \in DOMAIN trips}
            Times == UNION {{TimeAt(trips[i].points[k]) : k \in DOMAIN trips[i].points} : i \in DOMAIN trips}
<1>5. drawn = {pq \in Samples \X Samples : Follows(pq[1], pq[2])}
  <2>1. ASSUME NEW x \in 1..Len(trips), NEW k \in 1 .. (Len(trips[x].points) - 1)
        PROVE  /\ trips[x].points[k] \in Samples /\ trips[x].points[k + 1] \in Samples
               /\ Follows(trips[x].points[k], trips[x].points[k + 1])
    <3>. DEFINE s == trips[x].points
                i == Start(x)[1]
                m == Start(x)[2]
    <3>1. s \in Seq(Samples) /\ Lists(s, PassedOf(i, m)) /\ i \in Nat /\ m \in Nat /\ k \in 1 .. (Len(s) - 1)
      BY <1>4, <2>1
    <3>. HIDE DEF s, i, m
    <3>2. s[k] \in Samples /\ s[k + 1] \in Samples /\ Follows(s[k], s[k + 1])
      BY <1>1, <1>2, <3>1, Neighbours
    <3>. QED  BY <3>2 DEF s
  <2>2. ASSUME NEW p \in Samples, NEW q \in Samples, Follows(p, q)
        PROVE  \E x \in 1..Len(trips) : \E k \in 1 .. (Len(trips[x].points) - 1) :
                   trips[x].points[k] = p /\ trips[x].points[k + 1] = q
    <3>1. PICK x \in 1..Len(trips) : Start(x)[1] = p[1] /\ Start(x)[2] = p[2]
      BY <1>1, <1>2, <2>2 DEF TripsAll, Follows
    <3>2. p \in PassedOf(Start(x)[1], Start(x)[2]) /\ q \in PassedOf(Start(x)[1], Start(x)[2])
      BY <1>2, <2>2, <3>1 DEF PassedOf, Follows
    <3>. DEFINE s == trips[x].points
                i == Start(x)[1]
                m == Start(x)[2]
    <3>3. s \in Seq(Samples) /\ Lists(s, PassedOf(i, m)) /\ i \in Nat /\ m \in Nat
          /\ p \in PassedOf(i, m) /\ q \in PassedOf(i, m)
      BY <1>4, <3>2
    <3>. HIDE DEF s, i, m
    <3>4. \E k \in 1 .. (Len(s) - 1) : s[k] = p /\ s[k + 1] = q
      BY <1>1, <1>2, <2>2, <3>3, Neighbours
    <3>. QED  BY <3>4 DEF s
  <2>3. \A pq : pq \in drawn <=> \E x \in 1..Len(trips) : \E k \in 1 .. (Len(trips[x].points) - 1) :
                                    pq = <<trips[x].points[k], trips[x].points[k + 1]>>
    BY <1>3
  <2>. HIDE DEF drawn
  <2>4. ASSUME NEW pq \in drawn PROVE pq \in Samples \X Samples /\ Follows(pq[1], pq[2])
    <3>1. PICK x \in 1..Len(trips) : \E k \in 1 .. (Len(trips[x].points) - 1) :
              pq = <<trips[x].points[k], trips[x].points[k + 1]>>
      BY <2>3
    <3>. QED  BY <2>1, <3>1
  <2>5. ASSUME NEW pq \in Samples \X Samples, Follows(pq[1], pq[2]) PROVE pq \in drawn
    <3>1. pq = <<pq[1], pq[2]>> /\ pq[1] \in Samples /\ pq[2] \in Samples
      OBVIOUS
    <3>2. PICK x \in 1..Len(trips) : \E k \in 1 .. (Len(trips[x].points) - 1) :
              trips[x].points[k] = pq[1] /\ trips[x].points[k + 1] = pq[2]
      BY <2>2, <2>5, <3>1
    <3>3. PICK k \in 1 .. (Len(trips[x].points) - 1) :
              trips[x].points[k] = pq[1] /\ trips[x].points[k + 1] = pq[2]
      BY <3>2
    <3>4. pq = <<trips[x].points[k], trips[x].points[k + 1]>>
      BY <3>1, <3>3
    <3>. QED  BY <2>3, <3>4
  <2>. QED  BY <2>4, <2>5
<1>6. \A x \in 1..Len(trips) : \A k \in 1..Len(trips[x].points) :
         /\ trips[x].points[k] \in Samples
         /\ trips[x].points[k][1] = Start(x)[1] /\ trips[x].points[k][2] = Start(x)[2]
  BY <1>4 DEF Lists, PassedOf, Passed
<1>7. \A x \in DOMAIN trips : \A k \in DOMAIN trips[x].points :
         trips[x].id = rows[trips[x].points[k][1]].id
  <2>. TAKE x \in DOMAIN trips
  <2>. TAKE k \in DOMAIN trips[x].points
  <2>1. x \in 1..Len(trips) /\ k \in 1..Len(trips[x].points)
    BY <1>3, <1>4
  <2>2. trips[x].id = rows[Start(x)[1]].id /\ trips[x].points[k][1] = Start(x)[1]
    BY <1>1, <1>6, <2>1 DEF TripsWhole
  <2>. QED  BY <2>2
<1>8. ASSUME NEW x \in DOMAIN trips, NEW y \in DOMAIN trips, x # y
      PROVE  Range(trips[x].points) \cap Range(trips[y].points) = {}
  <2>1. \A k \in DOMAIN trips[x].points, l \in DOMAIN trips[y].points : trips[x].points[k] # trips[y].points[l]
    <3>. TAKE k \in DOMAIN trips[x].points, l \in DOMAIN trips[y].points
    <3>. SUFFICES ASSUME trips[x].points[k] = trips[y].points[l] PROVE FALSE
      OBVIOUS
    <3>1. /\ x \in 1..Len(trips) /\ k \in 1..Len(trips[x].points)
          /\ y \in 1..Len(trips) /\ l \in 1..Len(trips[y].points)
      BY <1>3, <1>4
    <3>2. Start(x)[1] = Start(y)[1] /\ Start(x)[2] = Start(y)[2]
      BY <1>6, <3>1
    <3>. QED  BY <1>1, <1>8, <3>1, <3>2 DEF TripsApart
  <2>. QED  BY <2>1 DEF Range
<1>9. \A t : t \in Times <=> \E x \in 1..Len(trips) : \E k \in 1..Len(trips[x].points) :
                                 t = TimeAt(trips[x].points[k])
  BY <1>3, <1>4
<1>. HIDE DEF drawn, Times
<1>10. trips # <<>> => tmin \in Times /\ tmax \in Times
  <2>. SUFFICES ASSUME trips # <<>> PROVE tmin \in Times /\ tmax \in Times
    OBVIOUS
  <2>1. PICK x \in 1..Len(trips) : tmin = TimeAt(Start(x))
    BY <1>1 DEF ClockRange
  <2>2. PICK y \in 1..Len(trips) : tmax = TimeAt(Finish(y))
    BY <1>1 DEF ClockRange
  <2>3. 1 \in 1..Len(trips[x].points) /\ Len(trips[y].points) \in 1..Len(trips[y].points)
    BY <1>4
  <2>. QED  BY <1>4, <1>9, <2>1, <2>2, <2>3 DEF Start
<1>11. ASSUME NEW t \in Times PROVE tmin <= t /\ t <= tmax
  <2>1. PICK x \in 1..Len(trips) : \E k \in 1..Len(trips[x].points) : t = TimeAt(trips[x].points[k])
    BY <1>9
  <2>0. PICK k \in 1..Len(trips[x].points) : t = TimeAt(trips[x].points[k])
    BY <2>1
  <2>. DEFINE a == TimeAt(Start(x))
              z == TimeAt(Finish(x))
  <2>2. a <= t /\ t <= z
    <3>1. /\ TimeAt(trips[x].points[1]) <= TimeAt(trips[x].points[k])
          /\ TimeAt(trips[x].points[k]) <= TimeAt(Last(trips[x].points))
      BY <1>1, <1>4, ListedTimes
    <3>. QED  BY <2>0, <3>1 DEF Start, Finish
  <2>3. a \in Int /\ z \in Int /\ t \in Int /\ tmin <= a /\ z <= tmax
    <3>1. Start(x) \in Samples /\ Finish(x) \in Samples /\ trips[x].points[k] \in Samples
      BY <1>1, <1>6, TripEnds
    <3>. QED  BY <1>1, <2>0, <3>1, SampleTyped DEF ClockRange
  <2>. HIDE DEF a, z
  <2>. QED  BY <1>1, <2>2, <2>3
<1>. QED  BY <1>5, <1>7, <1>8, <1>10, <1>11 DEF TripsKeepGaps, drawn, Times

\* "Over uniform time buckets", and "each trip is one gap-free segment", for any rows and any
\* step: an average is of the readable samples of its type and its bucket, each counted once;
\* the buckets go from the first sample's to the last's; and the points that trips join are
\* those that follow one another in a member.
THEOREM FleetViewsExact == FleetSpec => []FleetViewsAreExact
<1>1. FleetInv => FleetViewsAreExact
  <2>. SUFFICES ASSUME FleetInv, Answered
                PROVE  IF view = "timeseries" THEN BucketsAreExact ELSE TripsKeepGaps
    BY DEF FleetViewsAreExact
  <2>1. view \in {"timeseries", "trajectories"}
    BY DEF FleetInv, FleetTypeOK, Answered
  <2>. QED  BY <2>1, SeriesExact, TripsExact
<1>. QED  BY <1>1, FleetInvariance, PTL
=============================================================================
