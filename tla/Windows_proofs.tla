---------------------------- MODULE Windows_proofs ----------------------------
(***************************************************************************)
(* Proofs about the windows of a continuous query, for any stream of       *)
(* records and any size, span and hop.  The loops keep little: the open    *)
(* window or the buffer is the end of the stream, and what is no longer    *)
(* in it is in windows that are emitted, or is too old for those to come.  *)
(***************************************************************************)
EXTENDS Windows, TLAPS, FiniteSetTheorems, SequenceTheorems, WellFoundedInduction

\* The records that are no longer in the open window, and no longer in the buffer.
Closed == Len(input) - Len(win)
Forgotten == Len(input) - Len(buf)

\* The windows ws divide the first records, up to last, in order.
Divides(ws, last) ==
    /\ \A i \in 1..Len(ws) : ws[i].records # {} /\ ws[i].records \subseteq 1..last
    /\ \A n \in 1..last : \E i \in 1..Len(ws) : n \in ws[i].records
    /\ \A i, j \in 1..Len(ws) : i < j => \A m \in ws[i].records, n \in ws[j].records : m < n

\* COUNT and TUMBLING: the open window is the end of the stream, what is before it is in the
\* windows emitted, in order.
RunInv ==
    window.type # "HOPPING" =>
        /\ Len(win) <= Len(input)
        /\ \A i \in 1..Len(win) : win[i] = Closed + i
        /\ Divides(emitted, Closed)
        /\ window.type = "COUNT" =>
              \A i \in 1..Len(emitted) : Cardinality(emitted[i].records) = window.size
        /\ win = <<>> /\ window.type = "TUMBLING" => input = <<>>

\* TUMBLING, on a regular stream: a window's end is the boundary after each of its records.
EndOf(n) == BoundaryAfter(input[n].time, window.span)

GridInv ==
    window.type = "TUMBLING" /\ RegularInput =>
        /\ \A i \in 1..Len(emitted) : \A n \in emitted[i].records : emitted[i].end = EndOf(n)
        /\ \A i \in 1..Len(win) : winEnd = EndOf(win[i])
        /\ \A i, j \in 1..Len(emitted) : i < j => emitted[i].end < emitted[j].end
        /\ win # <<>> => \A i \in 1..Len(emitted) : emitted[i].end < winEnd

\* The first boundary of a HOPPING query, and those whose window has been made.
FirstEnd == BoundaryAfter(HopTime(1), window.hop)
Due == {e \in FirstEnd .. (nextEmit - 1) : (e - FirstEnd) % window.hop = 0}
Expected == {HoppingWindow(e) : e \in Due}

\* HOPPING: the buffer is the end of the stream and what it has forgotten is too old for any
\* window to come; a boundary is due as soon as a record is at it or after it, which only the
\* last can be.
HopInv ==
    /\ phase = "hop" => window.type = "HOPPING" /\ input # <<>>
    /\ window.type = "HOPPING" =>
        /\ started <=> input # <<>>
        /\ Len(buf) <= Len(input)
        /\ \A i \in 1..Len(buf) : buf[i] = Forgotten + i
        /\ input = <<>> => emitted = <<>>
        /\ input # <<>> =>
            /\ FirstEnd <= nextEmit /\ (nextEmit - FirstEnd) % window.hop = 0
            /\ \A n \in 1..Forgotten : HopTime(n) < nextEmit - window.span
            /\ \A n \in 1..(Len(input) - 1) : HopTime(n) < nextEmit
            /\ phase = "select" => HopTime(Len(input)) < nextEmit
            /\ phase = "hop" => nextEmit <= HopTime(Len(input))
            /\ \A e \in Due : \E n \in 1..Len(input) : e <= HopTime(n)
            /\ \A i \in 1..Len(emitted) : emitted[i].end < nextEmit
            /\ HoppingIsExact

WindowInv == WindowTypeOK /\ RunInv /\ GridInv /\ HopInv

-----------------------------------------------------------------------------
(* The grid of boundaries                                                  *)

\* The quotient and the remainder.
LEMMA Division ==
  ASSUME NEW t \in Int, NEW d \in Nat \ {0}
  PROVE  /\ t \div d \in Int /\ t % d \in Int
         /\ t = d * (t \div d) + (t % d)
         /\ 0 <= t % d /\ t % d < d
  OBVIOUS

\* The multiples of a length are at least the length apart.
LEMMA Multiples ==
  ASSUME NEW p \in Int, NEW q \in Int, NEW d \in Nat \ {0}, p < q
  PROVE  d * p + d <= d * q
<1>1. d * p + d = d * (p + 1)
  OBVIOUS
<1>2. \A k \in Nat : d * (p + 1) <= d * (p + 1 + k)
  OBVIOUS
<1>3. q - (p + 1) \in Nat /\ p + 1 + (q - (p + 1)) = q
  OBVIOUS
<1>. QED  BY <1>1, <1>2, <1>3

\* A time is in one cell of the grid only.
LEMMA UniqueQuotient ==
  ASSUME NEW t \in Int, NEW d \in Nat \ {0}, NEW q \in Int, d * q <= t, t < d * q + d
  PROVE  t \div d = q
<1>. DEFINE p == t \div d
<1>1. p \in Int /\ d * p <= t /\ t < d * p + d /\ d * p \in Int /\ d * q \in Int
  BY Division
<1>. HIDE DEF p
<1>2. ~(p < q)
  <2>. SUFFICES ASSUME p < q PROVE FALSE
    OBVIOUS
  <2>1. d * p + d <= d * q
    BY <1>1, Multiples
  <2>. QED  BY <1>1, <2>1
<1>3. ~(q < p)
  <2>. SUFFICES ASSUME q < p PROVE FALSE
    OBVIOUS
  <2>1. d * q + d <= d * p
    BY <1>1, Multiples
  <2>. QED  BY <1>1, <2>1
<1>4. p = q
  BY <1>1, <1>2, <1>3
<1>. QED  BY <1>4 DEF p

LEMMA NoRemainder ==
  ASSUME NEW d \in Nat \ {0}
  PROVE  0 % d = 0
<1>1. 0 \div d = 0
  BY UniqueQuotient
<1>2. 0 % d \in Int /\ 0 = d * 0 + (0 % d)
  BY <1>1, Division
<1>. QED  BY <1>2

\* Between two multiples there is none.
LEMMA SumOfMultiple ==
  ASSUME NEW a \in Int, NEW d \in Nat \ {0}, a % d = 0, NEW y \in 0 .. (d - 1)
  PROVE  (a + y) % d = y
<1>1. a = d * (a \div d) /\ a \div d \in Int
  BY Division
<1>2. (a + y) \div d = a \div d
  BY <1>1, UniqueQuotient
<1>. QED  BY <1>1, <1>2, Division

\* The boundary after a time is a whole number of seconds and comes after it, before 1970 too.
LEMMA BoundaryIsAfter ==
  ASSUME NEW t \in Int, NEW d \in Nat \ {0}
  PROVE  BoundaryAfter(t, d) \in Int /\ t < BoundaryAfter(t, d)
<1>1. CASE t >= 0
  <2>1. t % d \in Int /\ t % d < d
    BY Division
  <2>. QED  BY <1>1, <2>1 DEF BoundaryAfter, Rem
<1>2. CASE ~(t >= 0)
  <2>1. (-t) % d \in Int /\ 0 <= (-t) % d
    BY Division
  <2>. QED  BY <1>2, <2>1 DEF BoundaryAfter, Rem
<1>. QED  BY <1>1, <1>2

\* From 1970 on the boundary after a time is the end of its cell.
LEMMA BoundaryOfCell ==
  ASSUME NEW t \in Nat, NEW d \in Nat \ {0}
  PROVE  /\ BoundaryAfter(t, d) = d * (t \div d) + d
         /\ d * (t \div d) <= t /\ t < BoundaryAfter(t, d)
<1>1. t = d * (t \div d) + (t % d) /\ 0 <= t % d /\ t % d < d /\ t % d \in Int /\ d * (t \div d) \in Int
  BY Division
<1>. QED  BY <1>1 DEF BoundaryAfter, Rem

\* Two times are in one cell exactly if the boundary after them is the same.
LEMMA SameCell ==
  ASSUME NEW t \in Nat, NEW u \in Nat, NEW d \in Nat \ {0}
  PROVE  t \div d = u \div d <=> BoundaryAfter(t, d) = BoundaryAfter(u, d)
<1>1. t \div d = u \div d => BoundaryAfter(t, d) = BoundaryAfter(u, d)
  BY BoundaryOfCell
<1>2. BoundaryAfter(t, d) = BoundaryAfter(u, d) => t \div d = u \div d
  <2>. SUFFICES ASSUME BoundaryAfter(t, d) = BoundaryAfter(u, d) PROVE t \div d = u \div d
    OBVIOUS
  <2>. DEFINE p == d * (t \div d)
              q == d * (u \div d)
  <2>1. t \div d \in Int /\ p \in Int /\ q \in Int
    BY Division
  <2>2. /\ BoundaryAfter(t, d) = p + d
        /\ BoundaryAfter(u, d) = q + d
        /\ q <= u /\ u < q + d
    BY BoundaryOfCell
  <2>3. p <= u /\ u < p + d
    <3>. HIDE DEF p, q
    <3>1. p + d = q + d
      BY <2>2
    <3>2. p = q
      BY <2>1, <3>1
    <3>. QED  BY <2>2, <3>2
  <2>. QED  BY <2>1, <2>3, UniqueQuotient
<1>. QED  BY <1>1, <1>2

\* A later time before the boundary is in the cell of the boundary.
LEMMA NextBeforeBoundary ==
  ASSUME NEW u \in Nat, NEW t \in Nat, NEW d \in Nat \ {0}, u <= t, t < BoundaryAfter(u, d)
  PROVE  BoundaryAfter(t, d) = BoundaryAfter(u, d)
<1>1. u \div d \in Int /\ d * (u \div d) \in Int
  BY Division
<1>2. d * (u \div d) <= t /\ t < d * (u \div d) + d
  BY <1>1, BoundaryOfCell
<1>3. t \div d = u \div d
  BY <1>1, <1>2, UniqueQuotient
<1>. QED  BY <1>3, SameCell

-----------------------------------------------------------------------------
(* A record is received, a window is emitted                               *)

Emission(n) == [end : Int, records : SUBSET (1..n)]

LEMMA WindowTypes ==
  ASSUME WindowTypeOK
  PROVE  /\ window.span \in Nat \ {0} /\ window.hop \in Nat \ {0} /\ window.size \in Nat \ {0}
         /\ window.type \in {"COUNT", "TUMBLING", "HOPPING"}
         /\ Len(input) \in Nat /\ Len(win) \in Nat /\ Len(buf) \in Nat /\ Len(emitted) \in Nat
         /\ \A n \in 1..Len(input) : /\ input[n] \in RecordData
                                     /\ input[n].time \in Int /\ input[n].read \in BOOLEAN
                                     /\ HopTime(n) \in Int
         /\ \A i \in 1..Len(emitted) :
               emitted[i] \in Emission(Len(input)) /\ emitted[i].end \in Int
                 /\ \A n \in emitted[i].records : n \in 1..Len(input)
<1>1. window \in Window /\ input \in Seq(RecordData) /\ emitted \in Seq(Emission(Len(input)))
  BY DEF WindowTypeOK, Emission
<1>2. \A r \in RecordData : r.time \in Int /\ r.read \in BOOLEAN
  BY WindowAssumption DEF WindowAssumption, RecordData
<1>3. \A n \in 1..Len(input) : input[n] \in RecordData
  BY <1>1, ElementOfSeq
<1>4. \A n \in 1..Len(input) : HopTime(n) \in Int
  <2>. SUFFICES ASSUME NEW n \in 1..Len(input) PROVE HopTime(n) \in Int
    OBVIOUS
  <2>1. n \in Int /\ input[n].time \in Int
    BY <1>2, <1>3
  <2>. QED  BY <2>1 DEF HopTime, InstantUnix
<1>5. \A i \in 1..Len(emitted) : emitted[i] \in Emission(Len(input))
  BY <1>1, ElementOfSeq
<1>6. \A e \in Emission(Len(input)) : e.end \in Int /\ \A n \in e.records : n \in 1..Len(input)
  BY DEF Emission
<1>7. /\ window.span \in Nat \ {0} /\ window.hop \in Nat \ {0} /\ window.size \in Nat \ {0}
      /\ window.type \in {"COUNT", "TUMBLING", "HOPPING"}
  BY <1>1, WindowAssumption DEF WindowAssumption
<1>8. Len(input) \in Nat /\ Len(win) \in Nat /\ Len(buf) \in Nat /\ Len(emitted) \in Nat
  BY <1>1, LenProperties DEF WindowTypeOK
<1>. QED  BY <1>2, <1>3, <1>4, <1>5, <1>6, <1>7, <1>8

\* What was received keeps its number and its time.
LEMMA Receiving ==
  ASSUME WindowTypeOK, NEW r \in RecordData, Len(input) < MaxRecord, input' = Append(input, r)
  PROVE  /\ input' \in Seq(RecordData) /\ Len(input') = Len(input) + 1 /\ Len(input') <= MaxRecord
         /\ \A n \in 1..Len(input) : input'[n] = input[n] /\ HopTime(n)' = HopTime(n)
         /\ input'[Len(input) + 1] = r
         /\ \A n : n = Len(input) + 1 => HopTime(n)' = InstantUnix(r, Len(input))
         /\ InstantUnix(r, Len(input)) \in Int
         /\ 1..Len(input) \subseteq 1..Len(input') /\ Len(input') \in 1..Len(input')
         /\ Seq(1..Len(input)) \subseteq Seq(1..Len(input'))
         /\ emitted \in Seq(Emission(Len(input')))
<1>1. /\ input \in Seq(RecordData) /\ Len(input) \in Nat /\ MaxRecord \in Nat
      /\ emitted \in Seq(Emission(Len(input)))
  BY WindowTypes, WindowAssumption DEF WindowTypeOK, WindowAssumption, Emission
<1>2. /\ input' \in Seq(RecordData) /\ Len(input') = Len(input) + 1
      /\ \A n \in 1..Len(input) : input'[n] = input[n]
      /\ input'[Len(input) + 1] = r
  BY <1>1, AppendProperties
<1>3. \A n \in 1..Len(input) : HopTime(n)' = HopTime(n)
  BY <1>2 DEF HopTime
<1>4. \A n : n = Len(input) + 1 => HopTime(n)' = InstantUnix(r, Len(input))
  <2>. SUFFICES ASSUME NEW n, n = Len(input) + 1
                PROVE  HopTime(n)' = InstantUnix(r, Len(input))
    OBVIOUS
  <2>1. input'[n] = r /\ n - 1 = Len(input)
    BY <1>1, <1>2
  <2>. QED  BY <2>1 DEF HopTime
<1>5. InstantUnix(r, Len(input)) \in Int
  <2>1. r.time \in Int
    BY WindowAssumption DEF WindowAssumption, RecordData
  <2>. QED  BY <1>1, <2>1 DEF InstantUnix
<1>6. 1..Len(input) \subseteq 1..Len(input') /\ Len(input') \in 1..Len(input')
  BY <1>1, <1>2
<1>7. Seq(1..Len(input)) \subseteq Seq(1..Len(input'))
  BY <1>6, SeqMonotonic
<1>8. Emission(Len(input)) \subseteq Emission(Len(input'))
  BY <1>6 DEF Emission
<1>9. emitted \in Seq(Emission(Len(input')))
  BY <1>1, <1>8, SeqMonotonic
<1>. QED  BY <1>1, <1>2, <1>3, <1>4, <1>5, <1>6, <1>7, <1>9

\* The window emitted comes after the others.
LEMMA Emitting ==
  ASSUME NEW n \in Nat, emitted \in Seq(Emission(n)), NEW end \in Int,
         NEW records \in SUBSET (1..n), EmitWindow(end, records)
  PROVE  /\ emitted' \in Seq(Emission(n))
         /\ \A i \in 1..Len(emitted) : i \in 1..Len(emitted') /\ emitted'[i] = emitted[i]
         /\ records = {} => emitted' = emitted
         /\ records # {} =>
               /\ Len(emitted') = Len(emitted) + 1
               /\ emitted'[Len(emitted) + 1] = [end |-> end, records |-> records]
<1>1. CASE records = {}
  <2>1. emitted' = emitted
    BY <1>1 DEF EmitWindow
  <2>. QED  BY <1>1, <2>1
<1>2. CASE records # {}
  <2>1. emitted' = Append(emitted, [end |-> end, records |-> records])
    BY <1>2 DEF EmitWindow
  <2>2. [end |-> end, records |-> records] \in Emission(n)
    BY DEF Emission
  <2>3. /\ emitted' \in Seq(Emission(n)) /\ Len(emitted') = Len(emitted) + 1
        /\ \A i \in 1..Len(emitted) : emitted'[i] = emitted[i]
        /\ emitted'[Len(emitted) + 1] = [end |-> end, records |-> records]
    BY <2>1, <2>2, AppendProperties
  <2>4. Len(emitted) \in Nat
    BY LenProperties
  <2>5. \A i \in 1..Len(emitted) : i \in 1..Len(emitted')
    BY <2>3, <2>4
  <2>. QED  BY <1>2, <2>3, <2>5
<1>. QED  BY <1>1, <1>2

\* A stream that is regular was regular before its last record, which is not earlier than any.
LEMMA RegularBefore ==
  ASSUME WindowTypeOK, NEW r \in RecordData, Len(input) < MaxRecord, input' = Append(input, r),
         RegularInput'
  PROVE  /\ RegularInput /\ r.read /\ r.time \in Nat
         /\ \A n \in 1..Len(input) : input[n].time \in Nat /\ input[n].time <= r.time
<1>1. /\ \A n \in 1..Len(input') : input'[n].read /\ input'[n].time >= 0
      /\ \A m, n \in 1..Len(input') : m < n => input'[m].time <= input'[n].time
  <2>1. DOMAIN input' = 1..Len(input')
    BY Receiving, LenProperties
  <2>. QED  BY <2>1 DEF RegularInput
<1>2. /\ \A n \in 1..Len(input) : input[n].read /\ input[n].time >= 0
      /\ \A m, n \in 1..Len(input) : m < n => input[m].time <= input[n].time
  BY <1>1, Receiving
<1>3. DOMAIN input = 1..Len(input)
  BY LenProperties DEF WindowTypeOK
<1>4. Len(input) + 1 \in 1..Len(input') /\ Len(input) \in Nat
  BY Receiving, WindowTypes
<1>5. r.read /\ r.time >= 0 /\ \A n \in 1..Len(input) : input[n].time <= r.time
  <2>1. \A n \in 1..Len(input) : n \in 1..Len(input') /\ n < Len(input) + 1
    BY Receiving, <1>4
  <2>. QED  BY <1>1, <1>4, <2>1, Receiving
<1>6. r.time \in Int
  BY WindowAssumption DEF WindowAssumption, RecordData
<1>. QED  BY <1>2, <1>3, <1>5, <1>6, WindowTypes DEF RegularInput

-----------------------------------------------------------------------------
(* COUNT and TUMBLING                                                      *)

\* What the next record does to the open window, which has the last records received: it is
\* the next of them, or starts a window of its own.
LEMMA OpenWindow ==
  ASSUME WindowTypeOK, RunInv, window.type # "HOPPING", Len(input') = Len(input) + 1
  PROVE  /\ LET full == Append(win, Len(input'))
            IN  /\ full \in Seq(1..Len(input')) /\ Len(full) = Len(win) + 1
                /\ \A i \in 1..Len(full) : full[i] = Closed + i
                /\ Range(full) = (Closed + 1)..(Len(input) + 1)
         /\ Range(win) = (Closed + 1)..Len(input)
         /\ Closed \in Nat
<1>. DEFINE full == Append(win, Len(input'))
<1>1. /\ Len(input) \in Nat /\ Len(win) \in Nat /\ Len(win) <= Len(input)
      /\ win \in Seq(1..Len(input)) /\ win \in Seq(1..Len(input'))
      /\ \A i \in 1..Len(win) : win[i] = Closed + i
      /\ Closed \in Nat /\ Closed + Len(win) = Len(input)
  <2>1. /\ Len(input) \in Nat /\ Len(win) \in Nat /\ Len(win) <= Len(input)
        /\ win \in Seq(1..Len(input)) /\ \A i \in 1..Len(win) : win[i] = Closed + i
    BY WindowTypes DEF RunInv, WindowTypeOK
  <2>2. 1..Len(input) \subseteq 1..Len(input')
    BY <2>1
  <2>3. win \in Seq(1..Len(input'))
    BY <2>1, <2>2, SeqMonotonic
  <2>4. Closed \in Nat /\ Closed + Len(win) = Len(input)
    BY <2>1 DEF Closed
  <2>. QED  BY <2>1, <2>3, <2>4
<1>2. Len(input') \in 1..Len(input')
  BY <1>1
<1>3. /\ full \in Seq(1..Len(input')) /\ Len(full) = Len(win) + 1
      /\ \A i \in 1..Len(win) : full[i] = win[i]
      /\ full[Len(win) + 1] = Len(input')
  BY <1>1, <1>2, AppendProperties
<1>4. \A i \in 1..Len(full) : full[i] = Closed + i
  <2>. SUFFICES ASSUME NEW i \in 1..Len(full) PROVE full[i] = Closed + i
    OBVIOUS
  <2>. HIDE DEF full
  <2>1. CASE i \in 1..Len(win)
    BY <1>1, <1>3, <2>1
  <2>2. CASE i = Len(win) + 1
    BY <1>1, <1>3, <2>2
  <2>. QED  BY <1>1, <1>3, <2>1, <2>2
<1>5. Range(full) = (Closed + 1)..(Len(input) + 1)
  <2>. HIDE DEF full
  <2>1. DOMAIN full = 1..Len(full)
    BY <1>3, LenProperties
  <2>2. \A n \in (Closed + 1)..(Len(input) + 1) : n - Closed \in 1..Len(full) /\ full[n - Closed] = n
    BY <1>1, <1>3, <1>4
  <2>3. \A i \in 1..Len(full) : full[i] \in (Closed + 1)..(Len(input) + 1)
    BY <1>1, <1>3, <1>4
  <2>. QED  BY <2>1, <2>2, <2>3 DEF Range
<1>6. Range(win) = (Closed + 1)..Len(input)
  <2>1. DOMAIN win = 1..Len(win)
    BY <1>1, LenProperties
  <2>2. \A n \in (Closed + 1)..Len(input) : n - Closed \in 1..Len(win) /\ win[n - Closed] = n
    BY <1>1
  <2>3. \A i \in 1..Len(win) : win[i] \in (Closed + 1)..Len(input)
    BY <1>1
  <2>. QED  BY <2>1, <2>2, <2>3 DEF Range
<1>. QED  BY <1>1, <1>3, <1>4, <1>5, <1>6

\* A window of the records from the next on to another follows those that divide the stream.
LEMMA DividesFurther ==
  ASSUME NEW ws, NEW vs, NEW first \in Nat, NEW last \in Nat, first < last,
         Divides(ws, first), Len(ws) \in Nat, Len(vs) = Len(ws) + 1,
         \A i \in 1..Len(ws) : vs[i] = ws[i],
         vs[Len(ws) + 1].records = (first + 1)..last
  PROVE  Divides(vs, last)
<1>. DEFINE new == (first + 1)..last
<1>1. new # {} /\ new \subseteq 1..last /\ \A n \in new : n \in Int /\ first < n
  <2>1. last \in new
    OBVIOUS
  <2>. QED  BY <2>1
<1>2. \A i \in 1..Len(vs) : i \in 1..Len(ws) \/ i = Len(ws) + 1
  OBVIOUS
<1>3. \A i \in 1..Len(ws) : i \in 1..Len(vs) /\ vs[i] = ws[i]
  OBVIOUS
<1>4. Len(ws) + 1 \in 1..Len(vs) /\ vs[Len(ws) + 1].records = new
  OBVIOUS
<1>. HIDE DEF new
<1>5. ASSUME NEW i \in 1..Len(vs) PROVE vs[i].records # {} /\ vs[i].records \subseteq 1..last
  <2>1. CASE i \in 1..Len(ws)
    <3>1. ws[i].records # {} /\ ws[i].records \subseteq 1..first
      BY <2>1 DEF Divides
    <3>2. 1..first \subseteq 1..last
      OBVIOUS
    <3>. QED  BY <1>3, <2>1, <3>1, <3>2
  <2>2. CASE i = Len(ws) + 1
    BY <1>1, <1>4, <2>2
  <2>. QED  BY <1>2, <2>1, <2>2
<1>6. ASSUME NEW n \in 1..last PROVE \E i \in 1..Len(vs) : n \in vs[i].records
  <2>1. CASE n \in 1..first
    <3>1. PICK i \in 1..Len(ws) : n \in ws[i].records
      BY <2>1 DEF Divides
    <3>. QED  BY <1>3, <3>1
  <2>2. CASE n \in new
    BY <1>4, <2>2
  <2>. QED  BY <2>1, <2>2 DEF new
<1>7. ASSUME NEW i \in 1..Len(vs), NEW j \in 1..Len(vs), i < j,
             NEW m \in vs[i].records, NEW n \in vs[j].records
      PROVE  m < n
  <2>1. i \in 1..Len(ws)
    BY <1>2, <1>7
  <2>2. m \in ws[i].records /\ m \in 1..first
    BY <1>3, <1>7, <2>1 DEF Divides
  <2>3. CASE j \in 1..Len(ws)
    <3>1. n \in ws[j].records
      BY <1>3, <1>7, <2>3
    <3>. QED  BY <1>7, <2>1, <2>2, <2>3, <3>1 DEF Divides
  <2>4. CASE j = Len(ws) + 1
    <3>1. n \in Int /\ first < n
      BY <1>1, <1>4, <1>7, <2>4
    <3>. QED  BY <2>2, <3>1
  <2>. QED  BY <1>2, <2>3, <2>4
<1>. QED  BY <1>5, <1>6, <1>7 DEF Divides

\* The windows emitted after one more, of all the records that are not in one yet up to last.
LEMMA RunEmits ==
  ASSUME WindowTypeOK, RunInv, window.type # "HOPPING", Len(input') = Len(input) + 1,
         NEW last \in Nat, Closed < last, last <= Len(input'),
         NEW end \in Int, EmitWindow(end, (Closed + 1)..last)
  PROVE  /\ emitted' \in Seq(Emission(Len(input'))) /\ Len(emitted') = Len(emitted) + 1
         /\ \A i \in 1..Len(emitted) : emitted'[i] = emitted[i]
         /\ emitted'[Len(emitted) + 1] = [end |-> end, records |-> (Closed + 1)..last]
         /\ Divides(emitted', last)
         /\ Cardinality((Closed + 1)..last) = last - Closed
<1>. DEFINE new == (Closed + 1)..last
<1>1. Closed \in Nat /\ Len(input) \in Nat /\ Len(input') \in Nat /\ Len(emitted) \in Nat
  BY OpenWindow, WindowTypes
<1>2. last \in new /\ new \subseteq 1..Len(input')
  BY <1>1
<1>3. emitted \in Seq(Emission(Len(input')))
  <2>1. 1..Len(input) \subseteq 1..Len(input')
    BY <1>1
  <2>2. Emission(Len(input)) \subseteq Emission(Len(input'))
    BY <2>1 DEF Emission
  <2>. QED  BY <2>2, SeqMonotonic DEF WindowTypeOK, Emission
<1>4. EmitWindow(end, new)
  OBVIOUS
<1>5. Cardinality(new) = last - Closed
  <2>1. Closed + 1 \in Int /\ last \in Int /\ ~(Closed + 1 > last)
    BY <1>1
  <2>2. Cardinality(new) = last - (Closed + 1) + 1
    BY <2>1, FS_Interval
  <2>. QED  BY <1>1, <2>2
<1>6. /\ emitted' \in Seq(Emission(Len(input'))) /\ Len(emitted') = Len(emitted) + 1
      /\ \A i \in 1..Len(emitted) : emitted'[i] = emitted[i]
      /\ emitted'[Len(emitted) + 1] = [end |-> end, records |-> new]
  <2>. HIDE DEF new
  <2>. QED  BY <1>1, <1>2, <1>3, <1>4, Emitting
<1>7. Divides(emitted, Closed)
  BY DEF RunInv
<1>8. emitted'[Len(emitted) + 1].records = new
  BY <1>6
<1>9. Divides(emitted', last)
  BY <1>1, <1>6, <1>7, <1>8, DividesFurther
<1>. QED  BY <1>5, <1>6, <1>9

\* Nothing is emitted: the open window has one record more.
LEMMA RunGrows ==
  ASSUME WindowTypeOK, RunInv, window.type # "HOPPING",
         UNCHANGED <<window, emitted>>, Len(input') = Len(input) + 1,
         win' = Append(win, Len(input'))
  PROVE  RunInv'
<1>1. /\ Len(win') = Len(win) + 1 /\ \A i \in 1..Len(win') : win'[i] = Closed + i
      /\ Len(win) \in Nat /\ Len(input) \in Nat /\ Len(win) <= Len(input)
  BY OpenWindow, WindowTypes DEF RunInv
<1>2. Closed' = Closed /\ win' # <<>> /\ Len(win') <= Len(input')
  BY <1>1, EmptySeq DEF Closed
<1>. QED  BY <1>1, <1>2 DEF RunInv

\* A record of a COUNT window.
LEMMA CountReceivesKeeps ==
  ASSUME WindowInv, NEW r \in RecordData, CountReceives(r)
  PROVE  WindowInv'
<1>. DEFINE full == Append(win, Len(input'))
<1>1. /\ WindowTypeOK /\ RunInv /\ window.type = "COUNT" /\ window' = window
      /\ Len(input) < MaxRecord /\ input' = Append(input, r)
      /\ UNCHANGED <<winEnd, buf, started, nextEmit, phase>> /\ phase = "select"
  BY DEF CountReceives, WindowInv
<1>2. IF Len(full) >= window.size
      THEN win' = <<>> /\ EmitWindow(0, Range(full))
      ELSE win' = full /\ UNCHANGED emitted
  BY DEF CountReceives
<1>3. /\ input' \in Seq(RecordData) /\ Len(input') = Len(input) + 1 /\ Len(input') <= MaxRecord
      /\ Seq(1..Len(input)) \subseteq Seq(1..Len(input'))
      /\ emitted \in Seq(Emission(Len(input')))
  BY <1>1, Receiving
<1>4. /\ full \in Seq(1..Len(input')) /\ Len(full) = Len(win) + 1
      /\ Range(full) = (Closed + 1)..Len(input')
      /\ Closed \in Nat /\ Len(win) \in Nat /\ Len(input) \in Nat /\ window.size \in Nat \ {0}
      /\ Len(win) < window.size /\ Closed + Len(win) = Len(input)
  BY <1>1, <1>3, OpenWindow, WindowTypes DEF WindowTypeOK, Closed
<1>5. /\ GridInv' /\ HopInv'
  BY <1>1 DEF GridInv, HopInv
<1>6. CASE Len(full) >= window.size
  <2>1. win' = <<>> /\ EmitWindow(0, (Closed + 1)..Len(input'))
    BY <1>2, <1>4, <1>6
  <2>2. Len(input') - Closed = window.size /\ Closed < Len(input') /\ Len(input') \in Nat
    BY <1>3, <1>4, <1>6
  <2>3. /\ emitted' \in Seq(Emission(Len(input'))) /\ Len(emitted') = Len(emitted) + 1
        /\ \A i \in 1..Len(emitted) : emitted'[i] = emitted[i]
        /\ emitted'[Len(emitted) + 1] = [end |-> 0, records |-> (Closed + 1)..Len(input')]
        /\ Divides(emitted', Len(input'))
        /\ Cardinality((Closed + 1)..Len(input')) = window.size
    BY <1>1, <1>3, <2>1, <2>2, RunEmits
  <2>4. \A i \in 1..Len(emitted') : Cardinality(emitted'[i].records) = window.size
    <3>1. \A i \in 1..Len(emitted) : Cardinality(emitted[i].records) = window.size
      BY <1>1 DEF RunInv
    <3>2. Cardinality(emitted'[Len(emitted) + 1].records) = window.size
      BY <2>3
    <3>3. \A i \in 1..Len(emitted') : i \in 1..Len(emitted) \/ i = Len(emitted) + 1
      BY <1>1, <2>3, WindowTypes
    <3>. QED  BY <2>3, <3>1, <3>2, <3>3
  <2>5. win' \in Seq(1..Len(input')) /\ Len(win') = 0
    BY <2>1, EmptySeq
  <2>6. Closed' = Len(input')
    BY <2>2, <2>5 DEF Closed
  <2>7. RunInv'
    BY <1>1, <2>2, <2>3, <2>4, <2>5, <2>6 DEF RunInv
  <2>8. WindowTypeOK'
    BY <1>1, <1>3, <1>4, <2>3, <2>5 DEF WindowTypeOK, Emission
  <2>. QED  BY <1>5, <2>7, <2>8 DEF WindowInv
<1>7. CASE ~(Len(full) >= window.size)
  <2>1. win' = full /\ UNCHANGED emitted
    BY <1>2, <1>7
  <2>2. RunInv'
    BY <1>1, <1>3, <2>1, RunGrows
  <2>3. WindowTypeOK'
    BY <1>1, <1>3, <1>4, <1>7, <2>1 DEF WindowTypeOK, Emission
  <2>. QED  BY <1>5, <2>2, <2>3 DEF WindowInv
<1>. QED  BY <1>6, <1>7

\* What TUMBLING emits on a stream that has been regular so far: the open window and the new
\* record are on either side of a boundary, or share the cell of the window.
LEMMA TumblingStays ==
  ASSUME WindowInv, NEW r \in RecordData, TumblingReceives(r), RegularInput'
  PROVE  GridInv'
<1>. DEFINE closes == win # <<>> /\ r.time >= winEnd
            N == Len(input) + 1
<1>1. /\ WindowTypeOK /\ RunInv /\ GridInv /\ window.type = "TUMBLING" /\ window' = window
      /\ Len(input) < MaxRecord /\ input' = Append(input, r)
  BY DEF TumblingReceives, WindowInv
<1>2. /\ RegularInput /\ r.read /\ r.time \in Nat
      /\ \A n \in 1..Len(input) : input[n].time \in Nat /\ input[n].time <= r.time
  BY <1>1, RegularBefore
<1>3. /\ IF closes THEN EmitWindow(winEnd, Range(win)) ELSE UNCHANGED emitted
      /\ win' = IF closes THEN <<Len(input')>> ELSE Append(win, Len(input'))
      /\ winEnd' = IF closes \/ win = <<>> THEN BoundaryAfter(r.time, window.span) ELSE winEnd
  BY <1>2 DEF TumblingReceives, InstantUnix
<1>4. /\ Len(input') = N /\ Len(input) \in Nat /\ Len(win) \in Nat /\ Len(emitted) \in Nat
      /\ window.span \in Nat \ {0}
      /\ \A n \in 1..Len(input) : input'[n] = input[n]
      /\ input'[N] = r
      /\ win \in Seq(1..Len(input)) /\ winEnd \in Int
  BY <1>1, Receiving, WindowTypes DEF WindowTypeOK
<1>5. /\ \A n \in 1..Len(input) : EndOf(n)' = EndOf(n)
      /\ \A n : n = N => EndOf(n)' = BoundaryAfter(r.time, window.span)
  BY <1>1, <1>4 DEF EndOf
<1>6. /\ \A i \in 1..Len(emitted) :
            /\ emitted[i].records \subseteq 1..Len(input)
            /\ \A n \in emitted[i].records : emitted[i].end = EndOf(n)
      /\ \A i \in 1..Len(win) : win[i] \in 1..Len(input) /\ winEnd = EndOf(win[i])
      /\ \A i, j \in 1..Len(emitted) : i < j => emitted[i].end < emitted[j].end
      /\ win # <<>> => \A i \in 1..Len(emitted) : emitted[i].end < winEnd
      /\ \A i \in 1..Len(emitted) : emitted[i].end \in Int
  <2>1. GridInv /\ window.type = "TUMBLING" /\ RegularInput
    BY <1>1, <1>2
  <2>2. \A i \in 1..Len(win) : win[i] \in 1..Len(input)
    BY <1>4, ElementOfSeq
  <2>3. \A i \in 1..Len(emitted) : emitted[i].records \subseteq 1..Len(input) /\ emitted[i].end \in Int
    BY <1>1, WindowTypes
  <2>. QED  BY <2>1, <2>2, <2>3 DEF GridInv
<1>7. win = <<>> => emitted = <<>>
  <2>. SUFFICES ASSUME win = <<>>, emitted # <<>> PROVE FALSE
    OBVIOUS
  <2>1. input = <<>>
    BY <1>1 DEF RunInv
  <2>2. Len(emitted) # 0
    BY <1>1, EmptySeq, LenProperties DEF WindowTypeOK
  <2>3. 1 \in 1..Len(emitted)
    BY <1>4, <2>2
  <2>4. emitted[1].records # {} /\ emitted[1].records \subseteq 1..Len(input)
    BY <1>1, <1>6, <2>3 DEF RunInv, Divides
  <2>5. Len(input) = 0
    BY <2>1
  <2>. QED  BY <2>4, <2>5
<1>8. CASE closes
  <2>1. /\ EmitWindow(winEnd, Range(win)) /\ win' = <<N>>
        /\ winEnd' = BoundaryAfter(r.time, window.span)
    BY <1>3, <1>4, <1>8
  <2>2. /\ Len(emitted') = Len(emitted) + 1
        /\ \A i \in 1..Len(emitted) : emitted'[i] = emitted[i]
        /\ emitted'[Len(emitted) + 1] = [end |-> winEnd, records |-> Range(win)]
    <3>1. Range(win) = (Closed + 1)..Len(input) /\ Closed < Len(input)
      BY <1>1, <1>4, <1>8, OpenWindow DEF Closed
    <3>2. Len(input) \in Nat /\ Len(input) <= Len(input') /\ EmitWindow(winEnd, (Closed + 1)..Len(input))
      BY <1>4, <2>1, <3>1
    <3>. QED  BY <1>1, <1>4, <3>1, <3>2, RunEmits
  <2>3. winEnd < winEnd' /\ winEnd' \in Int
    <3>1. r.time \in Int /\ winEnd <= r.time
      BY <1>2, <1>4, <1>8
    <3>2. winEnd' \in Int /\ r.time < winEnd'
      BY <1>4, <2>1, <3>1, BoundaryIsAfter
    <3>. QED  BY <1>4, <3>1, <3>2
  <2>4. \A n \in Range(win) : n \in 1..Len(input) /\ winEnd = EndOf(n)
    BY <1>4, <1>6, LenProperties DEF Range
  <2>5. ASSUME NEW i \in 1..Len(emitted')
        PROVE  /\ \A n \in emitted'[i].records : emitted'[i].end = EndOf(n)'
               /\ emitted'[i].end < winEnd'
    <3>1. CASE i \in 1..Len(emitted)
      <4>1. emitted[i].end < winEnd
        BY <1>6, <1>8, <3>1
      <4>2. emitted[i].end < winEnd'
        BY <1>4, <1>6, <2>3, <3>1, <4>1
      <4>. QED  BY <1>5, <1>6, <2>2, <3>1, <4>2
    <3>2. CASE i = Len(emitted) + 1
      BY <1>5, <2>2, <2>3, <2>4, <3>2
    <3>. QED  BY <1>4, <2>2, <3>1, <3>2
  <2>6. ASSUME NEW i \in 1..Len(emitted'), NEW j \in 1..Len(emitted'), i < j
        PROVE  emitted'[i].end < emitted'[j].end
    <3>1. i \in 1..Len(emitted)
      BY <1>4, <2>2, <2>6
    <3>2. CASE j \in 1..Len(emitted)
      BY <1>6, <2>2, <2>6, <3>1, <3>2
    <3>3. CASE j = Len(emitted) + 1
      BY <1>6, <1>8, <2>2, <3>1, <3>3
    <3>. QED  BY <1>4, <2>2, <3>2, <3>3
  <2>7. \A i \in 1..Len(win') : winEnd' = EndOf(win[i])'
    <3>1. \A i \in 1..Len(win') : win'[i] = N
      BY <2>1
    <3>2. \A n : n = N => EndOf(n)' = winEnd'
      BY <1>5, <2>1
    <3>. QED  BY <1>1, <1>4, <2>1, <3>1 DEF EndOf
  <2>. QED  BY <2>5, <2>6, <2>7 DEF GridInv
<1>9. CASE ~closes
  <2>1. /\ UNCHANGED emitted /\ win' = Append(win, N)
        /\ winEnd' = IF win = <<>> THEN BoundaryAfter(r.time, window.span) ELSE winEnd
    BY <1>3, <1>4, <1>9
  <2>2. winEnd' = BoundaryAfter(r.time, window.span)
    <3>1. CASE win = <<>>
      BY <2>1, <3>1
    <3>2. CASE win # <<>>
      <4>1. 1 \in 1..Len(win)
        BY <1>4, <3>2, EmptySeq, LenProperties
      <4>2. /\ win[1] \in 1..Len(input) /\ winEnd = BoundaryAfter(input[win[1]].time, window.span)
            /\ input[win[1]].time \in Nat /\ input[win[1]].time <= r.time
        BY <1>2, <1>6, <4>1 DEF EndOf
      <4>3. r.time < winEnd /\ winEnd' = winEnd
        BY <1>2, <1>4, <1>9, <2>1, <3>2
      <4>. QED  BY <1>2, <1>4, <4>2, <4>3, NextBeforeBoundary
    <3>. QED  BY <3>1, <3>2
  <2>3. \A i \in 1..Len(win') : winEnd' = EndOf(win[i])'
    <3>. SUFFICES ASSUME NEW i \in 1..Len(win') PROVE winEnd' = EndOf(win[i])'
      OBVIOUS
    <3>1. /\ Len(win') = Len(win) + 1 /\ win'[Len(win) + 1] = N
          /\ \A k \in 1..Len(win) : win'[k] = win[k]
      <4>1. win \in Seq(Int) /\ N \in Int
        BY <1>4, SeqMonotonic
      <4>. QED  BY <2>1, <4>1, AppendProperties
    <3>2. CASE i \in 1..Len(win)
      <4>1. win'[i] = win[i] /\ win[i] \in 1..Len(input) /\ winEnd = EndOf(win[i])
        BY <1>6, <3>1, <3>2
      <4>2. winEnd' = winEnd
        BY <1>4, <2>1, <3>2
      <4>. QED  BY <1>1, <1>4, <4>1, <4>2 DEF EndOf
    <3>3. CASE i = Len(win) + 1
      BY <1>1, <1>4, <2>2, <3>1, <3>3 DEF EndOf
    <3>. QED  BY <1>4, <3>1, <3>2, <3>3
  <2>4. \A i \in 1..Len(emitted') : \A n \in emitted'[i].records : emitted'[i].end = EndOf(n)'
    BY <1>5, <1>6, <2>1
  <2>5. \A i \in 1..Len(emitted') : emitted'[i].end < winEnd'
    <3>1. CASE win = <<>>
      BY <1>7, <2>1, <3>1
    <3>2. CASE win # <<>>
      BY <1>6, <2>1, <3>2
    <3>. QED  BY <3>1, <3>2
  <2>. QED  BY <1>6, <2>1, <2>3, <2>4, <2>5 DEF GridInv
<1>. QED  BY <1>8, <1>9

\* A record of a TUMBLING window.
LEMMA TumblingReceivesKeeps ==
  ASSUME WindowInv, NEW r \in RecordData, TumblingReceives(r)
  PROVE  WindowInv'
<1>. DEFINE t == InstantUnix(r, Len(win))
            closes == win # <<>> /\ t >= winEnd
<1>1. /\ WindowTypeOK /\ RunInv /\ window.type = "TUMBLING" /\ window' = window
      /\ Len(input) < MaxRecord /\ input' = Append(input, r)
      /\ UNCHANGED <<buf, started, nextEmit, phase>> /\ phase = "select"
      /\ IF closes THEN EmitWindow(winEnd, Range(win)) ELSE UNCHANGED emitted
      /\ win' = IF closes THEN <<Len(input')>> ELSE Append(win, Len(input'))
      /\ winEnd' = IF closes \/ win = <<>> THEN BoundaryAfter(t, window.span) ELSE winEnd
  BY DEF TumblingReceives, WindowInv
<1>2. /\ input' \in Seq(RecordData) /\ Len(input') = Len(input) + 1 /\ Len(input') <= MaxRecord
      /\ Seq(1..Len(input)) \subseteq Seq(1..Len(input')) /\ Len(input') \in 1..Len(input')
      /\ emitted \in Seq(Emission(Len(input')))
      /\ Len(input) \in Nat /\ Len(win) \in Nat /\ window.span \in Nat \ {0}
  BY <1>1, Receiving, WindowTypes
<1>3. winEnd' \in Int
  <2>1. t \in Int
    <3>1. r.time \in Int
      BY WindowAssumption DEF WindowAssumption, RecordData
    <3>. QED  BY <1>2, <3>1 DEF InstantUnix
  <2>2. BoundaryAfter(t, window.span) \in Int /\ winEnd \in Int
    BY <1>1, <1>2, <2>1, BoundaryIsAfter DEF WindowTypeOK
  <2>. QED  BY <1>1, <2>2
<1>4. HopInv' /\ (RegularInput' => GridInv')
  BY <1>1, TumblingStays DEF HopInv
<1>5. ~RegularInput' => GridInv'
  BY DEF GridInv
<1>6. CASE closes
  <2>1. /\ EmitWindow(winEnd, Range(win)) /\ win' = <<Len(input')>>
    BY <1>1, <1>6
  <2>2. Range(win) = (Closed + 1)..Len(input) /\ Closed < Len(input) /\ winEnd \in Int
    BY <1>1, <1>2, <1>6, OpenWindow, EmptySeq DEF Closed, WindowTypeOK
  <2>3. Len(input) <= Len(input')
    BY <1>2
  <2>4. /\ emitted' \in Seq(Emission(Len(input'))) /\ Divides(emitted', Len(input))
    BY <1>1, <1>2, <2>1, <2>2, <2>3, RunEmits
  <2>5. win' \in Seq(1..Len(input')) /\ Len(win') = 1 /\ win'[1] = Len(input') /\ win' # <<>>
    BY <1>2, <2>1
  <2>6. Closed' = Len(input)
    BY <1>2, <2>5 DEF Closed
  <2>7. \A i \in 1..Len(win') : win'[i] = Len(input) + i
    BY <1>2, <2>5
  <2>8. RunInv'
    BY <1>1, <1>2, <2>4, <2>5, <2>6, <2>7 DEF RunInv
  <2>9. WindowTypeOK'
    BY <1>1, <1>2, <1>3, <2>4, <2>5 DEF WindowTypeOK, Emission
  <2>. QED  BY <1>4, <1>5, <2>8, <2>9 DEF WindowInv
<1>7. CASE ~closes
  <2>1. UNCHANGED emitted /\ win' = Append(win, Len(input'))
    BY <1>1, <1>7
  <2>2. RunInv' /\ win' \in Seq(1..Len(input'))
    BY <1>1, <1>2, <2>1, RunGrows, OpenWindow
  <2>3. WindowTypeOK'
    BY <1>1, <1>2, <1>3, <2>1, <2>2 DEF WindowTypeOK, Emission
  <2>. QED  BY <1>4, <1>5, <2>2, <2>3 DEF WindowInv
<1>. QED  BY <1>6, <1>7

-----------------------------------------------------------------------------
(* HOPPING                                                                 *)

\* A set of numbers that is not empty has a least one.
LEMMA LeastNumber ==
  ASSUME NEW S \in SUBSET Nat, S # {}
  PROVE  Min(S) \in S /\ \A n \in S : Min(S) <= n
<1>1. PICK a \in S : \A b \in S : ~(<<b, a>> \in OpToRel(<, Nat))
  BY WFMin, NatLessThanWellFounded
<1>2. \A b \in S : ~(b < a)
  BY <1>1 DEF OpToRel
<1>3. \A b \in S : a <= b
  BY <1>2
<1>. QED  BY <1>3 DEF Min

LEMMA LeastIs ==
  ASSUME NEW S \in SUBSET Nat, NEW k \in S, \A n \in S : k <= n
  PROVE  Min(S) = k
<1>1. Min(S) \in S /\ Min(S) <= k
  BY LeastNumber
<1>2. k <= Min(S) /\ k \in Nat /\ Min(S) \in Nat
  BY <1>1
<1>. QED  BY <1>1, <1>2

\* The records at the end of window e or after.
Reaching(e) == {n \in DOMAIN input : HopTime(n) >= e}

\* The window that ends at e is made by the first record that reaches e.
LEMMA WindowIsMade ==
  ASSUME NEW e \in Int, NEW k \in Nat, Min(Reaching(e)) = k
  PROVE  HoppingWindow(e) = [end |-> e, records |-> InWindow(1..k, e)]
BY DEF HoppingWindow, Reaching

\* A record more does not change a window that is made.
LEMMA WindowStays ==
  ASSUME WindowTypeOK, NEW r \in RecordData, Len(input) < MaxRecord, input' = Append(input, r),
         window' = window, NEW e \in Int, NEW n \in 1..Len(input), e <= HopTime(n)
  PROVE  HoppingWindow(e)' = HoppingWindow(e)
<1>1. /\ Len(input) \in Nat /\ Len(input') = Len(input) + 1
      /\ DOMAIN input = 1..Len(input) /\ DOMAIN input' = 1..Len(input')
      /\ \A m \in 1..Len(input) : HopTime(m)' = HopTime(m) /\ HopTime(m) \in Int
  BY Receiving, WindowTypes, LenProperties DEF WindowTypeOK
<1>2. Reaching(e) \in SUBSET Nat /\ n \in Reaching(e)
  BY <1>1 DEF Reaching
<1>3. PICK k : k = Min(Reaching(e)) /\ k \in Reaching(e) /\ \A m \in Reaching(e) : k <= m
  BY <1>2, LeastNumber
<1>4. k \in 1..Len(input) /\ HopTime(k) >= e
  BY <1>1, <1>3 DEF Reaching
<1>5. Reaching(e)' \in SUBSET Nat /\ k \in Reaching(e)'
  BY <1>1, <1>4 DEF Reaching
<1>6. ASSUME NEW m \in Reaching(e)' PROVE k <= m
  <2>1. m \in 1..Len(input') /\ HopTime(m)' >= e
    BY <1>1 DEF Reaching
  <2>2. CASE m \in 1..Len(input)
    BY <1>1, <1>3, <2>1, <2>2 DEF Reaching
  <2>3. CASE m = Len(input) + 1
    BY <1>1, <1>4, <2>3
  <2>. QED  BY <1>1, <2>1, <2>2, <2>3
<1>7. Min(Reaching(e)') = k
  BY <1>5, <1>6, LeastIs
<1>8. HoppingWindow(e)' = [end |-> e, records |-> InWindow(1..k, e)']
  BY <1>7 DEF HoppingWindow, Reaching
<1>9. HoppingWindow(e) = [end |-> e, records |-> InWindow(1..k, e)]
  BY <1>3 DEF HoppingWindow, Reaching
<1>10. InWindow(1..k, e)' = InWindow(1..k, e)
  <2>1. \A m \in 1..k : m \in 1..Len(input)
    BY <1>1, <1>4
  <2>. QED  BY <1>1, <2>1 DEF InWindow
<1>. QED  BY <1>8, <1>9, <1>10

\* The buffer is the end of the stream.
LEMMA Buffered ==
  ASSUME WindowTypeOK, Len(buf) <= Len(input), \A i \in 1..Len(buf) : buf[i] = Forgotten + i
  PROVE  /\ Forgotten \in Nat /\ Len(buf) \in Nat /\ Len(input) \in Nat
         /\ Forgotten + Len(buf) = Len(input)
         /\ Range(buf) = (Forgotten + 1)..Len(input)
<1>1. Len(buf) \in Nat /\ Len(input) \in Nat /\ DOMAIN buf = 1..Len(buf)
  BY WindowTypes, LenProperties DEF WindowTypeOK
<1>2. Forgotten \in Nat /\ Forgotten + Len(buf) = Len(input)
  BY <1>1 DEF Forgotten
<1>3. \A n \in (Forgotten + 1)..Len(input) : n - Forgotten \in 1..Len(buf) /\ buf[n - Forgotten] = n
  BY <1>1, <1>2
<1>4. \A i \in 1..Len(buf) : buf[i] \in (Forgotten + 1)..Len(input)
  BY <1>1, <1>2
<1>. QED  BY <1>1, <1>2, <1>3, <1>4 DEF Range

\* What the buffer keeps is still the end of the stream, and what it lets go of is too old.
LEMMA Keeping ==
  ASSUME WindowTypeOK, Len(buf) <= Len(input), \A i \in 1..Len(buf) : buf[i] = Forgotten + i,
         NEW end \in Int, \A n \in 1..Forgotten : HopTime(n) < end - window.span,
         NEW kept, kept = Keep(end)
  PROVE  /\ kept \in Seq(1..Len(input)) /\ Len(kept) <= Len(input) /\ Len(kept) \in Nat
         /\ \A i \in 1..Len(kept) : kept[i] = (Len(input) - Len(kept)) + i
         /\ \A n \in 1..(Len(input) - Len(kept)) : HopTime(n) < end - window.span
<1>. DEFINE late == {i \in DOMAIN buf : HopTime(buf[i]) >= end - window.span}
            F == Forgotten
            L == Len(buf)
            N == Len(input)
<1>1. /\ F \in Nat /\ L \in Nat /\ N \in Nat /\ F + L = N
      /\ buf \in Seq(1..N) /\ DOMAIN buf = 1..L
      /\ window.span \in Nat /\ \A n \in 1..N : HopTime(n) \in Int
  BY Buffered, WindowTypes, LenProperties DEF WindowTypeOK
<1>2. \A i \in 1..L : buf[i] = F + i
  OBVIOUS
<1>3. kept = IF late = {} THEN <<>> ELSE SubSeq(buf, Min(late), L)
  BY DEF Keep
<1>4. late \in SUBSET Nat /\ late \subseteq 1..L
  BY <1>1
<1>5. \A i \in 1..L : i \notin late => HopTime(F + i) < end - window.span
  <2>. SUFFICES ASSUME NEW i \in 1..L, i \notin late PROVE HopTime(F + i) < end - window.span
    OBVIOUS
  <2>1. buf[i] = F + i /\ F + i \in 1..N
    BY <1>1, <1>2
  <2>2. HopTime(F + i) \in Int /\ ~(HopTime(F + i) >= end - window.span)
    BY <1>1, <2>1
  <2>. QED  BY <1>1, <2>2
<1>6. \A n \in 1..F : HopTime(n) < end - window.span
  OBVIOUS
<1>. HIDE DEF F, L, N, late
<1>7. CASE late = {}
  <2>1. kept = <<>>
    BY <1>3, <1>7
  <2>2. \A n \in 1..N : HopTime(n) < end - window.span
    <3>. SUFFICES ASSUME NEW n \in 1..N PROVE HopTime(n) < end - window.span
      OBVIOUS
    <3>1. CASE n \in 1..F
      BY <1>6, <3>1
    <3>2. CASE n \notin 1..F
      <4>1. n - F \in 1..L /\ F + (n - F) = n
        BY <1>1, <3>2
      <4>. QED  BY <1>5, <1>7, <4>1
    <3>. QED  BY <3>1, <3>2
  <2>. QED  BY <1>1, <2>1, <2>2 DEF N
<1>8. CASE late # {}
  <2>. DEFINE m == Min(late)
  <2>1. m \in late /\ \A i \in late : m <= i
    BY <1>4, <1>8, LeastNumber
  <2>. HIDE DEF m
  <2>2. m \in 1..L /\ kept = SubSeq(buf, m, L)
    BY <1>3, <1>4, <1>8, <2>1 DEF m
  <2>3. /\ kept \in Seq(1..N) /\ Len(kept) = (L - m) + 1
        /\ \A i \in 1..((L - m) + 1) : kept[i] = buf[(m + i) - 1]
    <3>1. \A i \in m..L : buf[i] \in 1..N
      <4>. SUFFICES ASSUME NEW i \in m..L PROVE buf[i] \in 1..N
        OBVIOUS
      <4>1. i \in 1..L /\ F + i \in 1..N
        BY <1>1, <2>2
      <4>. QED  BY <1>2, <4>1
    <3>2. /\ SubSeq(buf, m, L) \in Seq(1..N)
          /\ Len(SubSeq(buf, m, L)) = IF m <= L THEN (L - m) + 1 ELSE 0
          /\ \A i \in 1..((L - m) + 1) : SubSeq(buf, m, L)[i] = buf[(m + i) - 1]
      BY <1>1, <2>2, <3>1, SubSeqProperties
    <3>. QED  BY <1>1, <2>2, <3>2
  <2>4. \A i \in 1..Len(kept) : kept[i] = (N - Len(kept)) + i
    <3>. SUFFICES ASSUME NEW i \in 1..Len(kept) PROVE kept[i] = (N - Len(kept)) + i
      OBVIOUS
    <3>1. (m + i) - 1 \in 1..L /\ i \in 1..((L - m) + 1)
      BY <1>1, <2>2, <2>3
    <3>2. kept[i] = F + ((m + i) - 1)
      BY <1>2, <2>3, <3>1
    <3>. QED  BY <1>1, <2>2, <2>3, <3>2
  <2>5. \A n \in 1..(N - Len(kept)) : HopTime(n) < end - window.span
    <3>. SUFFICES ASSUME NEW n \in 1..(N - Len(kept)) PROVE HopTime(n) < end - window.span
      OBVIOUS
    <3>1. CASE n \in 1..F
      BY <1>6, <3>1
    <3>2. CASE n \notin 1..F
      <4>1. n - F \in 1..L /\ F + (n - F) = n /\ n - F < m
        BY <1>1, <2>2, <2>3, <3>2
      <4>2. n - F \notin late
        BY <1>1, <2>1, <2>2, <4>1
      <4>. QED  BY <1>5, <4>1, <4>2
    <3>. QED  BY <3>1, <3>2
  <2>6. Len(kept) <= N /\ Len(kept) \in Nat
    BY <1>1, <2>2, <2>3
  <2>. QED  BY <2>3, <2>4, <2>5, <2>6 DEF N
<1>. QED  BY <1>7, <1>8

\* HoppingIsExact in the names of the invariant.
LEMMA ExactMeans ==
  HoppingIsExact <=>
    (window.type = "HOPPING" /\ input # <<>> =>
        /\ Range(emitted) = {w \in Expected : w.records # {}}
        /\ \A i, j \in DOMAIN emitted : i < j => emitted[i].end < emitted[j].end)
BY DEF HoppingIsExact, Expected, Due, FirstEnd

\* What the invariant says of a HOPPING query that has received a record.
HopState ==
    /\ started /\ Len(buf) <= Len(input)
    /\ \A i \in 1..Len(buf) : buf[i] = Forgotten + i
    /\ FirstEnd <= nextEmit /\ (nextEmit - FirstEnd) % window.hop = 0
    /\ \A n \in 1..Forgotten : HopTime(n) < nextEmit - window.span
    /\ \A n \in 1..(Len(input) - 1) : HopTime(n) < nextEmit
    /\ phase = "select" => HopTime(Len(input)) < nextEmit
    /\ phase = "hop" => nextEmit <= HopTime(Len(input))
    /\ \A e \in Due : \E n \in 1..Len(input) : e <= HopTime(n)
    /\ \A i \in 1..Len(emitted) : emitted[i].end < nextEmit
    /\ Range(emitted) = {w \in Expected : w.records # {}}
    /\ \A i, j \in DOMAIN emitted : i < j => emitted[i].end < emitted[j].end

LEMMA HopMeans ==
  ASSUME window.type = "HOPPING", input # <<>>
  PROVE  HopInv <=> HopState
BY ExactMeans DEF HopInv, HopState

\* A record of a HOPPING query.
LEMMA HoppingReceivesKeeps ==
  ASSUME WindowInv, NEW r \in RecordData, HoppingReceives(r)
  PROVE  WindowInv'
<1>. DEFINE t == InstantUnix(r, Len(input))
            N == Len(input)
<1>1. /\ WindowTypeOK /\ HopInv /\ window.type = "HOPPING" /\ window' = window
      /\ Len(input) < MaxRecord /\ input' = Append(input, r)
      /\ buf' = Append(buf, Len(input')) /\ started' = TRUE
      /\ nextEmit' = IF started THEN nextEmit ELSE BoundaryAfter(t, window.hop)
      /\ phase' = IF t >= nextEmit' THEN "hop" ELSE "select"
      /\ UNCHANGED <<win, winEnd, emitted>> /\ phase = "select"
  BY DEF HoppingReceives, WindowInv
<1>2. /\ input' \in Seq(RecordData) /\ Len(input') = N + 1 /\ Len(input') <= MaxRecord
      /\ Seq(1..N) \subseteq Seq(1..Len(input')) /\ Len(input') \in 1..Len(input')
      /\ emitted \in Seq(Emission(Len(input')))
      /\ N \in Nat /\ t \in Int /\ window.hop \in Nat \ {0} /\ window.span \in Nat
      /\ \A n \in 1..N : HopTime(n)' = HopTime(n) /\ HopTime(n) \in Int
      /\ \A n : n = N + 1 => HopTime(n)' = t
      /\ input' # <<>>
  <2>1. input' # <<>>
    BY <1>1, Receiving, WindowTypes, EmptySeq
  <2>. QED  BY <1>1, <2>1, Receiving, WindowTypes
<1>3. /\ started <=> input # <<>>
      /\ Len(buf) <= N /\ \A i \in 1..Len(buf) : buf[i] = Forgotten + i
      /\ input = <<>> => emitted = <<>>
  BY <1>1 DEF HopInv
<1>4. /\ Forgotten \in Nat /\ Len(buf) \in Nat /\ Forgotten + Len(buf) = N
      /\ buf \in Seq(1..Len(input'))
  BY <1>1, <1>2, <1>3, Buffered DEF WindowTypeOK
<1>5. /\ buf' \in Seq(1..Len(input')) /\ Len(buf') = Len(buf) + 1
      /\ \A i \in 1..Len(buf) : buf'[i] = buf[i]
      /\ buf'[Len(buf) + 1] = N + 1
  BY <1>1, <1>2, <1>4, AppendProperties
<1>6. Forgotten' = Forgotten /\ Len(buf') <= Len(input')
  BY <1>2, <1>4, <1>5 DEF Forgotten
<1>7. \A i \in 1..Len(buf') : buf'[i] = Forgotten' + i
  <2>. SUFFICES ASSUME NEW i \in 1..Len(buf') PROVE buf'[i] = Forgotten + i
    BY <1>6
  <2>1. CASE i \in 1..Len(buf)
    BY <1>3, <1>5, <2>1
  <2>2. CASE i = Len(buf) + 1
    BY <1>4, <1>5, <2>2
  <2>. QED  BY <1>4, <1>5, <2>1, <2>2
<1>8. nextEmit' \in Int /\ phase' \in {"select", "hop"} /\ (phase' = "hop" <=> t >= nextEmit')
  <2>1. BoundaryAfter(t, window.hop) \in Int /\ nextEmit \in Int
    BY <1>1, <1>2, BoundaryIsAfter DEF WindowTypeOK
  <2>. QED  BY <1>1, <2>1
<1>9. WindowTypeOK'
  <2>1. win \in Seq(1..Len(input')) /\ winEnd \in Int /\ window \in Window
    BY <1>1, <1>2 DEF WindowTypeOK
  <2>. QED  BY <1>1, <1>2, <1>5, <1>8, <2>1 DEF WindowTypeOK, Emission
<1>10. \A n : n = Len(input') => HopTime(n)' = t
  BY <1>2
<1>11. phase' = "select" => HopTime(Len(input))' < nextEmit'
  <2>1. HopTime(Len(input))' = t
    BY <1>2 DEF HopTime
  <2>. QED  BY <1>2, <1>8, <2>1
<1>12. phase' = "hop" => nextEmit' <= HopTime(Len(input))'
  <2>1. HopTime(Len(input))' = t
    BY <1>2 DEF HopTime
  <2>. QED  BY <1>2, <1>8, <2>1
<1>13. HopState'
  <2>1. CASE input = <<>>
    <3>1. N = 0 /\ Forgotten = 0 /\ emitted' = <<>>
      BY <1>1, <1>3, <1>4, <2>1, EmptySeq
    <3>2. nextEmit' = BoundaryAfter(t, window.hop) /\ HopTime(1)' = t
      BY <1>1, <1>2, <1>3, <2>1, <3>1
    <3>3. FirstEnd' = nextEmit'
      BY <1>1, <3>2 DEF FirstEnd
    <3>4. (nextEmit' - FirstEnd') % window.hop = 0 /\ Due' = {}
      <4>1. nextEmit' - FirstEnd' = 0 /\ FirstEnd' .. (nextEmit' - 1) = {}
        <5>1. \A a \in Int : a - a = 0 /\ a .. (a - 1) = {}
          OBVIOUS
        <5>. QED  BY <1>8, <3>3, <5>1
      <4>2. 0 % window.hop = 0
        BY <1>2, NoRemainder
      <4>. QED  BY <4>1, <4>2 DEF Due
    <3>5. Expected' = {} /\ Range(emitted') = {} /\ DOMAIN emitted' = {} /\ Len(emitted') = 0
      BY <3>1, <3>4 DEF Expected, Range
    <3>6. 1..Forgotten' = {} /\ 1..(Len(input') - 1) = {}
      BY <1>2, <1>6, <3>1
    <3>. QED  BY <1>1, <1>6, <1>7, <1>8, <1>11, <1>12, <3>3, <3>4, <3>5, <3>6 DEF HopState
  <2>2. CASE input # <<>>
    <3>1. HopState /\ nextEmit' = nextEmit /\ N # 0 /\ nextEmit \in Int
      BY <1>1, <1>3, <2>2, HopMeans, EmptySeq, LenProperties DEF WindowTypeOK
    <3>2. HopTime(1)' = HopTime(1) /\ FirstEnd' = FirstEnd /\ Due' = Due
      BY <1>1, <1>2, <3>1 DEF FirstEnd, Due
    <3>3. FirstEnd \in Int
      <4>1. HopTime(1) \in Int
        BY <1>2, <3>1
      <4>. QED  BY <1>2, <4>1, BoundaryIsAfter DEF FirstEnd
    <3>4. \A e \in Due : e \in Int /\ \E n \in 1..N : e <= HopTime(n)
      BY <3>1, <3>3 DEF HopState, Due
    <3>5. \A e \in Due : HoppingWindow(e)' = HoppingWindow(e)
      BY <1>1, <3>4, WindowStays
    <3>6. Expected' = Expected
      BY <3>2, <3>5 DEF Expected
    <3>7. \A n \in 1..N : HopTime(n)' < nextEmit'
      <4>1. \A n \in 1..(N - 1) : HopTime(n) < nextEmit
        BY <3>1 DEF HopState
      <4>2. HopTime(N) < nextEmit
        BY <1>1, <3>1 DEF HopState
      <4>3. \A n \in 1..N : n \in 1..(N - 1) \/ n = N
        BY <1>2
      <4>. QED  BY <1>2, <3>1, <4>1, <4>2, <4>3
    <3>8. 1..(Len(input') - 1) = 1..N
      BY <1>2
    <3>9. \A e \in Due' : \E n \in 1..Len(input') : e <= HopTime(n)'
      <4>1. \A n \in 1..N : n \in 1..Len(input') /\ HopTime(n)' = HopTime(n)
        BY <1>2
      <4>. QED  BY <3>2, <3>4, <4>1
    <3>10. \A n \in 1..Forgotten' : HopTime(n)' < nextEmit' - window'.span
      <4>1. \A n \in 1..Forgotten : n \in 1..N /\ HopTime(n) < nextEmit - window.span
        BY <1>4, <3>1 DEF HopState
      <4>. QED  BY <1>1, <1>2, <1>6, <3>1, <4>1
    <3>. QED
      BY <1>1, <1>6, <1>7, <1>8, <1>11, <1>12, <3>1, <3>2, <3>6, <3>7, <3>8, <3>9, <3>10 DEF HopState
  <2>. QED  BY <2>1, <2>2
<1>14. HopInv'
  BY <1>1, <1>2, <1>13, HopMeans DEF HopState, HopInv, HoppingIsExact, Expected, Due, FirstEnd
<1>. QED  BY <1>1, <1>9, <1>14 DEF WindowInv, RunInv, GridInv

\* A boundary more is due.
LEMMA NextIsDue ==
  ASSUME NEW a \in Int, NEW b \in Int, NEW d \in Nat \ {0}, a <= b, (b - a) % d = 0
  PROVE  /\ {e \in a .. ((b + d) - 1) : (e - a) % d = 0} = {e \in a .. (b - 1) : (e - a) % d = 0} \cup {b}
         /\ ((b + d) - a) % d = 0
<1>1. ASSUME NEW e \in a .. ((b + d) - 1), (e - a) % d = 0, e \notin a .. (b - 1) PROVE e = b
  <2>. DEFINE c == b - a
              y == e - b
  <2>1. c \in Int /\ c % d = 0 /\ y \in 0 .. (d - 1) /\ c + y = e - a
    BY <1>1
  <2>. HIDE DEF c, y
  <2>2. (c + y) % d = y
    BY <2>1, SumOfMultiple
  <2>3. y = 0
    BY <1>1, <2>1, <2>2
  <2>. QED  BY <2>3 DEF y
<1>2. b \in a .. ((b + d) - 1) /\ a .. (b - 1) \subseteq a .. ((b + d) - 1)
  OBVIOUS
<1>3. ((b + d) - a) % d = 0
  <2>. DEFINE q == (b - a) \div d
              x == (b + d) - a
  <2>1. q \in Int /\ b - a = d * q
    <3>1. b - a \in Int
      OBVIOUS
    <3>. QED  BY <3>1, Division
  <2>. HIDE DEF q
  <2>2. x = d * (q + 1) /\ q + 1 \in Int /\ x \in Int
    <3>1. d * (q + 1) = d * q + d
      BY <2>1
    <3>. QED  BY <2>1, <3>1
  <2>. HIDE DEF x
  <2>3. x \div d = q + 1
    <3>1. d * (q + 1) <= x /\ x < d * (q + 1) + d
      BY <2>2
    <3>. QED  BY <2>2, <3>1, UniqueQuotient
  <2>4. x = d * (x \div d) + (x % d) /\ x % d \in Int
    BY <2>2, Division
  <2>5. x % d = 0
    <3>. DEFINE p == d * (q + 1)
                r == x % d
    <3>1. x = p /\ x = p + r /\ r \in Int
      BY <2>2, <2>3, <2>4
    <3>. HIDE DEF p, r
    <3>2. r = 0
      BY <3>1, <2>2
    <3>. QED  BY <3>2 DEF r
  <2>. QED  BY <2>5 DEF x
<1>. QED  BY <1>1, <1>2, <1>3

\* One turn of the inner loop: the window whose end the last record has reached.
LEMMA HopEmitsKeeps ==
  ASSUME WindowInv, HopEmits
  PROVE  WindowInv'
<1>. DEFINE N == Len(input)
            e == nextEmit
            records == InWindow(Range(buf), e)
<1>1. /\ WindowTypeOK /\ HopInv /\ phase = "hop" /\ window.type = "HOPPING" /\ input # <<>>
      /\ EmitWindow(e, records)
      /\ nextEmit' = nextEmit + window.hop
      /\ buf' = Keep(nextEmit + window.hop)
      /\ phase' = IF HopTime(N) >= nextEmit' THEN "hop" ELSE "select"
      /\ UNCHANGED <<window, input, win, winEnd, started>>
  BY DEF HopEmits, WindowInv, HopInv
<1>2. HopState
  BY <1>1, HopMeans
<1>3. /\ N \in Nat \ {0} /\ window.hop \in Nat \ {0} /\ window.span \in Nat
      /\ \A n \in 1..N : HopTime(n) \in Int
      /\ nextEmit \in Int /\ DOMAIN input = 1..N /\ Len(emitted) \in Nat
      /\ emitted \in Seq(Emission(N)) /\ DOMAIN emitted = 1..Len(emitted)
  BY <1>1, WindowTypes, EmptySeq, LenProperties DEF WindowTypeOK, Emission
<1>4. \A n : HopTime(n)' = HopTime(n)
  BY <1>1 DEF HopTime
<1>5. nextEmit' \in Int /\ nextEmit < nextEmit'
  BY <1>1, <1>3
<1>6. /\ buf' \in Seq(1..N) /\ Len(buf') <= N /\ Len(buf') \in Nat
      /\ \A i \in 1..Len(buf') : buf'[i] = (N - Len(buf')) + i
      /\ \A n \in 1..(N - Len(buf')) : HopTime(n) < nextEmit' - window.span
  <2>1. /\ Len(buf) <= N /\ \A i \in 1..Len(buf) : buf[i] = Forgotten + i
        /\ \A n \in 1..Forgotten : HopTime(n) < nextEmit - window.span
        /\ Forgotten \in Nat /\ Forgotten + Len(buf) = N /\ Len(buf) \in Nat
    BY <1>1, <1>2, Buffered DEF HopState
  <2>2. \A n \in 1..Forgotten : HopTime(n) < (nextEmit + window.hop) - window.span
    <3>. SUFFICES ASSUME NEW n \in 1..Forgotten
                  PROVE  HopTime(n) < (nextEmit + window.hop) - window.span
      OBVIOUS
    <3>1. HopTime(n) \in Int /\ HopTime(n) < nextEmit - window.span
      BY <1>3, <2>1
    <3>. QED  BY <1>3, <3>1
  <2>3. nextEmit + window.hop \in Int
    BY <1>3
  <2>. QED  BY <1>1, <2>1, <2>2, <2>3, Keeping
<1>7. records \in SUBSET (1..N) /\ HoppingWindow(e) = [end |-> e, records |-> records]
  <2>1. /\ Range(buf) = (Forgotten + 1)..N /\ Forgotten \in Nat
        /\ \A n \in 1..Forgotten : HopTime(n) < e - window.span
    BY <1>1, <1>2, Buffered DEF HopState
  <2>2. Reaching(e) \in SUBSET Nat /\ N \in Reaching(e)
    BY <1>1, <1>2, <1>3 DEF Reaching, HopState
  <2>3. \A n \in Reaching(e) : N <= n
    <3>. SUFFICES ASSUME NEW n \in Reaching(e), n < N PROVE FALSE
      BY <1>3 DEF Reaching
    <3>1. n \in 1..(N - 1) /\ HopTime(n) \in Int /\ HopTime(n) >= e
      BY <1>3 DEF Reaching
    <3>2. HopTime(n) < e
      BY <1>2, <3>1 DEF HopState
    <3>. QED  BY <1>3, <3>1, <3>2
  <2>4. Min(Reaching(e)) = N
    BY <2>2, <2>3, LeastIs
  <2>5. HoppingWindow(e) = [end |-> e, records |-> InWindow(1..N, e)]
    BY <1>3, <2>4, WindowIsMade
  <2>6. InWindow(1..N, e) = records
    <3>1. ASSUME NEW n \in 1..N, e - window.span <= HopTime(n) PROVE n \in (Forgotten + 1)..N
      <4>1. n \notin 1..Forgotten
        BY <1>3, <2>1, <3>1
      <4>. QED  BY <2>1, <4>1
    <3>2. (Forgotten + 1)..N \subseteq 1..N
      BY <2>1
    <3>. QED  BY <2>1, <3>1, <3>2 DEF InWindow
  <2>7. records \subseteq 1..N
    BY <2>6 DEF InWindow
  <2>. QED  BY <2>5, <2>6, <2>7
<1>. HIDE DEF records
<1>8. /\ emitted' \in Seq(Emission(N))
      /\ \A i \in 1..Len(emitted) : i \in 1..Len(emitted') /\ emitted'[i] = emitted[i]
      /\ records = {} => emitted' = emitted
      /\ records # {} => /\ Len(emitted') = Len(emitted) + 1
                         /\ emitted'[Len(emitted) + 1] = [end |-> e, records |-> records]
  BY <1>1, <1>3, <1>7, Emitting
<1>9. DOMAIN emitted' = 1..Len(emitted') /\ Len(emitted') \in Nat
  BY <1>8, LenProperties
<1>10. WindowTypeOK'
  <2>1. phase' \in {"select", "hop"}
    BY <1>1
  <2>. QED  BY <1>1, <1>5, <1>6, <1>8, <2>1 DEF WindowTypeOK, Emission
<1>11. FirstEnd' = FirstEnd /\ FirstEnd \in Int /\ FirstEnd <= nextEmit
  <2>1. HopTime(1) \in Int
    BY <1>3
  <2>2. FirstEnd \in Int
    BY <1>3, <2>1, BoundaryIsAfter DEF FirstEnd
  <2>. QED  BY <1>1, <1>2, <1>4, <2>2 DEF FirstEnd, HopState
<1>12. Due' = Due \cup {e} /\ (nextEmit' - FirstEnd') % window.hop = 0
  <2>1. (nextEmit - FirstEnd) % window.hop = 0
    BY <1>2 DEF HopState
  <2>2. /\ {x \in FirstEnd .. ((nextEmit + window.hop) - 1) : (x - FirstEnd) % window.hop = 0}
             = {x \in FirstEnd .. (nextEmit - 1) : (x - FirstEnd) % window.hop = 0} \cup {nextEmit}
        /\ ((nextEmit + window.hop) - FirstEnd) % window.hop = 0
    BY <1>3, <1>11, <2>1, NextIsDue
  <2>. QED  BY <1>1, <1>11, <2>2 DEF Due
<1>13. Expected' = Expected \cup {[end |-> e, records |-> records]}
  <2>1. \A x : HoppingWindow(x)' = HoppingWindow(x)
    BY <1>1 DEF HoppingWindow, HopTime, InWindow
  <2>2. Expected' = {HoppingWindow(x) : x \in Due \cup {e}}
    BY <1>12, <2>1 DEF Expected
  <2>. QED  BY <1>7, <2>2 DEF Expected
<1>14. Range(emitted') = {w \in Expected' : w.records # {}}
  <2>1. Range(emitted) = {w \in Expected : w.records # {}}
    BY <1>2 DEF HopState
  <2>2. CASE records = {}
    BY <1>8, <1>13, <2>1, <2>2
  <2>3. CASE records # {}
    <3>1. Range(emitted') = Range(emitted) \cup {[end |-> e, records |-> records]}
      <4>1. \A i \in 1..Len(emitted') : i \in 1..Len(emitted) \/ i = Len(emitted) + 1
        BY <1>3, <1>8, <2>3
      <4>2. Len(emitted) + 1 \in 1..Len(emitted')
        BY <1>3, <1>8, <2>3
      <4>. QED  BY <1>3, <1>8, <1>9, <2>3, <4>1, <4>2 DEF Range
    <3>. QED  BY <1>13, <2>1, <2>3, <3>1
  <2>. QED  BY <2>2, <2>3
<1>15. ASSUME NEW i \in 1..Len(emitted') PROVE emitted'[i].end < nextEmit'
  <2>1. CASE i \in 1..Len(emitted)
    <3>1. emitted[i].end < nextEmit /\ emitted[i].end \in Int /\ emitted'[i] = emitted[i]
      BY <1>1, <1>2, <1>8, <2>1, WindowTypes DEF HopState
    <3>. QED  BY <1>3, <1>5, <3>1
  <2>2. CASE i \notin 1..Len(emitted)
    <3>0. records # {}
      BY <1>8, <2>2
    <3>1. i = Len(emitted) + 1 /\ records # {}
      BY <1>3, <1>8, <2>2, <3>0
    <3>. QED  BY <1>5, <1>8, <3>1
  <2>. QED  BY <2>1, <2>2
<1>16. ASSUME NEW i \in 1..Len(emitted'), NEW j \in 1..Len(emitted'), i < j
       PROVE  emitted'[i].end < emitted'[j].end
  <2>1. CASE j \in 1..Len(emitted)
    <3>1. i \in 1..Len(emitted)
      BY <1>3, <1>9, <1>16, <2>1
    <3>. QED  BY <1>2, <1>3, <1>8, <1>16, <2>1, <3>1 DEF HopState
  <2>2. CASE j \notin 1..Len(emitted)
    <3>0. records # {}
      BY <1>8, <2>2
    <3>1. j = Len(emitted) + 1 /\ records # {} /\ i \in 1..Len(emitted)
      BY <1>3, <1>8, <1>16, <2>2, <3>0
    <3>2. emitted[i].end < e
      BY <1>2, <3>1 DEF HopState
    <3>. QED  BY <1>8, <3>1, <3>2
  <2>. QED  BY <2>1, <2>2
<1>17. \A x \in Due' : \E n \in 1..N : x <= HopTime(n)
  <2>1. N \in 1..N /\ e <= HopTime(N)
    BY <1>1, <1>2, <1>3 DEF HopState
  <2>. QED  BY <1>2, <1>12, <2>1 DEF HopState
<1>18. \A n \in 1..(N - 1) : HopTime(n) < nextEmit'
  <2>. SUFFICES ASSUME NEW n \in 1..(N - 1) PROVE HopTime(n) < nextEmit'
    OBVIOUS
  <2>1. HopTime(n) < nextEmit /\ HopTime(n) \in Int
    BY <1>2, <1>3 DEF HopState
  <2>. QED  BY <1>3, <1>5, <2>1
<1>19. /\ phase' = "select" => HopTime(N) < nextEmit'
       /\ phase' = "hop" => nextEmit' <= HopTime(N)
  <2>1. HopTime(N) \in Int
    BY <1>3
  <2>. QED  BY <1>1, <1>5, <2>1
<1>20. FirstEnd' <= nextEmit'
  BY <1>3, <1>5, <1>11
<1>21. started' /\ Len(input') = N /\ input' # <<>>
  BY <1>1, <1>2 DEF HopState
<1>22. \A i, j \in DOMAIN emitted' : i < j => emitted'[i].end < emitted'[j].end
  BY <1>9, <1>16
<1>23. /\ \A i \in 1..Len(buf') : buf'[i] = Forgotten' + i
       /\ \A n \in 1..Forgotten' : HopTime(n)' < nextEmit' - window'.span
  BY <1>1, <1>4, <1>6 DEF Forgotten
<1>24. HopTime(Len(input))' = HopTime(N)
  BY <1>1 DEF HopTime
<1>25. HopState'
  BY <1>1, <1>4, <1>6, <1>12, <1>14, <1>15, <1>17, <1>18, <1>19, <1>20, <1>21, <1>22, <1>23, <1>24
     DEF HopState
<1>26. HopInv'
  BY <1>1, <1>21, <1>25, HopMeans DEF HopState, HopInv, HoppingIsExact, Expected, Due, FirstEnd
<1>. QED  BY <1>1, <1>10, <1>26 DEF WindowInv, RunInv, GridInv

-----------------------------------------------------------------------------
(* The theorems                                                            *)

LEMMA WindowInitInv == WindowInit => WindowInv
<1>. SUFFICES ASSUME WindowInit PROVE WindowInv
  OBVIOUS
<1>1. /\ window \in Window /\ input = <<>> /\ win = <<>> /\ buf = <<>> /\ emitted = <<>>
      /\ Len(input) = 0 /\ Len(win) = 0 /\ Len(emitted) = 0 /\ Len(buf) = 0
      /\ winEnd = 0 /\ nextEmit = 0 /\ started = FALSE /\ phase = "select"
  BY EmptySeq DEF WindowInit
<1>2. window.size \in Nat \ {0} /\ MaxRecord \in Nat
  BY <1>1, WindowAssumption DEF WindowAssumption
<1>3. WindowTypeOK
  <2>1. \A S : <<>> \in Seq(S)
    BY EmptySeq
  <2>2. input \in Seq(RecordData) /\ win \in Seq(1..Len(input)) /\ buf \in Seq(1..Len(input))
        /\ emitted \in Seq([end : Int, records : SUBSET (1..Len(input))])
    BY <1>1, <2>1
  <2>3. winEnd \in Int /\ nextEmit \in Int
        /\ Len(input) <= MaxRecord /\ Len(win) < window.size
    BY <1>1, <1>2
  <2>4. started \in BOOLEAN /\ phase \in {"select", "hop", "done"}
    BY <1>1, Zenon
  <2>. QED  BY <1>1, <2>2, <2>3, <2>4 DEF WindowTypeOK
<1>4. Closed = 0 /\ 1..0 = {}
  BY <1>1 DEF Closed
<1>5. RunInv
  BY <1>1, <1>4 DEF RunInv, Divides
<1>6. GridInv
  BY <1>1, <1>4 DEF GridInv
<1>7. HopInv
  BY <1>1, <1>4 DEF HopInv
<1>. QED  BY <1>3, <1>5, <1>6, <1>7 DEF WindowInv

LEMMA WindowNextInv == WindowInv /\ [WindowNext]_windowVars => WindowInv'
<1>. SUFFICES ASSUME WindowInv, [WindowNext]_windowVars PROVE WindowInv'
  OBVIOUS
<1>1. CASE \E r \in RecordData : CountReceives(r) \/ TumblingReceives(r) \/ HoppingReceives(r)
  BY <1>1, CountReceivesKeeps, TumblingReceivesKeeps, HoppingReceivesKeeps
<1>2. CASE HopEmits
  BY <1>2, HopEmitsKeeps
<1>3. CASE UNCHANGED <<window, input, win, winEnd, buf, started, nextEmit, emitted>>
           /\ (phase' = "done" \/ phase' = phase)
  <2>1. WindowTypeOK' /\ RunInv' /\ GridInv'
    BY <1>3 DEF WindowInv, WindowTypeOK, RunInv, GridInv, Closed, Divides, EndOf, RegularInput
  <2>2. HopInv'
    <3>1. \A n : HopTime(n)' = HopTime(n)
      BY <1>3 DEF HopTime
    <3>2. \A e : HoppingWindow(e)' = HoppingWindow(e)
      BY <1>3, <3>1 DEF HoppingWindow, InWindow
    <3>3. FirstEnd' = FirstEnd /\ Due' = Due /\ Forgotten' = Forgotten
      BY <1>3, <3>1 DEF FirstEnd, Due, Forgotten
    <3>4. Expected' = Expected
      BY <3>2, <3>3 DEF Expected
    <3>5. CASE window.type # "HOPPING"
      <4>1. phase # "hop"
        BY <3>5 DEF WindowInv, HopInv
      <4>. QED  BY <1>3, <3>5, <4>1 DEF HopInv
    <3>6. CASE window.type = "HOPPING" /\ input = <<>>
      BY <1>3, <3>3, <3>6 DEF WindowInv, HopInv
    <3>7. CASE window.type = "HOPPING" /\ input # <<>>
      <4>1. HopState
        BY <3>7, HopMeans DEF WindowInv
      <4>2. HopTime(Len(input))' = HopTime(Len(input))
        BY <1>3 DEF HopTime
      <4>3. HopState'
        BY <1>3, <3>1, <3>3, <3>4, <4>1, <4>2 DEF HopState
      <4>. QED  BY <1>3, <3>7, <4>3
                DEF HopState, HopInv, HoppingIsExact, Expected, Due, FirstEnd
    <3>. QED  BY <3>5, <3>6, <3>7
  <2>. QED  BY <2>1, <2>2 DEF WindowInv
<1>. QED  BY <1>1, <1>2, <1>3 DEF WindowNext, WorkerEnds, windowVars

LEMMA WindowInvariant == WindowSpec => []WindowInv
BY WindowInitInv, WindowNextInv, PTL DEF WindowSpec

\* The variables of the worker have their types, and a COUNT window never holds as many
\* records as it is to have without being emitted (runAggregate).
THEOREM WindowsTypeCorrect == WindowSpec => []WindowTypeOK
<1>1. WindowInv => WindowTypeOK
  BY DEF WindowInv
<1>. QED  BY <1>1, WindowInvariant, PTL

\* COUNT and TUMBLING windows partition every stream, in order of arrival, and COUNT windows
\* have their size (runAggregate).
THEOREM WindowsEachRecordInOne == WindowSpec => []EachRecordInOneWindow
<1>1. WindowInv => EachRecordInOneWindow
  <2>. SUFFICES ASSUME WindowInv, window.type # "HOPPING" PROVE EachRecordInOneWindow
    BY DEF EachRecordInOneWindow
  <2>1. WindowTypeOK /\ RunInv
    BY DEF WindowInv
  <2>2. /\ Closed \in Nat /\ Range(win) = (Closed + 1)..Len(input)
        /\ Len(input) \in Nat /\ Len(emitted) \in Nat /\ Closed <= Len(input)
        /\ DOMAIN emitted = 1..Len(emitted)
    <3>1. Len(input) + 1 = Len(input) + 1 /\ Range(win) = (Closed + 1)..Len(input) /\ Closed \in Nat
      <4>1. \A i \in 1..Len(win) : win[i] = Closed + i
        BY <2>1 DEF RunInv
      <4>2. /\ DOMAIN win = 1..Len(win) /\ Len(win) \in Nat /\ Len(input) \in Nat
            /\ Len(win) <= Len(input)
        BY <2>1, WindowTypes, LenProperties DEF WindowTypeOK, RunInv
      <4>3. Closed \in Nat /\ Closed + Len(win) = Len(input)
        BY <4>2 DEF Closed
      <4>4. \A n \in (Closed + 1)..Len(input) : n - Closed \in 1..Len(win) /\ win[n - Closed] = n
        BY <4>1, <4>2, <4>3
      <4>5. \A i \in 1..Len(win) : win[i] \in (Closed + 1)..Len(input)
        BY <4>1, <4>2, <4>3
      <4>. QED  BY <4>2, <4>3, <4>4, <4>5 DEF Range
    <3>2. Closed <= Len(input)
      BY <2>1, WindowTypes DEF Closed
    <3>. QED  BY <2>1, <3>1, <3>2, WindowTypes, LenProperties DEF WindowTypeOK
  <2>3. Divides(emitted, Closed)
    BY <2>1 DEF RunInv
  <2>4. /\ DOMAIN Grouped = 1..(Len(emitted) + 1)
        /\ \A i \in 1..Len(emitted) : Grouped[i] = emitted[i].records
        /\ Grouped[Len(emitted) + 1] = Range(win)
        /\ \A i \in DOMAIN Grouped : i \in 1..Len(emitted) \/ i = Len(emitted) + 1
    BY <2>2 DEF Grouped
  <2>5. UNION Range(Grouped) = 1..Len(input)
    <3>1. ASSUME NEW n \in 1..Len(input) PROVE n \in UNION Range(Grouped)
      <4>1. CASE n \in 1..Closed
        <5>1. PICK i \in 1..Len(emitted) : n \in emitted[i].records
          BY <2>3, <4>1 DEF Divides
        <5>2. i \in DOMAIN Grouped /\ n \in Grouped[i]
          BY <2>2, <2>4, <5>1
        <5>. QED  BY <5>2 DEF Range
      <4>2. CASE n \notin 1..Closed
        <5>1. n \in Range(win)
          BY <2>2, <4>2
        <5>2. Len(emitted) + 1 \in DOMAIN Grouped
          BY <2>2, <2>4
        <5>3. n \in Grouped[Len(emitted) + 1]
          BY <2>4, <5>1
        <5>. QED  BY <5>2, <5>3 DEF Range
      <4>. QED  BY <4>1, <4>2
    <3>2. \A i \in DOMAIN Grouped : Grouped[i] \subseteq 1..Len(input)
      <4>1. \A i \in 1..Len(emitted) : emitted[i].records \subseteq 1..Len(input)
        BY <2>1, WindowTypes
      <4>2. Range(win) \subseteq 1..Len(input)
        BY <2>2
      <4>. QED  BY <2>4, <4>1, <4>2
    <3>. QED  BY <3>1, <3>2 DEF Range
  <2>6. ASSUME NEW i \in DOMAIN Grouped, NEW j \in DOMAIN Grouped, i < j,
               NEW m \in Grouped[i], NEW n \in Grouped[j]
        PROVE  m < n
    <3>1. i \in 1..Len(emitted) /\ m \in emitted[i].records
      BY <2>2, <2>4, <2>6
    <3>2. m \in 1..Closed
      BY <2>3, <3>1 DEF Divides
    <3>3. CASE j \in 1..Len(emitted)
      <4>1. n \in emitted[j].records
        BY <2>4, <2>6, <3>3
      <4>. QED  BY <2>3, <2>6, <3>1, <3>3, <4>1 DEF Divides
    <3>4. CASE j = Len(emitted) + 1
      BY <2>2, <2>4, <2>6, <3>2, <3>4
    <3>. QED  BY <2>4, <3>3, <3>4
  <2>7. \A i \in DOMAIN emitted :
           /\ emitted[i].records # {}
           /\ window.type = "COUNT" => Cardinality(emitted[i].records) = window.size
    BY <2>1, <2>2, <2>3 DEF Divides, RunInv
  <2>. QED  BY <2>5, <2>6, <2>7 DEF EachRecordInOneWindow
<1>. QED  BY <1>1, WindowInvariant, PTL

\* On a stream in the order of its times the TUMBLING windows are the cells of the grid that
\* have records (runAggregate).
THEOREM WindowsFollowGrid == WindowSpec => []TumblingFollowsGrid
<1>1. WindowInv => TumblingFollowsGrid
  <2>. SUFFICES ASSUME WindowInv, window.type = "TUMBLING", RegularInput,
                       NEW i \in DOMAIN Grouped, NEW j \in DOMAIN Grouped,
                       NEW m \in Grouped[i], NEW n \in Grouped[j]
                PROVE  input[m].time \div window.span = input[n].time \div window.span <=> i = j
    BY DEF TumblingFollowsGrid
  <2>1. WindowTypeOK /\ GridInv
    BY DEF WindowInv
  <2>2. /\ Len(emitted) \in Nat /\ window.span \in Nat \ {0} /\ winEnd \in Int
        /\ DOMAIN input = 1..Len(input) /\ DOMAIN win = 1..Len(win)
        /\ \A k \in 1..Len(emitted) : emitted[k].end \in Int
    BY <2>1, WindowTypes, LenProperties DEF WindowTypeOK
  <2>. DEFINE End(k) == IF k <= Len(emitted) THEN emitted[k].end ELSE winEnd
  <2>3. \A k \in DOMAIN Grouped : k \in 1..Len(emitted) \/ (k = Len(emitted) + 1 /\ ~(k <= Len(emitted)))
    BY <2>2 DEF Grouped
  <2>4. ASSUME NEW k \in DOMAIN Grouped, NEW x \in Grouped[k]
        PROVE  /\ x \in 1..Len(input) /\ End(k) = EndOf(x) /\ End(k) \in Int
               /\ k = Len(emitted) + 1 => win # <<>>
    <3>1. CASE k \in 1..Len(emitted)
      <4>1. x \in emitted[k].records /\ k <= Len(emitted)
        BY <2>4, <3>1 DEF Grouped
      <4>2. x \in 1..Len(input)
        BY <2>1, <3>1, <4>1, WindowTypes
      <4>3. EndOf(x) = emitted[k].end
        BY <2>1, <3>1, <4>1 DEF GridInv
      <4>. QED  BY <2>2, <3>1, <4>1, <4>2, <4>3
    <3>2. CASE k = Len(emitted) + 1 /\ ~(k <= Len(emitted))
      <4>1. x \in Range(win)
        BY <2>4, <3>2 DEF Grouped
      <4>2. PICK p \in 1..Len(win) : x = win[p]
        BY <2>2, <4>1 DEF Range
      <4>3. x \in 1..Len(input) /\ win # <<>>
        <5>1. win \in Seq(1..Len(input))
          BY <2>1 DEF WindowTypeOK
        <5>. QED  BY <4>2, <5>1, ElementOfSeq, EmptySeq
      <4>4. EndOf(x) = winEnd
        BY <2>1, <4>2 DEF GridInv
      <4>. QED  BY <2>2, <3>2, <4>3, <4>4
    <3>. QED  BY <2>3, <3>1, <3>2
  <2>5. ASSUME NEW k \in DOMAIN Grouped, NEW l \in DOMAIN Grouped, k < l,
               NEW x \in Grouped[k], NEW y \in Grouped[l]
        PROVE  End(k) # End(l)
    <3>1. k \in 1..Len(emitted) /\ k <= Len(emitted)
      BY <2>2, <2>3, <2>5
    <3>2. CASE l \in 1..Len(emitted)
      <4>1. emitted[k].end < emitted[l].end /\ l <= Len(emitted)
        BY <2>1, <2>2, <2>5, <3>1, <3>2 DEF GridInv
      <4>. QED  BY <2>2, <3>1, <3>2, <4>1
    <3>3. CASE l = Len(emitted) + 1 /\ ~(l <= Len(emitted))
      <4>1. win # <<>>
        BY <2>4, <3>3
      <4>2. emitted[k].end < winEnd
        BY <2>1, <3>1, <4>1 DEF GridInv
      <4>. QED  BY <2>2, <3>1, <3>3, <4>2
    <3>. QED  BY <2>3, <3>2, <3>3
  <2>6. End(i) = End(j) <=> i = j
    <3>1. i \in Int /\ j \in Int
      BY <2>2, <2>3
    <3>. HIDE DEF End
    <3>. QED  BY <2>5, <3>1
  <2>7. input[m].time \in Nat /\ input[n].time \in Nat
    <3>1. \A x \in 1..Len(input) : input[x].time \in Nat
      BY <2>1, <2>2, WindowTypes DEF RegularInput
    <3>. QED  BY <2>4, <3>1
  <2>8. End(i) = BoundaryAfter(input[m].time, window.span)
        /\ End(j) = BoundaryAfter(input[n].time, window.span)
    BY <2>4 DEF EndOf
  <2>. HIDE DEF End
  <2>9. window.span \in Nat \ {0}
    BY <2>2
  <2>. DEFINE t == input[m].time
              u == input[n].time
              d == window.span
  <2>10. t \in Nat /\ u \in Nat /\ d \in Nat \ {0}
    BY <2>7, <2>9
  <2>11. End(i) = BoundaryAfter(t, d) /\ End(j) = BoundaryAfter(u, d)
    BY <2>8
  <2>. HIDE DEF t, u, d
  <2>12. (BoundaryAfter(t, d) = BoundaryAfter(u, d)) <=> (t \div d = u \div d)
    BY <2>10, SameCell
  <2>13. (t \div d = u \div d) <=> i = j
    BY <2>6, <2>11, <2>12
  <2>. QED  BY <2>13 DEF t, u, d
<1>. QED  BY <1>1, WindowInvariant, PTL

\* A HOPPING window has exactly the records that had arrived and are in its span when its end
\* was reached, in any order of the stream: the buffer has let go of none of them (runHopping).
THEOREM WindowsHoppingIsExact == WindowSpec => []HoppingIsExact
<1>1. WindowInv => HoppingIsExact
  <2>1. CASE window.type = "HOPPING" /\ input # <<>>
    BY <2>1, HopMeans, ExactMeans DEF WindowInv, HopState
  <2>2. CASE ~(window.type = "HOPPING" /\ input # <<>>)
    BY <2>2 DEF HoppingIsExact
  <2>. QED  BY <2>1, <2>2
<1>. QED  BY <1>1, WindowInvariant, PTL
=============================================================================
