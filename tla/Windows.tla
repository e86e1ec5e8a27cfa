------------------------------- MODULE Windows -------------------------------
(***************************************************************************)
(* The windows of a windowed continuous query: the loop of the in-process  *)
(* engine's worker that groups the records of the source (runAggregate and *)
(* runHopping in src/stream_engine_meos.go).  Module StreamTier has the    *)
(* worker's channels and its context; this module has what it computes.    *)
(*                                                                         *)
(* A record has the time it was observed at, in seconds since 1970, and    *)
(* says whether the layouts of instantUnix read it: RFC 3339 and           *)
(* "2006-01-02 15:04:05-07" are read, the "2006-01-02T15:04:05-07" of      *)
(* MF-JSON is not.  Records come in any order: producers push them, and a  *)
(* replay starts over at its first instant.                                *)
(***************************************************************************)
EXTENDS Integers, Sequences, SequencesExt, FiniteSetsExt

CONSTANTS
    Window,     \* the windows a POST may ask for: [type, size, span, hop]
    Time,       \* the times of the records
    Readable,   \* the values of a record's "read": a subset of BOOLEAN
    MaxRecord   \* bound: the number of records the source delivers

ASSUME WindowAssumption ==
    /\ \A w \in Window : /\ w.type \in {"COUNT", "TUMBLING", "HOPPING"}
                         /\ {w.size, w.span, w.hop} \subseteq Nat \ {0}
    /\ Time \subseteq Int
    /\ Readable \subseteq BOOLEAN
    /\ MaxRecord \in Nat

VARIABLES
    window,     \* spec.Window
    input,      \* history: the records received
    win,        \* the open COUNT or TUMBLING window: the numbers of its records
    winEnd,     \* the end of the open TUMBLING window
    buf,        \* the records a HOPPING window may still take, by number
    started,    \* a HOPPING query has received a record
    nextEmit,   \* the end of the next HOPPING window
    phase,      \* control of the worker
    emitted     \* history: the windows emitted: [end, records], records a set of numbers

windowVars == <<window, input, win, winEnd, buf, started, nextEmit, phase, emitted>>

RecordData == [time : Time, read : Readable]

\* Go's %: the remainder has the sign of the dividend.
Rem(a, b) == IF a >= 0 THEN a % b ELSE -((-a) % b)

\* Mutant: the boundary is the time itself when it is a multiple.
BoundaryAtOrAfter(t, length) == IF Rem(t, length) = 0 THEN t ELSE t - Rem(t, length) + length

\* The boundary after t, as both loops compute it.
BoundaryAfter(t, length) == t - Rem(t, length) + length

\* instantUnix(in, idx): the record's time, or an index where it cannot be read.
InstantUnix(r, idx) == IF r.read THEN r.time ELSE idx

\* bufT: in runHopping idx counts the records received.
HopTime(n) == InstantUnix(input[n], n - 1)

WindowInit ==
    /\ window \in Window
    /\ input = <<>>
    /\ win = <<>>
    /\ winEnd = 0
    /\ buf = <<>>
    /\ started = FALSE
    /\ nextEmit = 0
    /\ phase = "select"
    /\ emitted = <<>>

-----------------------------------------------------------------------------
\* emitWindow: the aggregate of a window that is not empty, and the send.  The records of a
\* window are in the order of arrival, which is that of their numbers.
EmitWindow(end, records) ==
    emitted' = IF records = {} THEN emitted
               ELSE Append(emitted, [end |-> end, records |-> records])

\* Mutant: the closed window is not emptied.
CountReceivesKeeping(r) ==
    /\ phase = "select" /\ window.type = "COUNT"
    /\ Len(input) < MaxRecord
    /\ input' = Append(input, r)
    /\ win' = Append(win, Len(input'))
    /\ IF Len(win') >= window.size THEN EmitWindow(0, Range(win')) ELSE UNCHANGED emitted
    /\ UNCHANGED <<window, winEnd, buf, started, nextEmit, phase>>

\* Mutant: a full window waits for one record more.
CountReceivesLate(r) ==
    /\ phase = "select" /\ window.type = "COUNT"
    /\ Len(input) < MaxRecord
    /\ input' = Append(input, r)
    /\ LET full == Append(win, Len(input'))
       IN  IF Len(full) > window.size
           THEN win' = <<>> /\ EmitWindow(0, Range(full))
           ELSE win' = full /\ UNCHANGED emitted
    /\ UNCHANGED <<window, winEnd, buf, started, nextEmit, phase>>

\* A record for a COUNT window; the window closes when it is full.
CountReceives(r) ==
    /\ phase = "select" /\ window.type = "COUNT"
    /\ Len(input) < MaxRecord
    /\ input' = Append(input, r)
    /\ LET full == Append(win, Len(input'))
       IN  IF Len(full) >= window.size
           THEN win' = <<>> /\ EmitWindow(0, Range(full))
           ELSE win' = full /\ UNCHANGED emitted
    /\ UNCHANGED <<window, winEnd, buf, started, nextEmit, phase>>

\* A record for a TUMBLING window; the window closes when a record's time passes its end.
TumblingReceives(r) ==
    /\ phase = "select" /\ window.type = "TUMBLING"
    /\ Len(input) < MaxRecord
    /\ input' = Append(input, r)
    /\ LET t == InstantUnix(r, Len(win))
           closes == win # <<>> /\ t >= winEnd
       IN  /\ IF closes THEN EmitWindow(winEnd, Range(win)) ELSE UNCHANGED emitted
           /\ win' = IF closes THEN <<Len(input')>> ELSE Append(win, Len(input'))
           /\ winEnd' = IF closes \/ win = <<>> THEN BoundaryAfter(t, window.span) ELSE winEnd
    /\ UNCHANGED <<window, buf, started, nextEmit, phase>>

\* A record for a HOPPING window joins the buffer, and the windows it ends are due.
HoppingReceives(r) ==
    /\ phase = "select" /\ window.type = "HOPPING"
    /\ Len(input) < MaxRecord
    /\ input' = Append(input, r)
    /\ buf' = Append(buf, Len(input'))
    /\ started' = TRUE
    /\ LET t == InstantUnix(r, Len(input))
       IN  /\ nextEmit' = IF started THEN nextEmit ELSE BoundaryAfter(t, window.hop)
           /\ phase' = IF t >= nextEmit' THEN "hop" ELSE "select"
    /\ UNCHANGED <<window, win, winEnd, emitted>>

\* Those of the records whose times are in the window that ends at end.
InWindow(records, end) == {n \in records : end - window.span <= HopTime(n) /\ HopTime(n) < end}

\* Mutant: the buffer keeps what comes after the next boundary only.
KeepAfterBoundary(end) ==
    LET kept == {i \in DOMAIN buf : HopTime(buf[i]) >= end}
    IN  IF kept = {} THEN <<>> ELSE SubSeq(buf, Min(kept), Len(buf))

\* What is left of buf once the records too old for the window ending at end are dropped
\* from its front: in a buffer out of order, one that is not too old shields those behind.
Keep(end) ==
    LET kept == {i \in DOMAIN buf : HopTime(buf[i]) >= end - window.span}
    IN  IF kept = {} THEN <<>> ELSE SubSeq(buf, Min(kept), Len(buf))

\* One turn of runHopping's inner loop: a window is emitted, the boundary advances.
HopEmits ==
    /\ phase = "hop"
    /\ EmitWindow(nextEmit, InWindow(Range(buf), nextEmit))
    /\ nextEmit' = nextEmit + window.hop
    /\ buf' = Keep(nextEmit + window.hop)
    /\ phase' = IF HopTime(Len(input)) >= nextEmit' THEN "hop" ELSE "select"
    /\ UNCHANGED <<window, input, win, winEnd, started>>

\* The context is done, the source is closed, or the aggregate of a window fails.
WorkerEnds ==
    /\ phase # "done"
    /\ phase' = "done"
    /\ UNCHANGED <<window, input, win, winEnd, buf, started, nextEmit, emitted>>

WindowNext ==
    \/ \E r \in RecordData : CountReceives(r) \/ TumblingReceives(r) \/ HoppingReceives(r)
    \/ HopEmits
    \/ WorkerEnds

WindowSpec == WindowInit /\ [][WindowNext]_windowVars

-----------------------------------------------------------------------------
(* Properties                                                              *)

\* The variables have their types, and a COUNT window is emitted as soon as it is full: the
\* open one is always short of its size (runAggregate).
WindowTypeOK ==
    /\ window \in Window
    /\ input \in Seq(RecordData) /\ Len(input) <= MaxRecord
    /\ win \in Seq(1..Len(input))
    /\ window.type = "COUNT" => Len(win) < window.size
    /\ winEnd \in Int
    /\ buf \in Seq(1..Len(input))
    /\ started \in BOOLEAN
    /\ nextEmit \in Int
    /\ phase \in {"select", "hop", "done"}
    /\ emitted \in Seq([end : Int, records : SUBSET (1..Len(input))])

\* The records of the windows emitted and of the open one, in order.
Grouped ==
    [i \in 1 .. Len(emitted) + 1 |-> IF i <= Len(emitted) THEN emitted[i].records ELSE Range(win)]

\* COUNT and TUMBLING windows partition the stream: whatever the order of the records and
\* whether their times can be read, each is in exactly one window, and the windows are in
\* order of arrival.  A window that is emitted is not empty, and has the size of COUNT.
EachRecordInOneWindow ==
    window.type # "HOPPING" =>
        /\ UNION Range(Grouped) = 1..Len(input)
        /\ \A i, j \in DOMAIN Grouped : i < j => \A m \in Grouped[i], n \in Grouped[j] : m < n
        /\ \A i \in DOMAIN emitted :
              /\ emitted[i].records # {}
              /\ window.type = "COUNT" => Cardinality(emitted[i].records) = window.size

\* The stream arrives in the order of its times, all of them readable and not before 1970.
RegularInput ==
    /\ \A n \in DOMAIN input : input[n].read /\ input[n].time >= 0
    /\ \A m, n \in DOMAIN input : m < n => input[m].time <= input[n].time

\* On a regular stream two records share a TUMBLING window exactly if the span's grid,
\* which starts at 1970, puts their times in one cell.
TumblingFollowsGrid ==
    window.type = "TUMBLING" /\ RegularInput =>
        LET Cell(n) == input[n].time \div window.span
        IN  \A i, j \in DOMAIN Grouped :
                \A m \in Grouped[i], n \in Grouped[j] : Cell(m) = Cell(n) <=> i = j

\* A HOPPING window on any stream: the one that ends at e, for each boundary e from the
\* first, is made when the first record at or after e arrives, of all the records that
\* have arrived by then and whose times are in the span before e; an empty one is not
\* emitted.  The buffer has forgotten none of them.
HoppingWindow(e) ==
    LET ending == Min({n \in DOMAIN input : HopTime(n) >= e})
    IN  [end |-> e, records |-> InWindow(1..ending, e)]

HoppingIsExact ==
    window.type = "HOPPING" /\ input # <<>> =>
        LET first == BoundaryAfter(HopTime(1), window.hop)
            due == {e \in first..(nextEmit - 1) : (e - first) % window.hop = 0}
            expected == {HoppingWindow(e) : e \in due}
        IN  /\ Range(emitted) = {w \in expected : w.records # {}}
            /\ \A i, j \in DOMAIN emitted : i < j => emitted[i].end < emitted[j].end

\* CONFORMANCE.md: TUMBLING windows are "fixed-duration".  When the records arrive in the
\* order of their times, no window holds two that are a span or more apart.
TumblingIsFixedDuration ==
    /\ window.type = "TUMBLING"
    /\ \A m, n \in DOMAIN input : m < n => input[m].time <= input[n].time
    => \A i \in DOMAIN emitted :
        \A m, n \in emitted[i].records : input[n].time - input[m].time < window.span
=============================================================================
