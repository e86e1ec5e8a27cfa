------------------------- MODULE BridgeEngine_proofs -------------------------
(***************************************************************************)
(* Proofs about the bridge engines, for any capacities and bounds.  Every  *)
(* buffer holds consecutive records: ts those whose answer is not paired   *)
(* yet, stdin those the job has not answered, stdout, between the lines    *)
(* the job logs, the answers the reader has not scanned.  FlowAt says so   *)
(* of k events paired and m answers scanned; the reader moves k and m.     *)
(***************************************************************************)
EXTENDS BridgeEngine, TLAPS, SequenceTheorems

Both(n) == [datetime |-> n, value |-> n]

\* s holds a+1, a+2, ...
Run(s, a) == \A i \in 1..Len(s) : s[i] = a + i

EventRun(s, a) == \A i \in 1..Len(s) : s[i] = Both(a + i)

\* The lines of s that are not logged are m+1, ..., a, in this order.
Answers(s, m, a) ==
    /\ \A i \in 1..Len(s) : s[i] # Log => m < s[i] /\ s[i] <= a
    /\ \A v \in (m + 1)..a : \E i \in 1..Len(s) : s[i] = v
    /\ \A i, j \in 1..Len(s) : i < j /\ s[i] # Log /\ s[j] # Log => s[i] < s[j]

Flow(k, m, t, f, n, a, in, out) ==
    /\ Run(t, k)
    /\ f \in {"select", "write"} => n = k + Len(t)
    /\ f = "stamp" => n = k + Len(t) + 1
    /\ Run(in, a)
    /\ f = "select" => n = a + Len(in)
    /\ f \in {"stamp", "write"} => n = a + Len(in) + 1
    /\ m <= a
    /\ Answers(out, m, a)

FlowAt(k, m) == Flow(k, m, ts, feeder, taken, answered, stdin, stdout)

Count == Len(delivered) + Len(results)

OutInv == EventRun(delivered, 0) /\ EventRun(results, Len(delivered))

IdleInv ==
    /\ submitted = "no" => reader = "none"
    /\ reader = "none" =>
        /\ job = "none" /\ feeder = "none"
        /\ taken = 0 /\ answered = 0
        /\ ts = <<>> /\ stdin = <<>> /\ stdout = <<>>
        /\ results = <<>> /\ delivered = <<>>

ReaderInv ==
    /\ reader = "scan" => FlowAt(Count, Count)
    /\ reader = "pair" => FlowAt(Count, Count + 1) /\ line = Count + 1
    /\ reader = "send" => FlowAt(Count + 1, Count + 1) /\ event = Both(Count + 1)

\* What a goroutine holds when it is about to pass it on.
HeldOK ==
    /\ feeder \in {"stamp", "write"} => taken \in Record
    /\ reader = "pair" => line \in Record
    /\ reader = "send" => event \in EventRec

BridgeTypes == BridgeTypeOK /\ HeldOK

BridgeInv == BridgeTypes /\ IdleInv /\ OutInv /\ ReaderInv

-----------------------------------------------------------------------------
(* Runs and answers                                                        *)

LEMMA RunAppend ==
  ASSUME NEW S, S \subseteq Nat, NEW s \in Seq(S), NEW a \in Nat, Run(s, a),
         NEW v \in S, v = a + Len(s) + 1
  PROVE  Run(Append(s, v), a)
<1>1. /\ Len(s) \in Nat
      /\ Len(Append(s, v)) = Len(s) + 1
      /\ \A i \in 1..Len(s) : Append(s, v)[i] = s[i]
      /\ Append(s, v)[Len(s) + 1] = v
  BY AppendProperties
<1>2. ASSUME NEW i \in 1..(Len(s) + 1) PROVE Append(s, v)[i] = a + i
  <2>1. CASE i = Len(s) + 1
    BY <1>1, <2>1
  <2>2. CASE i \in 1..Len(s)
    BY <1>1, <2>2 DEF Run
  <2>. QED  BY ONLY <1>1, <2>1, <2>2
<1>. QED  BY <1>1, <1>2 DEF Run

LEMMA RunTail ==
  ASSUME NEW S, S \subseteq Nat, NEW s \in Seq(S), NEW a \in Nat, Run(s, a), s # <<>>
  PROVE  Head(s) = a + 1 /\ Run(Tail(s), a + 1)
<1>1. /\ Len(s) \in Nat \ {0}
      /\ Head(s) = s[1]
      /\ Len(Tail(s)) = Len(s) - 1
      /\ \A i \in 1..Len(Tail(s)) : Tail(s)[i] = s[i + 1]
  BY HeadTailProperties, EmptySeq
<1>2. ASSUME NEW i \in 1..Len(Tail(s)) PROVE Tail(s)[i] = (a + 1) + i
  <2>1. i \in Nat /\ i + 1 \in 1..Len(s)
    BY ONLY <1>1, i \in 1..Len(Tail(s))
  <2>. QED  BY <1>1, <2>1 DEF Run
<1>3. s[1] = a + 1
  BY <1>1 DEF Run
<1>. QED  BY <1>1, <1>2, <1>3 DEF Run

LEMMA EventRunAppend ==
  ASSUME NEW s \in Seq(EventRec), NEW a \in Nat, EventRun(s, a),
         NEW v \in EventRec, v = Both(a + Len(s) + 1)
  PROVE  EventRun(Append(s, v), a)
<1>1. /\ Len(s) \in Nat
      /\ Len(Append(s, v)) = Len(s) + 1
      /\ \A i \in 1..Len(s) : Append(s, v)[i] = s[i]
      /\ Append(s, v)[Len(s) + 1] = v
  BY AppendProperties
<1>2. ASSUME NEW i \in 1..(Len(s) + 1) PROVE Append(s, v)[i] = Both(a + i)
  <2>1. CASE i = Len(s) + 1
    <3>1. a + Len(s) + 1 = a + i
      BY ONLY <1>1, <2>1, a \in Nat
    <3>. QED  BY <1>1, <2>1, <3>1
  <2>2. CASE i \in 1..Len(s)
    BY <1>1, <2>2 DEF EventRun
  <2>. QED  BY ONLY <1>1, <2>1, <2>2
<1>. QED  BY <1>1, <1>2 DEF EventRun

LEMMA EventRunTail ==
  ASSUME NEW s \in Seq(EventRec), NEW a \in Nat, EventRun(s, a), s # <<>>
  PROVE  Head(s) = Both(a + 1) /\ EventRun(Tail(s), a + 1)
<1>1. /\ Len(s) \in Nat \ {0}
      /\ Head(s) = s[1]
      /\ Len(Tail(s)) = Len(s) - 1
      /\ \A i \in 1..Len(Tail(s)) : Tail(s)[i] = s[i + 1]
  BY HeadTailProperties, EmptySeq
<1>2. ASSUME NEW i \in 1..Len(Tail(s)) PROVE Tail(s)[i] = Both((a + 1) + i)
  <2>1. i \in Nat /\ i + 1 \in 1..Len(s) /\ a + (i + 1) = (a + 1) + i
    BY ONLY <1>1, i \in 1..Len(Tail(s)), a \in Nat
  <2>. QED  BY <1>1, <2>1 DEF EventRun
<1>3. s[1] = Both(a + 1)
  BY <1>1 DEF EventRun
<1>. QED  BY <1>1, <1>2, <1>3 DEF EventRun

LEMMA AnswersAppend ==
  ASSUME NEW S, S \subseteq Nat, NEW s \in Seq(S), NEW m \in Nat, NEW a \in Nat,
         m <= a, Answers(s, m, a), NEW v \in S, v = a + 1
  PROVE  Answers(Append(s, v), m, v)
<1> DEFINE t == Append(s, v)  n == Len(s)
<1>0. \A i \in 1..n : s[i] \in Nat
  BY ElementOfSeq
<1>1. /\ n \in Nat /\ Len(t) = n + 1
      /\ \A i \in 1..n : t[i] = s[i] /\ s[i] \in Nat
      /\ t[n + 1] = v
  BY <1>0, AppendProperties
<1>2. /\ \A i \in 1..n : s[i] # Log => m < s[i] /\ s[i] <= a
      /\ \A w \in (m + 1)..a : \E i \in 1..n : s[i] = w
      /\ \A i, j \in 1..n : i < j /\ s[i] # Log /\ s[j] # Log => s[i] < s[j]
  BY DEF Answers
<1>3. \A i \in 1..(n + 1) : i \in 1..n \/ i = n + 1
  BY ONLY <1>1
<1> HIDE DEF t, n
<1>4. \A i \in 1..(n + 1) : t[i] # Log => m < t[i] /\ t[i] <= v
  BY ONLY <1>1, <1>2, <1>3, m \in Nat, a \in Nat, m <= a, v = a + 1
<1>5. ASSUME NEW w \in (m + 1)..v PROVE \E i \in 1..(n + 1) : t[i] = w
  <2>1. CASE w = v
    BY ONLY <1>1, <2>1
  <2>2. CASE w \in (m + 1)..a
    <3>1. PICK i \in 1..n : s[i] = w
      BY <1>2, <2>2
    <3>2. i \in 1..(n + 1) /\ t[i] = w
      BY ONLY <1>1, <3>1
    <3>. QED  BY <3>2
  <2>. QED  BY ONLY <2>1, <2>2, w \in (m + 1)..v, v = a + 1, m \in Nat, a \in Nat
<1>6. \A i, j \in 1..(n + 1) : i < j /\ t[i] # Log /\ t[j] # Log => t[i] < t[j]
  <2>. SUFFICES ASSUME NEW i \in 1..(n + 1), NEW j \in 1..(n + 1), i < j,
                       t[i] # Log, t[j] # Log
                PROVE  t[i] < t[j]
    OBVIOUS
  <2>1. i \in 1..n
    BY ONLY <1>1, i \in 1..(n + 1), j \in 1..(n + 1), i < j
  <2>2. CASE j = n + 1
    BY ONLY <1>1, <1>2, <2>1, <2>2, t[i] # Log, a \in Nat, v = a + 1
  <2>3. CASE j \in 1..n
    BY ONLY <1>1, <1>2, <2>1, <2>3, i < j, t[i] # Log, t[j] # Log
  <2>. QED  BY <1>3, <2>2, <2>3
<1>7. Answers(t, m, v)
  BY ONLY <1>1, <1>4, <1>5, <1>6 DEF Answers
<1>. QED  BY <1>7 DEF t

LEMMA AnswersLog ==
  ASSUME NEW S, S \subseteq Nat, NEW s \in Seq(S), Log \in S, NEW m \in Nat, NEW a \in Nat,
         Answers(s, m, a)
  PROVE  Answers(Append(s, Log), m, a)
<1> DEFINE t == Append(s, Log)  n == Len(s)
<1>1. /\ n \in Nat /\ Len(t) = n + 1
      /\ \A i \in 1..n : t[i] = s[i]
      /\ t[n + 1] = Log
  BY AppendProperties
<1>2. /\ \A i \in 1..n : s[i] # Log => m < s[i] /\ s[i] <= a
      /\ \A w \in (m + 1)..a : \E i \in 1..n : s[i] = w
      /\ \A i, j \in 1..n : i < j /\ s[i] # Log /\ s[j] # Log => s[i] < s[j]
  BY DEF Answers
<1>3. \A i \in 1..(n + 1) : i \in 1..n \/ i = n + 1
  BY ONLY <1>1
<1>4. \A i \in 1..n : i \in 1..(n + 1)
  BY ONLY <1>1
<1> HIDE DEF t, n
<1>5. \A i \in 1..(n + 1) : t[i] # Log => i \in 1..n /\ t[i] = s[i]
  BY ONLY <1>1, <1>3
<1>6. \A w \in (m + 1)..a : \E i \in 1..(n + 1) : t[i] = w
  BY ONLY <1>1, <1>2, <1>4
<1>7. Answers(t, m, a)
  BY ONLY <1>1, <1>2, <1>5, <1>6 DEF Answers
<1>. QED  BY <1>7 DEF t

LEMMA AnswersTail ==
  ASSUME NEW S, S \subseteq Nat, NEW s \in Seq(S), NEW m \in Nat, NEW a \in Nat,
         Answers(s, m, a), s # <<>>
  PROVE  /\ Head(s) = Log => Answers(Tail(s), m, a)
         /\ Head(s) # Log => /\ Head(s) = m + 1
                             /\ m + 1 <= a
                             /\ Answers(Tail(s), m + 1, a)
<1> DEFINE t == Tail(s)  n == Len(s)  h == Head(s)
<1>0. \A i \in 1..n : s[i] \in Nat
  BY ElementOfSeq
<1>1. /\ n \in Nat \ {0} /\ h = s[1] /\ Len(t) = n - 1
      /\ \A i \in 1..(n - 1) : t[i] = s[i + 1]
      /\ \A i \in 1..n : s[i] \in Nat
  BY <1>0, HeadTailProperties, EmptySeq
<1>2. /\ \A i \in 1..n : s[i] # Log => m < s[i] /\ s[i] <= a
      /\ \A w \in (m + 1)..a : \E i \in 1..n : s[i] = w
      /\ \A i, j \in 1..n : i < j /\ s[i] # Log /\ s[j] # Log => s[i] < s[j]
  BY DEF Answers
<1> HIDE DEF t, n, h
<1>3. /\ \A i \in 1..(n - 1) : i + 1 \in 1..n
      /\ \A i \in 1..n : i = 1 \/ i - 1 \in 1..(n - 1)
      /\ \A i \in 1..n : (i - 1) + 1 = i
      /\ 1 \in 1..n
  BY ONLY <1>1
<1>4. \A i, j \in 1..(n - 1) : i < j /\ t[i] # Log /\ t[j] # Log => t[i] < t[j]
  <2>. SUFFICES ASSUME NEW i \in 1..(n - 1), NEW j \in 1..(n - 1), i < j,
                       t[i] # Log, t[j] # Log
                PROVE  t[i] < t[j]
    OBVIOUS
  <2>1. i + 1 < j + 1
    BY ONLY <1>1, i \in 1..(n - 1), j \in 1..(n - 1), i < j
  <2>2. /\ i + 1 \in 1..n /\ t[i] = s[i + 1]
        /\ j + 1 \in 1..n /\ t[j] = s[j + 1]
    BY ONLY <1>1, <1>3, i \in 1..(n - 1), j \in 1..(n - 1)
  <2>3. s[i + 1] # Log /\ s[j + 1] # Log
    BY <2>2
  <2>4. s[i + 1] < s[j + 1]
    BY ONLY <1>2, <2>1, <2>2, <2>3
  <2>. QED  BY ONLY <2>2, <2>4
\* A value found in s, other than its head, is found in its tail.
<1>5. ASSUME NEW w, NEW i \in 1..n, s[i] = w, w # h
      PROVE  \E l \in 1..(n - 1) : t[l] = w
  <2>1. i - 1 \in 1..(n - 1) /\ t[i - 1] = w
    BY ONLY <1>1, <1>3, <1>5
  <2>. QED  BY <2>1
<1>6. ASSUME h = Log PROVE Answers(t, m, a)
  <2>1. \A i \in 1..(n - 1) : t[i] # Log => m < t[i] /\ t[i] <= a
    BY ONLY <1>1, <1>2, <1>3
  <2>2. ASSUME NEW w \in (m + 1)..a PROVE \E i \in 1..(n - 1) : t[i] = w
    <3>1. PICK i \in 1..n : s[i] = w
      BY <1>2
    <3>2. w # h
      BY ONLY <1>6, w \in (m + 1)..a, m \in Nat, a \in Nat DEF Log
    <3>. QED  BY <1>5, <3>1, <3>2
  <2>. QED  BY ONLY <1>1, <1>4, <2>1, <2>2 DEF Answers
<1>7. ASSUME h # Log PROVE h = m + 1 /\ m + 1 <= a /\ Answers(t, m + 1, a)
  <2>1. m < h /\ h <= a /\ h \in Nat
    BY ONLY <1>1, <1>2, <1>3, <1>7
  <2>2. h = m + 1
    <3>. SUFFICES ASSUME h # m + 1 PROVE FALSE
      OBVIOUS
    <3>1. m + 1 \in (m + 1)..a /\ m + 1 < h
      BY ONLY <2>1, h # m + 1, m \in Nat, a \in Nat
    <3>2. PICK i \in 1..n : s[i] = m + 1
      BY <1>2, <3>1
    <3>3. i # 1
      BY <1>1, <3>1, <3>2
    <3>4. 1 < i /\ s[i] # Log
      BY ONLY <1>1, <3>2, <3>3, m \in Nat, i \in 1..n DEF Log
    <3>5. h < s[i]
      BY ONLY <1>1, <1>2, <1>3, <1>7, <3>4, i \in 1..n
    <3>. QED  BY ONLY <2>1, <3>1, <3>2, <3>5, m \in Nat
  <2>3. \A i \in 1..(n - 1) : t[i] # Log => m + 1 < t[i] /\ t[i] <= a
    <3>. SUFFICES ASSUME NEW i \in 1..(n - 1), t[i] # Log
                  PROVE  m + 1 < t[i] /\ t[i] <= a
      OBVIOUS
    <3>1. i + 1 \in 1..n /\ 1 < i + 1 /\ t[i] = s[i + 1]
      BY ONLY <1>1, <1>3, i \in 1..(n - 1)
    <3>2. s[1] < s[i + 1] /\ s[i + 1] <= a
      BY ONLY <1>1, <1>2, <1>3, <1>7, <3>1, t[i] # Log
    <3>. QED  BY ONLY <1>1, <2>2, <3>1, <3>2
  <2>4. ASSUME NEW w \in ((m + 1) + 1)..a PROVE \E i \in 1..(n - 1) : t[i] = w
    <3>1. w \in (m + 1)..a /\ w # h
      BY ONLY <2>2, w \in ((m + 1) + 1)..a, m \in Nat, a \in Nat
    <3>2. PICK i \in 1..n : s[i] = w
      BY <1>2, <3>1
    <3>. QED  BY <1>5, <3>1, <3>2
  <2>5. Answers(t, m + 1, a)
    BY ONLY <1>1, <1>4, <2>3, <2>4 DEF Answers
  <2>. QED  BY <2>1, <2>2, <2>5
<1>. QED  BY <1>6, <1>7 DEF t, h

-----------------------------------------------------------------------------
(* Types                                                                   *)

LEMMA InitTypes == BridgeInit => BridgeTypes
<1>. SUFFICES ASSUME BridgeInit PROVE BridgeTypes
  OBVIOUS
<1>1. Len(<<>>) = 0 /\ <<>> \in Seq(Record) /\ <<>> \in Seq(Record \cup {Log})
      /\ <<>> \in Seq(EventRec)
  BY EmptySeq
<1>2. /\ ts \in Seq(Record) /\ Len(ts) <= TsCap
      /\ stdin \in Seq(Record) /\ Len(stdin) <= PipeCap
      /\ stdout \in Seq(Record \cup {Log}) /\ Len(stdout) <= PipeCap
      /\ results \in Seq(EventRec) /\ Len(results) <= ResultsCap
      /\ delivered \in Seq(EventRec)
  BY <1>1, BridgeAssumption DEF BridgeInit
<1>3. 0 \in 0..MaxRecord
  BY BridgeAssumption
<1>4. BridgeTypeOK
  BY <1>2, <1>3 DEF BridgeInit, BridgeTypeOK
<1>. QED  BY <1>4 DEF BridgeInit, BridgeTypes, HeldOK

LEMMA NextTypes == BridgeTypes /\ [BridgeNext]_bridgeVars => BridgeTypes'
<1>. SUFFICES ASSUME BridgeTypes, [BridgeNext]_bridgeVars PROVE BridgeTypes'
  OBVIOUS
<1>. USE BridgeAssumption DEF BridgeTypes, BridgeTypeOK, HeldOK, feederVars, readerVars, outVars
<1>1. CASE Submit
  BY <1>1 DEF Submit
<1>2. CASE SubmitRefused
  BY <1>2 DEF SubmitRefused
<1>3. CASE Cancel
  BY <1>3 DEF Cancel
<1>4. CASE FeederReceive
  BY <1>4 DEF FeederReceive, Record
<1>5. CASE FeederStamp
  <2>1. Append(ts, taken) \in Seq(Record) /\ Len(Append(ts, taken)) = Len(ts) + 1
        /\ Len(ts) \in Nat
    BY <1>5, AppendProperties DEF FeederStamp
  <2>2. Len(ts) + 1 <= TsCap
    BY <1>5, <2>1 DEF FeederStamp
  <2>. QED  BY <1>5, <2>1, <2>2 DEF FeederStamp
<1>6. CASE FeederWrite
  <2>1. Append(stdin, taken) \in Seq(Record) /\ Len(Append(stdin, taken)) = Len(stdin) + 1
        /\ Len(stdin) \in Nat
    BY <1>6, AppendProperties DEF FeederWrite
  <2>2. Len(stdin) + 1 <= PipeCap
    BY <1>6, <2>1 DEF FeederWrite
  <2>. QED  BY <1>6, <2>1, <2>2 DEF FeederWrite
<1>7. CASE FeederWriteFails
  BY <1>7 DEF FeederWriteFails
<1>8. CASE FeederCancelled
  BY <1>8 DEF FeederCancelled
<1>9. CASE JobAnswer
  <2>1. /\ Head(stdin) \in Record /\ Tail(stdin) \in Seq(Record)
        /\ Len(Tail(stdin)) = Len(stdin) - 1 /\ Len(stdin) \in Nat
    BY <1>9, HeadTailProperties DEF JobAnswer
  <2>2. /\ Append(stdout, Head(stdin)) \in Seq(Record \cup {Log})
        /\ Len(Append(stdout, Head(stdin))) = Len(stdout) + 1 /\ Len(stdout) \in Nat
    BY <2>1, AppendProperties
  <2>3. Len(Tail(stdin)) <= PipeCap /\ Len(stdout) + 1 <= PipeCap
    BY <1>9, <2>1, <2>2 DEF JobAnswer
  <2>. QED  BY <1>9, <2>1, <2>2, <2>3 DEF JobAnswer, Record
<1>10. CASE JobLogs
  <2>1. /\ Append(stdout, Log) \in Seq(Record \cup {Log})
        /\ Len(Append(stdout, Log)) = Len(stdout) + 1 /\ Len(stdout) \in Nat
    BY AppendProperties
  <2>2. Len(stdout) + 1 <= PipeCap
    BY <1>10, <2>1 DEF JobLogs
  <2>. QED  BY <1>10, <2>1, <2>2 DEF JobLogs
<1>11. CASE JobFails
  BY <1>11 DEF JobFails
<1>12. CASE JobKilled
  BY <1>12 DEF JobKilled
<1>13. CASE ReaderScan
  <2>1. /\ Head(stdout) \in Record \cup {Log} /\ Tail(stdout) \in Seq(Record \cup {Log})
        /\ Len(Tail(stdout)) = Len(stdout) - 1 /\ Len(stdout) \in Nat
    BY <1>13, HeadTailProperties DEF ReaderScan
  <2>2. Len(Tail(stdout)) <= PipeCap
    BY <2>1
  <2>. QED  BY <1>13, <2>1, <2>2 DEF ReaderScan
<1>14. CASE ReaderPair
  <2>1. /\ Head(ts) \in Record /\ Tail(ts) \in Seq(Record)
        /\ Len(Tail(ts)) = Len(ts) - 1 /\ Len(ts) \in Nat
    BY <1>14, HeadTailProperties DEF ReaderPair
  <2>2. Len(Tail(ts)) <= TsCap
    BY <2>1
  <2>3. event' \in EventRec
    BY <1>14, <2>1 DEF ReaderPair, EventRec
  <2>. QED  BY <1>14, <2>1, <2>2, <2>3 DEF ReaderPair
<1>15. CASE ReaderSend
  <2>1. /\ Append(results, event) \in Seq(EventRec)
        /\ Len(Append(results, event)) = Len(results) + 1 /\ Len(results) \in Nat
    BY <1>15, AppendProperties DEF ReaderSend
  <2>2. Len(results) + 1 <= ResultsCap
    BY <1>15, <2>1 DEF ReaderSend
  <2>. QED  BY <1>15, <2>1, <2>2 DEF ReaderSend
<1>16. CASE ReaderEnds \/ ReaderChokes
  BY <1>16 DEF ReaderEnds, ReaderChokes
<1>17. CASE ReaderCancelled
  BY <1>17 DEF ReaderCancelled
<1>18. CASE ReaderClose
  BY <1>18 DEF ReaderClose
<1>19. CASE PumpReceives
  <2>1. /\ Head(results) \in EventRec /\ Tail(results) \in Seq(EventRec)
        /\ Len(Tail(results)) = Len(results) - 1 /\ Len(results) \in Nat
    BY <1>19, HeadTailProperties DEF PumpReceives
  <2>2. Append(delivered, Head(results)) \in Seq(EventRec)
    BY <2>1, AppendProperties
  <2>3. Len(Tail(results)) <= ResultsCap
    BY <2>1
  <2>. QED  BY <1>19, <2>1, <2>2, <2>3 DEF PumpReceives
<1>20. CASE BridgeDone
  BY <1>20 DEF BridgeDone, bridgeVars
<1>21. CASE UNCHANGED bridgeVars
  BY <1>21 DEF bridgeVars
<1>. QED
  BY <1>1, <1>2, <1>3, <1>4, <1>5, <1>6, <1>7, <1>8, <1>9, <1>10, <1>11, <1>12, <1>13,
     <1>14, <1>15, <1>16, <1>17, <1>18, <1>19, <1>20, <1>21
  DEF BridgeNext, Feeder, Reader

-----------------------------------------------------------------------------
(* The flow of records                                                     *)

\* No step of the feeder or of the job changes what is paired and what is scanned.
LEMMA FeedKeepsFlow ==
  ASSUME BridgeTypes, NEW k \in Nat, NEW m \in Nat, FlowAt(k, m),
         \/ FeederReceive \/ Feeder \/ FeederCancelled
         \/ JobAnswer \/ JobLogs \/ JobFails \/ JobKilled
  PROVE  Flow(k, m, ts', feeder', taken', answered', stdin', stdout')
<1>. USE DEF FlowAt
<1>0. /\ ts \in Seq(Record) /\ stdin \in Seq(Record) /\ stdout \in Seq(Record \cup {Log})
      /\ Len(ts) \in Nat /\ Len(stdin) \in Nat /\ taken \in Nat /\ answered \in Nat
      /\ Record \subseteq Nat /\ Record \cup {Log} \subseteq Nat
  BY BridgeAssumption DEF BridgeTypes, BridgeTypeOK, Record, Log
<1>1. CASE FeederReceive
  <2>1. /\ feeder = "select" /\ feeder' = "stamp" /\ taken' = taken + 1
        /\ UNCHANGED <<ts, answered, stdin, stdout>>
    BY <1>1 DEF FeederReceive
  <2>. QED  BY <1>0, <2>1 DEF Flow
<1>2. CASE FeederStamp
  <2>1. /\ feeder = "stamp" /\ feeder' = "write" /\ ts' = Append(ts, taken)
        /\ UNCHANGED <<taken, answered, stdin, stdout>>
    BY <1>2 DEF FeederStamp
  <2>2. taken \in Record /\ taken = k + Len(ts) + 1 /\ Run(ts, k)
    BY <2>1 DEF Flow, BridgeTypes, HeldOK
  <2>3. Run(Append(ts, taken), k) /\ Len(Append(ts, taken)) = Len(ts) + 1
    BY <1>0, <2>2, RunAppend, AppendProperties
  <2>. QED  BY <1>0, <2>1, <2>2, <2>3 DEF Flow
<1>3. CASE FeederWrite
  <2>1. /\ feeder = "write" /\ feeder' = "select" /\ stdin' = Append(stdin, taken)
        /\ UNCHANGED <<taken, ts, answered, stdout>>
    BY <1>3 DEF FeederWrite, feederVars
  <2>2. taken \in Record /\ taken = answered + Len(stdin) + 1 /\ Run(stdin, answered)
    BY <2>1 DEF Flow, BridgeTypes, HeldOK
  <2>3. Run(Append(stdin, taken), answered) /\ Len(Append(stdin, taken)) = Len(stdin) + 1
    BY <1>0, <2>2, RunAppend, AppendProperties
  <2>. QED  BY <1>0, <2>1, <2>2, <2>3 DEF Flow
<1>4. CASE FeederWriteFails \/ FeederCancelled
  <2>1. feeder' = "done" /\ UNCHANGED <<taken, ts, answered, stdin, stdout>>
    BY <1>4 DEF FeederWriteFails, FeederCancelled
  <2>. QED  BY <2>1 DEF Flow
<1>5. CASE JobAnswer
  <2>1. /\ stdin # <<>> /\ stdin' = Tail(stdin) /\ answered' = Head(stdin)
        /\ stdout' = Append(stdout, Head(stdin))
        /\ UNCHANGED <<taken, feeder, ts>>
    BY <1>5 DEF JobAnswer, feederVars
  <2>6. Run(stdin, answered)
    BY DEF Flow
  <2>7. Head(stdin) = answered + 1 /\ Run(Tail(stdin), answered + 1)
    BY <1>0, <2>1, <2>6, RunTail
  <2>8. Head(stdin) \in Record /\ Len(Tail(stdin)) = Len(stdin) - 1
    BY <1>0, <2>1, HeadTailProperties
  <2>2. /\ Head(stdin) = answered + 1 /\ Run(Tail(stdin), answered + 1)
        /\ Head(stdin) \in Record \cup {Log} /\ Len(Tail(stdin)) = Len(stdin) - 1
    BY <2>7, <2>8
  <2>3. Answers(Append(stdout, Head(stdin)), m, Head(stdin))
    BY <1>0, <2>2, AnswersAppend DEF Flow
  <2>4. Len(Tail(stdin)) + 1 = Len(stdin) /\ m <= answered + 1
    BY <1>0, <2>2 DEF Flow
  <2>5. /\ feeder = "select" => taken = (answered + 1) + Len(Tail(stdin))
        /\ feeder \in {"stamp", "write"} => taken = (answered + 1) + Len(Tail(stdin)) + 1
    <3>1. /\ feeder = "select" => taken = answered + Len(stdin)
          /\ feeder \in {"stamp", "write"} => taken = answered + Len(stdin) + 1
      BY DEF Flow
    <3> DEFINE x == Len(stdin)  y == Len(Tail(stdin))
    <3>3. x \in Nat /\ answered \in Nat /\ y = x - 1
      BY <1>0, <2>8
    <3> HIDE DEF x, y
    <3>4. (answered + 1) + y = answered + x
      BY ONLY <3>3
    <3>2. (answered + 1) + Len(Tail(stdin)) = answered + Len(stdin)
      BY ONLY <3>4 DEF x, y
    <3>. QED  BY <3>1, <3>2
  <2>. QED  BY <2>1, <2>2, <2>3, <2>4, <2>5 DEF Flow
<1>6. CASE JobLogs
  <2>1. /\ stdout' = Append(stdout, Log)
        /\ UNCHANGED <<taken, feeder, ts, answered, stdin>>
    BY <1>6 DEF JobLogs, feederVars
  <2>2. Answers(Append(stdout, Log), m, answered)
    BY <1>0, AnswersLog DEF Flow
  <2>. QED  BY <2>1, <2>2 DEF Flow
<1>7. CASE JobFails \/ JobKilled
  <2>1. UNCHANGED <<taken, feeder, ts, answered, stdin, stdout>>
    BY <1>7 DEF JobFails, JobKilled, feederVars
  <2>. QED  BY <2>1
<1>. QED  BY <1>1, <1>2, <1>3, <1>4, <1>5, <1>6, <1>7 DEF Feeder

LEMMA InitFlow == BridgeInit => BridgeInv
<1>. SUFFICES ASSUME BridgeInit PROVE BridgeInv
  OBVIOUS
<1>1. OutInv
  BY EmptySeq DEF BridgeInit, OutInv, EventRun
<1>2. IdleInv /\ ReaderInv
  BY DEF BridgeInit, IdleInv, ReaderInv
<1>. QED  BY <1>1, <1>2, InitTypes DEF BridgeInv

LEMMA NextFlow == BridgeInv /\ [BridgeNext]_bridgeVars => BridgeInv'
<1>. SUFFICES ASSUME BridgeInv, [BridgeNext]_bridgeVars PROVE BridgeInv'
  OBVIOUS
<1>t. BridgeTypes'
  BY NextTypes DEF BridgeInv
<1>0. /\ stdout \in Seq(Record \cup {Log}) /\ ts \in Seq(Record)
      /\ results \in Seq(EventRec) /\ delivered \in Seq(EventRec)
      /\ Len(ts) \in Nat /\ Len(results) \in Nat /\ Len(delivered) \in Nat
      /\ Count \in Nat /\ taken \in Nat /\ answered \in Nat
      /\ Record \subseteq Nat /\ Record \cup {Log} \subseteq Nat
  BY BridgeAssumption DEF BridgeInv, BridgeTypes, BridgeTypeOK, Record, Log, Count
<1>. SUFFICES IdleInv' /\ OutInv' /\ ReaderInv'
  BY <1>t DEF BridgeInv
<1>1. CASE SubmitRefused \/ Cancel
  <2>1. /\ submitted' # "no"
        /\ UNCHANGED <<feederVars, ts, stdin, job, stdout, readerVars, outVars, answered>>
    BY <1>1 DEF SubmitRefused, Cancel
  <2>2. IdleInv'
    BY <2>1 DEF BridgeInv, IdleInv, feederVars, readerVars, outVars
  <2>. QED
    BY <2>1, <2>2 DEF BridgeInv, OutInv, ReaderInv, FlowAt, Count, feederVars, readerVars, outVars
<1>2. CASE Submit
  <2>1. /\ reader = "none" /\ reader' = "scan" /\ feeder' = "select"
        /\ submitted' = "yes"
        /\ UNCHANGED <<taken, ts, stdin, stdout, results, delivered, answered>>
    BY <1>2 DEF Submit, BridgeInv, IdleInv, outVars
  <2>2. /\ taken = 0 /\ answered = 0 /\ ts = <<>> /\ stdin = <<>> /\ stdout = <<>>
        /\ Count = 0 /\ Len(<<>>) = 0
    BY <2>1, EmptySeq DEF BridgeInv, IdleInv, Count
  <2>3. Answers(<<>>, 0, 0) /\ Run(<<>>, 0)
    BY <2>2 DEF Answers, Run
  <2>4. Flow(0, 0, <<>>, "select", 0, 0, <<>>, <<>>)
    BY <2>2, <2>3 DEF Flow
  <2>5. ReaderInv'
    BY <2>1, <2>2, <2>4 DEF ReaderInv, FlowAt, Count
  <2>. QED  BY <2>1, <2>5 DEF BridgeInv, OutInv, IdleInv
<1>3. CASE \/ FeederReceive \/ Feeder \/ FeederCancelled
           \/ JobAnswer \/ JobLogs \/ JobFails \/ JobKilled
  <2>1. UNCHANGED <<submitted, reader, line, event, results, delivered>>
    BY <1>3 DEF FeederReceive, Feeder, FeederStamp, FeederWrite, FeederWriteFails,
                FeederCancelled, JobAnswer, JobLogs, JobFails, JobKilled, readerVars, outVars
  <2>2. feeder # "none" \/ job = "running"
    BY <1>3 DEF FeederReceive, Feeder, FeederStamp, FeederWrite, FeederWriteFails,
                FeederCancelled, JobAnswer, JobLogs, JobFails, JobKilled
  <2>3. reader # "none"
    BY <2>2 DEF BridgeInv, IdleInv
  <2>4. IdleInv' /\ OutInv'
    BY <2>1, <2>3 DEF BridgeInv, IdleInv, OutInv
  <2>5. Count' = Count /\ Count + 1 \in Nat
    BY <1>0, <2>1 DEF Count
  <2>6. \A k, m \in Nat :
            FlowAt(k, m) => Flow(k, m, ts', feeder', taken', answered', stdin', stdout')
    BY <1>3, FeedKeepsFlow DEF BridgeInv
  <2>7. ReaderInv'
    BY <1>0, <2>1, <2>5, <2>6 DEF BridgeInv, ReaderInv, FlowAt
  <2>. QED  BY <2>4, <2>7
<1>4. CASE ReaderScan
  <2>1. /\ reader = "scan" /\ stdout # <<>> /\ stdout' = Tail(stdout)
        /\ UNCHANGED <<submitted, feeder, taken, ts, stdin, answered, results, delivered>>
    BY <1>4 DEF ReaderScan, feederVars, outVars
  <2>2. Flow(Count, Count, ts, feeder, taken, answered, stdin, stdout)
    BY <2>1 DEF BridgeInv, ReaderInv, FlowAt
  <2>3. Count' = Count /\ IdleInv' /\ OutInv'
    BY <1>4, <2>1 DEF ReaderScan, Count, BridgeInv, IdleInv, OutInv
  <2>4. /\ Head(stdout) = Log => Answers(Tail(stdout), Count, answered)
        /\ Head(stdout) # Log => /\ Head(stdout) = Count + 1
                                 /\ Count + 1 <= answered
                                 /\ Answers(Tail(stdout), Count + 1, answered)
    BY <1>0, <2>1, <2>2, AnswersTail DEF Flow
  <2>5. CASE Head(stdout) = Log
    <3>1. reader' = "scan"
      BY <1>4, <2>1, <2>5 DEF ReaderScan
    <3>2. Flow(Count, Count, ts, feeder, taken, answered, stdin, Tail(stdout))
      BY <2>2, <2>4, <2>5 DEF Flow
    <3>. QED  BY <2>1, <2>3, <3>1, <3>2 DEF ReaderInv, FlowAt
  <2>6. CASE Head(stdout) # Log
    <3>1. reader' = "pair" /\ line' = Head(stdout)
      BY <1>4, <2>6 DEF ReaderScan
    <3>2. Flow(Count, Count + 1, ts, feeder, taken, answered, stdin, Tail(stdout))
      BY <2>2, <2>4, <2>6 DEF Flow
    <3>. QED  BY <2>1, <2>3, <2>4, <2>6, <3>1, <3>2 DEF ReaderInv, FlowAt
  <2>. QED  BY <2>5, <2>6
<1>5. CASE ReaderPair
  <2>1. /\ reader = "pair" /\ ts # <<>> /\ ts' = Tail(ts) /\ reader' = "send"
        /\ event' = [datetime |-> Head(ts), value |-> line]
        /\ UNCHANGED <<submitted, feeder, taken, stdin, stdout, answered, results, delivered>>
    BY <1>5 DEF ReaderPair, feederVars, outVars
  <2>2. Flow(Count, Count + 1, ts, feeder, taken, answered, stdin, stdout) /\ line = Count + 1
    BY <2>1 DEF BridgeInv, ReaderInv, FlowAt
  <2>3. Count' = Count /\ IdleInv' /\ OutInv'
    BY <2>1 DEF Count, BridgeInv, IdleInv, OutInv
  <2>8. Run(ts, Count)
    BY <2>2 DEF Flow
  <2>9. Head(ts) = Count + 1 /\ Run(Tail(ts), Count + 1)
    BY <1>0, <2>1, <2>8, RunTail
  <2>10. Len(Tail(ts)) = Len(ts) - 1
    BY <1>0, <2>1, HeadTailProperties
  <2>4. Head(ts) = Count + 1 /\ Run(Tail(ts), Count + 1) /\ Len(Tail(ts)) = Len(ts) - 1
    BY <2>9, <2>10
  <2>5. /\ feeder \in {"select", "write"} => taken = (Count + 1) + Len(Tail(ts))
        /\ feeder = "stamp" => taken = (Count + 1) + Len(Tail(ts)) + 1
    <3>1. /\ feeder \in {"select", "write"} => taken = Count + Len(ts)
          /\ feeder = "stamp" => taken = Count + Len(ts) + 1
      BY <2>2 DEF Flow
    <3> DEFINE x == Len(ts)  y == Len(Tail(ts))
    <3>3. x \in Nat /\ Count \in Nat /\ y = x - 1
      BY <1>0, <2>10
    <3> HIDE DEF x, y
    <3>4. (Count + 1) + y = Count + x
      BY ONLY <3>3
    <3>2. (Count + 1) + Len(Tail(ts)) = Count + Len(ts)
      BY ONLY <3>4 DEF x, y
    <3>. QED  BY <3>1, <3>2
  <2>6. Flow(Count + 1, Count + 1, Tail(ts), feeder, taken, answered, stdin, stdout)
    BY <2>2, <2>4, <2>5 DEF Flow
  <2>7. event' = Both(Count + 1)
    BY <2>1, <2>2, <2>4 DEF Both
  <2>. QED  BY <2>1, <2>3, <2>6, <2>7 DEF ReaderInv, FlowAt, Both
<1>6. CASE ReaderSend
  <2>1. /\ reader = "send" /\ reader' = "scan" /\ results' = Append(results, event)
        /\ UNCHANGED <<submitted, feeder, taken, ts, stdin, stdout, answered, delivered>>
    BY <1>6 DEF ReaderSend, feederVars
  <2>2. /\ Flow(Count + 1, Count + 1, ts, feeder, taken, answered, stdin, stdout)
        /\ event = Both(Count + 1) /\ event \in EventRec
    BY <2>1 DEF BridgeInv, ReaderInv, FlowAt, BridgeTypes, HeldOK
  <2>3. Len(results') = Len(results) + 1
    BY <1>0, <2>1, <2>2, AppendProperties
  <2>4. Count' = Count + 1
    BY <1>0, <2>1, <2>3 DEF Count
  <2>5. EventRun(results', Len(delivered))
    BY <1>0, <2>1, <2>2, EventRunAppend DEF BridgeInv, OutInv, Count
  <2>6. OutInv' /\ IdleInv'
    BY <2>1, <2>5 DEF BridgeInv, OutInv, IdleInv
  <2>. QED  BY <2>1, <2>2, <2>4, <2>6 DEF ReaderInv, FlowAt
<1>7. CASE ReaderEnds \/ ReaderChokes \/ ReaderCancelled \/ ReaderClose
  <2>1. reader' \in {"closing", "done"} /\ reader # "none" /\ UNCHANGED <<submitted, outVars>>
    BY <1>7 DEF ReaderEnds, ReaderChokes, ReaderCancelled, ReaderClose, outVars
  <2>. QED  BY <2>1 DEF BridgeInv, IdleInv, OutInv, ReaderInv, outVars
<1>8. CASE PumpReceives
  <2>1. /\ results # <<>> /\ results' = Tail(results)
        /\ delivered' = Append(delivered, Head(results))
        /\ UNCHANGED <<submitted, reader, line, event, feeder, taken, ts, stdin, stdout, answered>>
    BY <1>8 DEF PumpReceives, feederVars, readerVars
  <2>2. /\ Head(results) \in EventRec /\ Len(Tail(results)) = Len(results) - 1
        /\ Head(results) = Both(Len(delivered) + 1)
        /\ EventRun(Tail(results), Len(delivered) + 1)
    BY <1>0, <2>1, EventRunTail, HeadTailProperties DEF BridgeInv, OutInv
  <2>3. Len(delivered') = Len(delivered) + 1
    BY <1>0, <2>1, <2>2, AppendProperties
  <2>4. Count' = Count
    BY <1>0, <2>1, <2>2, <2>3 DEF Count
  <2>5. EventRun(delivered', 0)
    <3>1. Head(results) = Both(0 + Len(delivered) + 1)
      BY <1>0, <2>2
    <3>. QED  BY <1>0, <2>1, <2>2, <3>1, EventRunAppend DEF BridgeInv, OutInv
  <2>6. OutInv'
    BY <2>1, <2>2, <2>3, <2>5 DEF OutInv
  <2>7. IdleInv'
    BY <2>1 DEF BridgeInv, IdleInv
  <2>8. ReaderInv'
    BY <2>1, <2>4 DEF BridgeInv, ReaderInv, FlowAt
  <2>. QED  BY <2>6, <2>7, <2>8
<1>9. CASE BridgeDone \/ UNCHANGED bridgeVars
  BY <1>9 DEF BridgeDone, BridgeInv, IdleInv, OutInv, ReaderInv, FlowAt, Count, bridgeVars,
              feederVars, readerVars, outVars
<1>. QED
  BY <1>1, <1>2, <1>3, <1>4, <1>5, <1>6, <1>7, <1>8, <1>9 DEF BridgeNext, Reader

-----------------------------------------------------------------------------
\* Type correctness of the bridge engines.
THEOREM BridgeTypeCorrect == BridgeSafetySpec => []BridgeTypeOK
<1>1. BridgeTypes => BridgeTypeOK
  BY DEF BridgeTypes
<1>. QED  BY <1>1, InitTypes, NextTypes, PTL DEF BridgeSafetySpec

\* Each event carries the timestamp of the record it answers, and the events are those of
\* the records the source delivered, in order and without a gap.
THEOREM BridgePairs == BridgeSafetySpec => []Paired
<1>1. BridgeInv => Paired
  <2>. SUFFICES ASSUME BridgeInv, NEW n \in 1..Len(delivered)
                PROVE  delivered[n].value = n /\ delivered[n].datetime = n
    BY DEF Paired
  <2>1. Len(delivered) \in Nat
    BY DEF BridgeInv, BridgeTypes, BridgeTypeOK
  <2>2. 0 + n = n
    BY <2>1
  <2>3. delivered[n] = Both(n)
    BY <2>2 DEF BridgeInv, OutInv, EventRun
  <2>. QED  BY <2>3 DEF Both
<1>. QED  BY <1>1, InitFlow, NextFlow, PTL DEF BridgeSafetySpec

=============================================================================
