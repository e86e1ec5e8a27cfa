---------------------------- MODULE BridgeEngine ----------------------------
(***************************************************************************)
(* A continuous query on a cluster runtime (src/stream_engine_bridge.go):  *)
(* Submit spawns the runtime's job as a subprocess, a feeder goroutine     *)
(* writes one line per record to its stdin, and a reader goroutine turns   *)
(* the lines of its stdout into events.  A line carries no timestamp: the  *)
(* feeder queues the timestamps, and the reader takes one per answer.      *)
(*                                                                         *)
(* The n-th record the source delivers has the timestamp n, and the job's  *)
(* answer to it is n too, so that an event pairs a timestamp with a value  *)
(* as the code does, and a wrong pair shows.                               *)
(***************************************************************************)
EXTENDS Integers, Sequences

CONSTANTS
    TsCap,      \* the capacity of ts (1024)
    ResultsCap, \* the capacity of h.results (64)
    PipeCap,    \* bound: the lines an operating-system pipe holds
    MaxRecord   \* bound: the records the source delivers

ASSUME BridgeAssumption ==
    /\ TsCap \in Nat \ {0}
    /\ ResultsCap \in Nat \ {0}
    /\ PipeCap \in Nat \ {0}
    /\ MaxRecord \in Nat

VARIABLES
    submitted,  \* "no", "refused" or "yes"
    cancelled,  \* the query's context is done
    taken,      \* the number of records received from the source
    feeder,     \* control of the feeder
    ts,         \* the timestamps of the records fed, not yet paired
    stdin,      \* the lines the job has not read
    job,        \* "none", "running" or "dead"
    stdout,     \* the lines the reader has not scanned
    reader,     \* control of the reader
    line,       \* the value the reader has parsed (Log: none)
    event,      \* the event the reader is sending
    results,    \* h.results
    closed,     \* h.results is closed
    status,     \* h.status
    delivered,  \* history: the events the pump has received
    answered    \* history: the last record the job has answered

feederVars == <<taken, feeder>>
readerVars == <<reader, line, event, closed, status>>
outVars    == <<results, delivered>>
bridgeVars == <<submitted, cancelled, feederVars, ts, stdin, job, stdout, readerVars,
                outVars, answered>>

Log == 0                        \* a line of stdout that is not a float
Record == 1..MaxRecord
EventRec == [datetime : Record, value : Record]
NoEvent == [datetime |-> Log, value |-> Log]

BridgeInit ==
    /\ submitted = "no"
    /\ cancelled = FALSE
    /\ taken = 0
    /\ feeder = "none"
    /\ ts = <<>>
    /\ stdin = <<>>
    /\ job = "none"
    /\ stdout = <<>>
    /\ reader = "none"
    /\ line = Log
    /\ event = NoEvent
    /\ results = <<>>
    /\ closed = FALSE
    /\ status = "running"
    /\ delivered = <<>>
    /\ answered = 0

-----------------------------------------------------------------------------
\* An aggregation, an operation the tier does not know, or a job that does not start;
\* streamRegistry.submit then cancels the context.
SubmitRefused ==
    /\ submitted = "no"
    /\ submitted' = "refused"
    /\ cancelled' = TRUE
    /\ UNCHANGED <<feederVars, ts, stdin, job, stdout, readerVars, outVars, answered>>

Submit ==
    /\ submitted = "no"
    /\ submitted' = "yes"
    /\ job' = "running"
    /\ feeder' = "select"
    /\ reader' = "scan"
    /\ UNCHANGED <<cancelled, taken, ts, stdin, stdout, line, event, closed, status,
                   outVars, answered>>

\* A DELETE, at any time once the query runs.
Cancel ==
    /\ submitted = "yes"
    /\ ~cancelled
    /\ cancelled' = TRUE
    /\ UNCHANGED <<submitted, feederVars, ts, stdin, job, stdout, readerVars, outVars,
                   answered>>

-----------------------------------------------------------------------------
(* The feeder                                                              *)

FeederReceive ==
    /\ feeder = "select"
    /\ taken < MaxRecord
    /\ taken' = taken + 1
    /\ feeder' = "stamp"
    /\ UNCHANGED <<submitted, cancelled, ts, stdin, job, stdout, readerVars, outVars,
                   answered>>

\* Mutant: the queue of timestamps is not bounded.
FeederStampOverfull ==
    /\ feeder = "stamp"
    /\ ts' = Append(ts, taken)
    /\ feeder' = "write"
    /\ UNCHANGED <<submitted, cancelled, taken, stdin, job, stdout, readerVars, outVars,
                   answered>>

FeederStamp ==
    /\ feeder = "stamp"
    /\ Len(ts) < TsCap
    /\ ts' = Append(ts, taken)
    /\ feeder' = "write"
    /\ UNCHANGED <<submitted, cancelled, taken, stdin, job, stdout, readerVars, outVars,
                   answered>>

\* WriteString and Flush: one line, once the pipe has room ...
FeederWrite ==
    /\ feeder = "write"
    /\ job = "running"
    /\ Len(stdin) < PipeCap
    /\ stdin' = Append(stdin, taken)
    /\ feeder' = "select"
    /\ UNCHANGED <<submitted, cancelled, taken, ts, job, stdout, readerVars, outVars,
                   answered>>

\* ... or a broken pipe.
FeederWriteFails ==
    /\ feeder = "write"
    /\ job = "dead"
    /\ feeder' = "done"
    /\ UNCHANGED <<submitted, cancelled, taken, ts, stdin, job, stdout, readerVars,
                   outVars, answered>>

\* Mutant: the send to ts does not watch the context.
FeederCancelledSelecting ==
    /\ feeder = "select"
    /\ cancelled
    /\ feeder' = "done"
    /\ UNCHANGED <<submitted, cancelled, taken, ts, stdin, job, stdout, readerVars,
                   outVars, answered>>

\* ctx.Done() in either select; the source closes for that reason only.
FeederCancelled ==
    /\ feeder \in {"select", "stamp"}
    /\ cancelled
    /\ feeder' = "done"
    /\ UNCHANGED <<submitted, cancelled, taken, ts, stdin, job, stdout, readerVars,
                   outVars, answered>>

Feeder == FeederStamp \/ FeederWrite \/ FeederWriteFails

-----------------------------------------------------------------------------
(* The job: one line of output per line of input, in order, between the    *)
(* lines its runtime logs.                                                 *)

JobAnswer ==
    /\ job = "running"
    /\ stdin # <<>>
    /\ Len(stdout) < PipeCap
    /\ stdin' = Tail(stdin)
    /\ stdout' = Append(stdout, Head(stdin))
    /\ answered' = Head(stdin)
    /\ UNCHANGED <<submitted, cancelled, feederVars, ts, job, readerVars, outVars>>

JobLogs ==
    /\ job = "running"
    /\ Len(stdout) < PipeCap
    /\ stdout' = Append(stdout, Log)
    /\ UNCHANGED <<submitted, cancelled, feederVars, ts, stdin, job, readerVars, outVars,
                   answered>>

\* An operation out of its domain throws, the feeder closes its stdin, the runtime
\* crashes, or the machine kills it.
JobFails ==
    /\ job = "running"
    /\ job' = "dead"
    /\ UNCHANGED <<submitted, cancelled, feederVars, ts, stdin, stdout, readerVars,
                   outVars, answered>>

\* exec.CommandContext kills the job of a context that is done.
JobKilled ==
    /\ job = "running"
    /\ cancelled
    /\ job' = "dead"
    /\ UNCHANGED <<submitted, cancelled, feederVars, ts, stdin, stdout, readerVars,
                   outVars, answered>>

-----------------------------------------------------------------------------
(* The reader                                                              *)

\* Mutant: the timestamp is taken before the line is parsed.
ReaderScanPopping ==
    /\ reader = "scan"
    /\ stdout # <<>>
    /\ stdout' = Tail(stdout)
    /\ IF Head(stdout) = Log
       THEN /\ ts' = IF ts = <<>> THEN ts ELSE Tail(ts)
            /\ UNCHANGED <<reader, line>>
       ELSE reader' = "pair" /\ line' = Head(stdout) /\ UNCHANGED ts
    /\ UNCHANGED <<submitted, cancelled, feederVars, stdin, job, event, closed, status,
                   outVars, answered>>

\* Mutant: a line that does not parse ends the reader.
ReaderScanGivingUp ==
    /\ reader = "scan"
    /\ stdout # <<>>
    /\ stdout' = Tail(stdout)
    /\ IF Head(stdout) = Log
       THEN reader' = "closing" /\ UNCHANGED line
       ELSE reader' = "pair" /\ line' = Head(stdout)
    /\ UNCHANGED <<submitted, cancelled, feederVars, ts, stdin, job, event, closed, status,
                   outVars, answered>>

\* sc.Scan and ParseFloat: a line that does not parse is passed over.
ReaderScan ==
    /\ reader = "scan"
    /\ stdout # <<>>
    /\ stdout' = Tail(stdout)
    /\ IF Head(stdout) = Log
       THEN UNCHANGED <<reader, line>>
       ELSE reader' = "pair" /\ line' = Head(stdout)
    /\ UNCHANGED <<submitted, cancelled, feederVars, ts, stdin, job, event, closed, status,
                   outVars, answered>>

ReaderPair ==
    /\ reader = "pair"
    /\ ts # <<>>
    /\ event' = [datetime |-> Head(ts), value |-> line]
    /\ ts' = Tail(ts)
    /\ line' = Log
    /\ reader' = "send"
    /\ UNCHANGED <<submitted, cancelled, feederVars, stdin, job, stdout, closed, status,
                   outVars, answered>>

ReaderSend ==
    /\ reader = "send"
    /\ Len(results) < ResultsCap
    /\ results' = Append(results, event)
    /\ event' = NoEvent
    /\ reader' = "scan"
    /\ UNCHANGED <<submitted, cancelled, feederVars, ts, stdin, job, stdout, line, closed,
                   status, delivered, answered>>

\* A line longer than the scanner's buffer ends the scan too, while the job lives.
ReaderChokes ==
    /\ reader = "scan"
    /\ stdout # <<>>
    /\ Head(stdout) = Log
    /\ status' = "stopped"
    /\ reader' = "closing"
    /\ UNCHANGED <<submitted, cancelled, feederVars, ts, stdin, job, stdout, line, event,
                   closed, outVars, answered>>

\* Mutant: the pipe is closed when the job has exited (cmd.Wait), read to its end or not.
ReaderEndsAtExit ==
    /\ reader = "scan"
    /\ job = "dead"
    /\ status' = "stopped"
    /\ reader' = "closing"
    /\ UNCHANGED <<submitted, cancelled, feederVars, ts, stdin, job, stdout, line, event,
                   closed, outVars, answered>>

\* The end of stdout: the job is dead and all it wrote is scanned.
ReaderEnds ==
    /\ reader = "scan"
    /\ stdout = <<>>
    /\ job = "dead"
    /\ status' = "stopped"
    /\ reader' = "closing"
    /\ UNCHANGED <<submitted, cancelled, feederVars, ts, stdin, job, stdout, line, event,
                   closed, outVars, answered>>

\* ctx.Done() while it waits for a timestamp or for room in the results.
ReaderCancelled ==
    /\ reader \in {"pair", "send"}
    /\ cancelled
    /\ status' = "stopped"
    /\ reader' = "closing"
    /\ line' = Log
    /\ event' = NoEvent
    /\ UNCHANGED <<submitted, cancelled, feederVars, ts, stdin, job, stdout, closed,
                   outVars, answered>>

\* The deferred close(h.results).
ReaderClose ==
    /\ reader = "closing"
    /\ closed' = TRUE
    /\ reader' = "done"
    /\ UNCHANGED <<submitted, cancelled, feederVars, ts, stdin, job, stdout, line, event,
                   status, outVars, answered>>

Reader == ReaderScan \/ ReaderPair \/ ReaderSend \/ ReaderEnds \/ ReaderClose

\* contQuery.pump receives an event (module Fanout has what it does with it).
PumpReceives ==
    /\ results # <<>>
    /\ delivered' = Append(delivered, Head(results))
    /\ results' = Tail(results)
    /\ UNCHANGED <<submitted, cancelled, feederVars, ts, stdin, job, stdout, readerVars,
                   answered>>

-----------------------------------------------------------------------------
BridgeDone ==
    /\ submitted = "refused" \/ reader = "done"
    /\ results = <<>>
    /\ UNCHANGED bridgeVars

BridgeNext ==
    \/ Submit \/ SubmitRefused \/ Cancel
    \/ FeederReceive \/ Feeder \/ FeederCancelled
    \/ JobAnswer \/ JobLogs \/ JobFails \/ JobKilled
    \/ Reader \/ ReaderChokes \/ ReaderCancelled
    \/ PumpReceives
    \/ BridgeDone

\* A goroutine that can run runs, a select takes a ctx.Done() that stays ready, a job
\* that lives answers what it has read, and the kill of a cancelled job is delivered.
\* A job need not die of itself, and a source need not have another record.
BridgeFairness ==
    /\ WF_bridgeVars(Feeder)
    /\ WF_bridgeVars(FeederCancelled)
    /\ SF_bridgeVars(JobAnswer)
    /\ WF_bridgeVars(JobKilled)
    /\ WF_bridgeVars(Reader)
    /\ WF_bridgeVars(ReaderCancelled)
    /\ WF_bridgeVars(PumpReceives)

BridgeSafetySpec == BridgeInit /\ [][BridgeNext]_bridgeVars

BridgeSpec == BridgeSafetySpec /\ BridgeFairness

-----------------------------------------------------------------------------
(* Properties                                                              *)

\* The variables have their types, and the two channels and the two pipes never hold more
\* than they can: who finds one full waits (feeder and reader of Submit).
BridgeTypeOK ==
    /\ submitted \in {"no", "refused", "yes"}
    /\ cancelled \in BOOLEAN
    /\ taken \in 0..MaxRecord
    /\ feeder \in {"none", "select", "stamp", "write", "done"}
    /\ ts \in Seq(Record) /\ Len(ts) <= TsCap
    /\ stdin \in Seq(Record) /\ Len(stdin) <= PipeCap
    /\ job \in {"none", "running", "dead"}
    /\ stdout \in Seq(Record \cup {Log}) /\ Len(stdout) <= PipeCap
    /\ reader \in {"none", "scan", "pair", "send", "closing", "done"}
    /\ line \in Record \cup {Log}
    /\ event \in EventRec \cup {NoEvent}
    /\ results \in Seq(EventRec) /\ Len(results) <= ResultsCap
    /\ closed \in BOOLEAN
    /\ status \in {"running", "stopped"}
    /\ delivered \in Seq(EventRec)
    /\ answered \in 0..MaxRecord

\* "Each output is paired with its source instant's timestamp": the n-th event a query
\* delivers is the answer to the n-th record of its source, under that record's time,
\* whatever the job logs in between and wherever each of the three processes is.
Paired ==
    \A n \in 1..Len(delivered) :
        delivered[n].value = n /\ delivered[n].datetime = n

\* The reader has stopped at a line it could not scan.
Choked == reader \in {"closing", "done"} /\ stdout # <<>> /\ Head(stdout) = Log

\* The three buffers between the source and the pump never wait for one another: every
\* record the feeder takes is answered, unless the job dies, the query is cancelled or the
\* job logs a line that is too long for the reader.
EveryRecordIsAnswered ==
    \A n \in Record :
        taken = n ~> Len(delivered) >= n \/ cancelled \/ job = "dead" \/ Choked

\* "The control plane cancels the context, which kills the bridge job subprocess and ends
\* the feeder/reader goroutines", wherever each of them is blocked.
CancelEndsBridge ==
    cancelled ~> /\ job # "running"
                 /\ feeder \in {"none", "done"}
                 /\ reader \in {"none", "done"}

\* When the job dies its results are closed and drained, so that the pump ends the streams
\* of the query's clients; and by then every answer the job had written is delivered, those
\* still in the pipe included, unless the query was cancelled or the reader stopped before.
DeathClosesResults ==
    \A n \in 0..MaxRecord :
        job = "dead" /\ answered = n ~>
            /\ closed /\ results = <<>>
            /\ Len(delivered) >= n \/ cancelled \/ Choked

\* CONFORMANCE.md: the states running, stopped and failed are reported by the status.
\* A query whose job failed, and nobody cancelled, is not reported as one that was stopped.
JobFailureIsReported == ~cancelled /\ reader = "done" => status = "failed"
=============================================================================
