------------------------------ MODULE CliStream ------------------------------
(***************************************************************************)
(* The event stream of a CLI agent (src/pkg/bridge/cli/agent.go, Invoke):  *)
(* a child process writes to stdout and stderr; one goroutine turns each   *)
(* pipe into events on a shared buffered channel; the stdout goroutine     *)
(* waits for the stderr one and for the process, then sends the final      *)
(* Done; a third goroutine closes the channel when both are through.  The  *)
(* consumer takes events with ChannelStream.Recv (src/pkg/agentio/         *)
(* stream.go) and may Close, which kills the process.                      *)
(*                                                                         *)
(* A line on a pipe is of a kind: "data" becomes one event, "done" a Done  *)
(* frame, "bad" does not decode, "long" exceeds the scanner's buffer.  A   *)
(* frame of several events counts as several lines; blank lines, which the *)
(* code skips, are left out.                                               *)
(* Pipes and process are external: a pipe is a bounded queue whose writer  *)
(* blocks, it reports EOF when the queue is empty and nobody holds its     *)
(* writing end, and cmd.Wait closes the pipes' reading ends.  A process    *)
(* that ends may leave descendants, which inherited stdout or stderr; they *)
(* write on, and nothing in the code kills them or stops waiting for them. *)
(***************************************************************************)
EXTENDS Naturals, Sequences

CONSTANTS
    Capacity,   \* of the channel; 128 in the code
    PipeSize,   \* bound: lines an operating-system pipe holds
    MaxLines,   \* bound: lines written on each pipe
    MaxTotal    \* bound: lines written on both together

Pipes == {"stdout", "stderr"}
Kinds == {"data", "done", "bad", "long"}
Formats == {"stream-json", "json", "text", "unsupported"}

ASSUME BoundsAreNaturals ==
    Capacity \in Nat \ {0} /\ PipeSize \in Nat \ {0} /\ MaxLines \in Nat /\ MaxTotal \in Nat

VARIABLES
    format,     \* the agent's StdoutFormat; it does not change
    process,    \* "running", "exited" with success, "failed" or killed
    heirs,      \* the pipes that descendants hold which outlived the process
    pipe,       \* the lines in each pipe
    written,    \* how many lines were written on each pipe
    readable,   \* the reading end of each pipe is open (cmd.Wait closes it)
    ch,         \* the events in the channel
    chClosed,   \* close(ch) has happened
    scan,       \* where the goroutine of each pipe is
    held,       \* the events that goroutine has read and not yet sent
    doneSeen,   \* the variable doneSeen of the stdout goroutine
    closed,     \* the consumer has called Close (once.Do has run)
    got,        \* the events Recv returned
    ended       \* Recv has returned ErrStreamClosed

vars == <<format, process, heirs, pipe, written, readable, ch, chClosed, scan, held, doneSeen,
          closed, got, ended>>

Done == [pipe |-> "none", type |-> "done", line |-> 0]
Failure(p, why) == [pipe |-> p, type |-> why, line |-> 0]
LineEvent(p, line) ==
    [pipe |-> p, line |-> line.line,
     type |-> CASE line.kind = "bad" -> "bad" [] line.kind = "done" -> "done" [] OTHER -> "data"]

EventTypes == {"data", "bad", "done", "tooLong", "readError", "cut", "exitError", "unsupported"}
Events == [pipe : Pipes \cup {"none"}, type : EventTypes, line : 0..MaxLines]

\* Type invariant.  A Done frame of the agent never gets into the channel: the
\* only Done there is the one Invoke makes.
TypeOK ==
    /\ format \in Formats
    /\ process \in {"running", "exited", "failed"}
    /\ heirs \subseteq Pipes
    /\ pipe \in [Pipes -> Seq([kind : Kinds, line : 1..MaxLines])]
    /\ written \in [Pipes -> 0..MaxLines]
    /\ readable \in [Pipes -> BOOLEAN]
    /\ Len(ch) <= Capacity
    /\ \A i \in DOMAIN ch : ch[i] \in Events /\ (ch[i].type = "done" => ch[i] = Done)
    /\ chClosed \in BOOLEAN
    /\ scan \in [Pipes -> {"scan", "send", "sendLast", "join", "wait", "sendExit",
                           "sendDone", "through"}]
    /\ held \in [Pipes -> Seq(Events)]
    /\ doneSeen \in BOOLEAN
    /\ closed \in BOOLEAN
    /\ got \in Seq(Events)
    /\ ended \in BOOLEAN

\* Invoke has started the process and its three goroutines.
Init ==
    /\ format \in Formats
    /\ process = "running"
    /\ heirs = {}
    /\ pipe = [p \in Pipes |-> <<>>]
    /\ written = [p \in Pipes |-> 0]
    /\ readable = [p \in Pipes |-> TRUE]
    /\ ch = <<>>
    /\ chClosed = FALSE
    /\ LET unread(p) == p = "stdout" /\ format = "unsupported" IN
       /\ scan = [p \in Pipes |-> IF unread(p) THEN "sendLast" ELSE "scan"]
       /\ held = [p \in Pipes |-> IF unread(p) THEN <<Failure(p, "unsupported")>> ELSE <<>>]
    /\ doneSeen = FALSE
    /\ closed = FALSE
    /\ got = <<>>
    /\ ended = FALSE

----------------------------------------------------------------------------
(* The child process and its descendants (external).                       *)

\* Somebody has the writing end of the pipe.
HasWriter(p) == process = "running" \/ p \in heirs

\* The kinds of lines that the reader of the pipe tells apart.
LineKinds(p) ==
    CASE p = "stderr" \/ format = "text" -> {"data", "long"}
      [] p = "stdout" /\ format = "stream-json" -> Kinds
      [] p = "stdout" /\ format = "json" -> {"data", "done", "bad"}
      [] OTHER -> {"data"}

Write(p) ==
    /\ HasWriter(p)
    /\ written[p] < MaxLines
    /\ written["stdout"] + written["stderr"] < MaxTotal
    /\ Len(pipe[p]) < PipeSize
    /\ written' = [written EXCEPT ![p] = @ + 1]
    /\ \E k \in LineKinds(p) :
          pipe' = [pipe EXCEPT ![p] = Append(@, [kind |-> k, line |-> written[p] + 1])]
    /\ UNCHANGED <<format, process, heirs, readable, ch, chClosed, scan, held, doneSeen,
                   closed, got, ended>>

\* The process is gone; whatever it started may live on.
Gone(how) ==
    /\ process = "running"
    /\ process' \in how
    /\ heirs' \in SUBSET Pipes

Exit ==
    /\ Gone({"exited", "failed"})
    /\ UNCHANGED <<format, pipe, written, readable, ch, chClosed, scan, held, doneSeen,
                   closed, got, ended>>

\* The invocation's context is canceled: the exec package kills the process.
CancelContext ==
    /\ Gone({"failed"})
    /\ UNCHANGED <<format, pipe, written, readable, ch, chClosed, scan, held, doneSeen,
                   closed, got, ended>>

\* The last descendant that holds the pipe ends or closes it.
Release(p) ==
    /\ p \in heirs
    /\ heirs' = heirs \ {p}
    /\ UNCHANGED <<format, process, pipe, written, readable, ch, chClosed, scan, held, doneSeen,
                   closed, got, ended>>

----------------------------------------------------------------------------
(* scanTextLines, parseJSONL, parseSingleJSON.                             *)

\* parseSingleJSON reads its whole input before it sends anything.
ReadsAll(p) == p = "stdout" /\ format = "json"

\* One line: its event is sent before the next is read, except that a line
\* longer than the scanner's buffer ends the scan.
ScanLine(p) ==
    /\ scan[p] = "scan"
    /\ readable[p]
    /\ pipe[p] # <<>>
    /\ pipe' = [pipe EXCEPT ![p] = Tail(@)]
    /\ LET line == Head(pipe[p])
           tooLong == line.kind = "long" /\ ~ReadsAll(p)
       IN  /\ held' = [held EXCEPT ![p] = Append(@, IF tooLong THEN Failure(p, "tooLong")
                                                             ELSE LineEvent(p, line))]
           /\ scan' = [scan EXCEPT ![p] = CASE tooLong -> "sendLast"
                                             [] ReadsAll(p) -> "scan"
                                             [] OTHER -> "send"]
    /\ UNCHANGED <<format, process, heirs, written, readable, ch, chClosed, doneSeen, closed,
                   got, ended>>

\* End of the pipe: everything written has been read and nobody can write more.
\* A body parseSingleJSON cannot decode becomes one failure.
ScanEOF(p) ==
    /\ scan[p] = "scan"
    /\ readable[p]
    /\ pipe[p] = <<>>
    /\ ~HasWriter(p)
    /\ scan' = [scan EXCEPT ![p] = "sendLast"]
    /\ held' = [held EXCEPT ![p] = IF \E i \in DOMAIN @ : @[i].type = "bad"
                                   THEN <<Failure(p, "bad")>> ELSE @]
    /\ UNCHANGED <<format, process, heirs, pipe, written, readable, ch, chClosed, doneSeen,
                   closed, got, ended>>

\* A read fails, because the reading end was closed under the reader or for a
\* reason of the operating system's.
ScanError(p) ==
    /\ scan[p] = "scan"
    /\ scan' = [scan EXCEPT ![p] = "sendLast"]
    /\ held' = [held EXCEPT ![p] = <<Failure(p, IF readable[p] THEN "readError" ELSE "cut")>>]
    /\ UNCHANGED <<format, process, heirs, pipe, written, readable, ch, chClosed, doneSeen,
                   closed, got, ended>>

\* ch <- event: waits for room and for nothing else.
Put(event) ==
    /\ Len(ch) < Capacity
    /\ ch' = Append(ch, event)

\* emitEvent: a Done frame is recorded and not passed on.
EmitEvent(event) ==
    IF event.type = "done"
    THEN doneSeen' = TRUE /\ UNCHANGED ch
    ELSE Put(event) /\ UNCHANGED doneSeen

Send(p) ==
    /\ scan[p] \in {"send", "sendLast"}
    /\ held[p] # <<>>
    /\ EmitEvent(Head(held[p]))
    /\ held' = [held EXCEPT ![p] = Tail(@)]
    /\ UNCHANGED <<format, process, heirs, pipe, written, readable, chClosed, scan, closed, got,
                   ended>>

\* Everything read is sent: on to the next line, or the goroutine's reading is
\* over, and the stdout one joins the other.
Sent(p) ==
    /\ scan[p] \in {"send", "sendLast"}
    /\ held[p] = <<>>
    /\ scan' = [scan EXCEPT ![p] = IF @ = "send" THEN "scan"
                                   ELSE IF p = "stdout" THEN "join" ELSE "through"]
    /\ UNCHANGED <<format, process, heirs, pipe, written, readable, ch, chClosed, held, doneSeen,
                   closed, got, ended>>

----------------------------------------------------------------------------
(* The end of the stdout goroutine, and the goroutine that closes ch.      *)

\* A faulty variant: stdout's goroutine does not wait for stderr's.
JoinNothing ==
    /\ scan["stdout"] = "join"
    /\ scan' = [scan EXCEPT !["stdout"] = "wait"]
    /\ UNCHANGED <<format, process, heirs, pipe, written, readable, ch, chClosed, held, doneSeen,
                   closed, got, ended>>

\* <-stderrDone
JoinStderr ==
    /\ scan["stdout"] = "join"
    /\ scan["stderr"] = "through"
    /\ scan' = [scan EXCEPT !["stdout"] = "wait"]
    /\ UNCHANGED <<format, process, heirs, pipe, written, readable, ch, chClosed, held, doneSeen,
                   closed, got, ended>>

\* cmd.Wait returns: an error unless the process exited with success.
WaitProcess ==
    /\ scan["stdout"] = "wait"
    /\ process # "running"
    /\ readable' = [p \in Pipes |-> FALSE]
    /\ scan' = [scan EXCEPT !["stdout"] = IF process = "exited" THEN "sendDone" ELSE "sendExit"]
    /\ UNCHANGED <<format, process, heirs, pipe, written, ch, chClosed, held, doneSeen, closed, got,
                   ended>>

SendExitError ==
    /\ scan["stdout"] = "sendExit"
    /\ Put(Failure("stdout", "exitError"))
    /\ scan' = [scan EXCEPT !["stdout"] = "sendDone"]
    /\ UNCHANGED <<format, process, heirs, pipe, written, readable, chClosed, held, doneSeen, closed,
                   got, ended>>

\* A faulty variant: a Done frame seen on stdout makes the final Done needless.
SendDoneUnlessSeen ==
    /\ scan["stdout"] = "sendDone"
    /\ IF doneSeen THEN UNCHANGED ch ELSE Put(Done)
    /\ doneSeen' = TRUE
    /\ scan' = [scan EXCEPT !["stdout"] = "through"]
    /\ UNCHANGED <<format, process, heirs, pipe, written, readable, chClosed, held, closed, got, ended>>

\* emitDoneIfNeeded sends the final Done whatever doneSeen says.
SendDone ==
    /\ scan["stdout"] = "sendDone"
    /\ Put(Done)
    /\ doneSeen' = TRUE
    /\ scan' = [scan EXCEPT !["stdout"] = "through"]
    /\ UNCHANGED <<format, process, heirs, pipe, written, readable, chClosed, held, closed, got, ended>>

\* producers.Wait(); close(ch)
CloseChannel ==
    /\ ~chClosed
    /\ \A p \in Pipes : scan[p] = "through"
    /\ chClosed' = TRUE
    /\ UNCHANGED <<format, process, heirs, pipe, written, readable, ch, scan, held, doneSeen, closed,
                   got, ended>>

----------------------------------------------------------------------------
(* The consumer: ChannelStream.Recv and Close.                             *)

Recv ==
    /\ ch # <<>>
    /\ got' = Append(got, Head(ch))
    /\ ch' = Tail(ch)
    /\ UNCHANGED <<format, process, heirs, pipe, written, readable, chClosed, scan, held, doneSeen,
                   closed, ended>>

RecvEnded ==
    /\ ch = <<>>
    /\ chClosed
    /\ ~ended
    /\ ended' = TRUE
    /\ UNCHANGED <<format, process, heirs, pipe, written, readable, ch, chClosed, scan, held, doneSeen,
                   closed, got>>

\* A faulty variant: Close forgets the process.
CloseQuietly ==
    /\ ~closed
    /\ closed' = TRUE
    /\ UNCHANGED <<format, process, heirs, pipe, written, readable, ch, chClosed, scan, held, doneSeen,
                   got, ended>>

\* closeStream: closes stdin and kills the process, not its descendants.
Close ==
    /\ ~closed
    /\ closed' = TRUE
    /\ Gone({"failed"}) \/ (process # "running" /\ UNCHANGED <<process, heirs>>)
    /\ UNCHANGED <<format, pipe, written, readable, ch, chClosed, scan, held, doneSeen, got, ended>>

----------------------------------------------------------------------------
Producer(p) == ScanLine(p) \/ ScanEOF(p) \/ ScanError(p) \/ Send(p) \/ Sent(p)
Finish == JoinStderr \/ WaitProcess \/ SendExitError \/ SendDone \/ CloseChannel

\* The stream has ended and the consumer knows.
Stopped == ended /\ UNCHANGED vars

Next ==
    \/ \E p \in Pipes : Write(p) \/ Release(p) \/ Producer(p)
    \/ Exit \/ CancelContext \/ Finish \/ Recv \/ RecvEnded \/ Close \/ Stopped

Spec == Init /\ [][Next]_vars

\* The agent's goroutines run on.  Nothing is assumed of the process and its
\* descendants, or of who calls Recv and Close.
Fairness ==
    /\ \A p \in Pipes : WF_vars(ScanLine(p) \/ ScanEOF(p) \/ Send(p) \/ Sent(p))
    /\ WF_vars(Finish)

FairSpec == Spec /\ Fairness

----------------------------------------------------------------------------
(* Properties.                                                             *)

Stream == got \o ch

\* The stream has one Done, at its end: no Done frame of the agent, no late
\* stderr line and no exit error comes after it, and a channel that is closed
\* ends with it.
DoneIsLast ==
    /\ \A i \in DOMAIN Stream : Stream[i].type = "done" => i = Len(Stream)
    /\ chClosed => Stream # <<>> /\ Stream[Len(Stream)] = Done

\* cmd.Wait never closes a pipe that is still being read: at the end of the
\* stream every line the process and its descendants wrote on stderr, up to one
\* that is too long or a failing read, has become an event, once and in order,
\* also when the process was killed; and a failure is the last that is heard of
\* stderr.
StderrComplete ==
    LET events == {i \in DOMAIN Stream : Stream[i].pipe = "stderr"}
        lines == {i \in events : Stream[i].type = "data"}
        failed == \E i \in events : Stream[i].type \in {"tooLong", "readError"}
    IN  chClosed =>
        /\ \A i \in events : Stream[i].type # "cut"
        /\ \A i \in lines, j \in events : j < i => j \in lines /\ Stream[j].line < Stream[i].line
        /\ \E n \in 0..written["stderr"] :
              {Stream[i].line : i \in lines} = 1..n /\ (failed \/ n = written["stderr"])

\* After Close the goroutines end and the channel is closed: killing the process
\* unblocks both readers and cmd.Wait, whatever they were waiting for.  Two things
\* alone can keep them.  The channel stays full for ever, because emitEvent waits
\* for room and nothing else; or a descendant keeps a pipe that is still being
\* read, because Close kills the direct child only and the readers run to EOF
\* before cmd.Wait.  A descendant on a pipe nobody reads any more does no harm.
ClosedStreamEnds ==
    closed ~> \/ chClosed
              \/ [](Len(ch) = Capacity)
              \/ \E p \in Pipes : [](p \in heirs /\ scan[p] \in {"scan", "send"})

\* "the bridge contract guarantees that closing the stream returns goroutines"
CloseEndsGoroutines == closed ~> chClosed
=============================================================================
