---------------------------- MODULE SocketSession ----------------------------
(***************************************************************************)
(* A socket session (src/pkg/bridge/socket/agent.go): the readLoop         *)
(* goroutine decodes frames into events and puts them on the buffered      *)
(* channel ch, the owner of the session takes them with Recv, and Close    *)
(* and a canceled context end the session from the outside.                *)
(*                                                                         *)
(* An event is its number in the order decoded.  The connection is         *)
(* external: Read returns a frame or an error while the connection is      *)
(* open, and an error once it is closed or the context is done.            *)
(***************************************************************************)
EXTENDS Naturals, Sequences

CONSTANTS
    Capacity,       \* of ch; 128 in the code
    MaxFrame,       \* bound: events in one frame
    MaxEvents       \* bound: events the reader decodes, a last failure included

ASSUME BoundsAreNaturals ==
    /\ Capacity \in Nat \ {0}
    /\ MaxFrame \in Nat
    /\ MaxEvents \in Nat \ {0}

VARIABLES
    ctxDone,    \* the context of OpenSession is canceled
    closes,     \* how often s.closed has been closed; closing it twice panics
    once,       \* s.closeOnce: "new", "running" (inside Close) or "done"
    connOpen,   \* the connection is open
    ch,         \* the events in the channel
    chClosed,   \* close(s.ch) has happened
    reader,     \* where readLoop is
    batch,      \* decoded events readLoop has yet to send
    last,       \* readLoop returns once batch is sent (it holds a failure)
    decoded,    \* number of events decoded so far
    owner,      \* the goroutine of OpenSession and Recv
    got,        \* the events Recv returned
    closer      \* the goroutine calling Close

vars == <<ctxDone, closes, once, connOpen, ch, chClosed, reader, batch, last,
          decoded, owner, got, closer>>

----------------------------------------------------------------------------
(* A channel is a queue of numbers; every process has a program counter.   *)

\* Type invariant.  s.closed is closed at most once, whoever of Close and
\* readLoop comes first: a second close(s.closed) would panic.
TypeOK ==
    /\ ctxDone \in BOOLEAN
    /\ closes \in 0..1
    /\ once \in {"new", "running", "done"}
    /\ connOpen \in BOOLEAN
    /\ ch \in Seq(1..MaxEvents) /\ Len(ch) <= Capacity
    /\ chClosed \in BOOLEAN
    /\ reader \in {"check", "read", "send", "exit", "exitOnce", "exitCh", "gone"}
    /\ batch \in Seq(1..MaxEvents)
    /\ last \in BOOLEAN
    /\ decoded \in 0..MaxEvents
    /\ owner \in {"opening", "idle", "recv", "ended", "none"}
    /\ got \in Seq(1..MaxEvents)
    /\ closer \in {"idle", "conn", "done"}

\* OpenSession has dialed and started readLoop; its first Send is next.
Init ==
    /\ ctxDone = FALSE
    /\ closes = 0
    /\ once = "new"
    /\ connOpen = TRUE
    /\ ch = <<>>
    /\ chClosed = FALSE
    /\ reader = "check"
    /\ batch = <<>>
    /\ last = FALSE
    /\ decoded = 0
    /\ owner = "opening"
    /\ got = <<>>
    /\ closer = "idle"

Closed == closes > 0

----------------------------------------------------------------------------
(* The owner: OpenSession, then Recv as often as it likes.                 *)

\* The first Send succeeds, or there is nothing to send.
OpenReturns ==
    /\ owner = "opening"
    /\ owner' = "idle"
    /\ UNCHANGED <<ctxDone, closes, once, connOpen, ch, chClosed, reader,
                   batch, last, decoded, got, closer>>

\* The first Send fails: OpenSession closes the session and returns the error,
\* so nobody will receive from it.
OpenFails ==
    /\ owner = "opening"
    /\ closer = "idle"
    /\ owner' = "none"
    /\ IF once = "new"
       THEN closes' = closes + 1 /\ once' = "running" /\ closer' = "conn"
       ELSE closer' = "done" /\ UNCHANGED <<closes, once>>
    /\ UNCHANGED <<ctxDone, connOpen, ch, chClosed, reader, batch, last,
                   decoded, got>>

RecvCall ==
    /\ owner = "idle"
    /\ owner' = "recv"
    /\ UNCHANGED <<ctxDone, closes, once, connOpen, ch, chClosed, reader,
                   batch, last, decoded, got, closer>>

\* The select of Recv chooses the channel and finds an event there.
RecvEvent ==
    /\ owner = "recv"
    /\ ch # <<>>
    /\ got' = Append(got, Head(ch))
    /\ ch' = Tail(ch)
    /\ owner' = "idle"
    /\ UNCHANGED <<ctxDone, closes, once, connOpen, chClosed, reader, batch,
                   last, decoded, closer>>

\* The select of Recv may return ErrStreamClosed: s.closed is closed, or ch is
\* closed and empty.
StreamEnded == Closed \/ (chClosed /\ ch = <<>>)

RecvEnded ==
    /\ owner = "recv"
    /\ StreamEnded
    /\ owner' = "ended"
    /\ UNCHANGED <<ctxDone, closes, once, connOpen, ch, chClosed, reader,
                   batch, last, decoded, got, closer>>

\* The context given to Recv is done; the owner may call again.
RecvCanceled ==
    /\ owner = "recv"
    /\ owner' = "idle"
    /\ UNCHANGED <<ctxDone, closes, once, connOpen, ch, chClosed, reader,
                   batch, last, decoded, got, closer>>

----------------------------------------------------------------------------
(* Ending the session from the outside.                                    *)

CloseBegin ==
    /\ closer = "idle"
    /\ owner # "opening"
    /\ once # "running"
    /\ IF once = "new"
       THEN closes' = closes + 1 /\ once' = "running" /\ closer' = "conn"
       ELSE closer' = "done" /\ UNCHANGED <<closes, once>>
    /\ UNCHANGED <<ctxDone, connOpen, ch, chClosed, reader, batch, last,
                   decoded, owner, got>>

\* The second half of the function under closeOnce.
CloseConn ==
    /\ closer = "conn"
    /\ connOpen' = FALSE
    /\ once' = "done"
    /\ closer' = "done"
    /\ UNCHANGED <<ctxDone, closes, ch, chClosed, reader, batch, last,
                   decoded, owner, got>>

CancelContext ==
    /\ ~ctxDone
    /\ ctxDone' = TRUE
    /\ UNCHANGED <<closes, once, connOpen, ch, chClosed, reader, batch, last,
                   decoded, owner, got, closer>>

----------------------------------------------------------------------------
(* readLoop.                                                               *)

ReadCheck ==
    /\ reader = "check"
    /\ reader' = IF ctxDone \/ Closed THEN "exit" ELSE "read"
    /\ UNCHANGED <<ctxDone, closes, once, connOpen, ch, chClosed, batch, last,
                   decoded, owner, got, closer>>

Decode(n, failed) ==
    /\ decoded' = decoded + n
    /\ batch' = [i \in 1..n |-> decoded + i]
    /\ last' = failed
    /\ reader' = "send"

\* A frame arrives and decodes to any number of events, or does not decode and
\* becomes one failure event after which readLoop returns.
ReadFrame ==
    /\ reader = "read"
    /\ connOpen
    /\ \/ \E n \in 0..MaxFrame : decoded + n < MaxEvents /\ Decode(n, FALSE)
       \/ Decode(1, TRUE)
    /\ UNCHANGED <<ctxDone, closes, once, connOpen, ch, chClosed, owner, got,
                   closer>>

\* conn.Read fails other than by cancellation: one failure event, then return.
ReadError ==
    /\ reader = "read"
    /\ Decode(1, TRUE)
    /\ UNCHANGED <<ctxDone, closes, once, connOpen, ch, chClosed, owner, got,
                   closer>>

\* conn.Read fails with context.Canceled: return without an event.
ReadCanceled ==
    /\ reader = "read"
    /\ ctxDone
    /\ reader' = "exit"
    /\ UNCHANGED <<ctxDone, closes, once, connOpen, ch, chClosed, batch, last,
                   decoded, owner, got, closer>>

\* sendEvent chooses the channel.
SendEvent ==
    /\ reader = "send"
    /\ batch # <<>>
    /\ Len(ch) < Capacity
    /\ ch' = Append(ch, Head(batch))
    /\ batch' = Tail(batch)
    /\ UNCHANGED <<ctxDone, closes, once, connOpen, chClosed, reader, last,
                   decoded, owner, got, closer>>

\* A faulty variant: a full channel ends the session.
SendGivesUpWhenFull ==
    /\ reader = "send"
    /\ batch # <<>>
    /\ ctxDone \/ Closed \/ Len(ch) = Capacity
    /\ reader' = "exit"
    /\ UNCHANGED <<ctxDone, closes, once, connOpen, ch, chClosed, batch, last,
                   decoded, owner, got, closer>>

\* A faulty variant: the send waits for room in the channel and nothing else.
SendNeverGivesUp == FALSE /\ UNCHANGED vars

\* sendEvent chooses ctx.Done or s.closed: the rest of the batch is given up.
SendGivesUp ==
    /\ reader = "send"
    /\ batch # <<>>
    /\ ctxDone \/ Closed
    /\ reader' = "exit"
    /\ UNCHANGED <<ctxDone, closes, once, connOpen, ch, chClosed, batch, last,
                   decoded, owner, got, closer>>

SendDone ==
    /\ reader = "send"
    /\ batch = <<>>
    /\ reader' = IF last THEN "exit" ELSE "check"
    /\ UNCHANGED <<ctxDone, closes, once, connOpen, ch, chClosed, batch, last,
                   decoded, owner, got, closer>>

\* The deferred function: close the connection, close s.closed unless Close
\* has (waiting for a Close that is under way), then close the channel.
ExitConn ==
    /\ reader = "exit"
    /\ connOpen' = FALSE
    /\ reader' = "exitOnce"
    /\ UNCHANGED <<ctxDone, closes, once, ch, chClosed, batch, last, decoded,
                   owner, got, closer>>

ExitOnce ==
    /\ reader = "exitOnce"
    /\ once # "running"
    /\ closes' = IF once = "new" THEN closes + 1 ELSE closes
    /\ once' = "done"
    /\ reader' = "exitCh"
    /\ UNCHANGED <<ctxDone, connOpen, ch, chClosed, batch, last, decoded,
                   owner, got, closer>>

ExitCh ==
    /\ reader = "exitCh"
    /\ chClosed' = TRUE
    /\ reader' = "gone"
    /\ UNCHANGED <<ctxDone, closes, once, connOpen, ch, batch, last, decoded,
                   owner, got, closer>>

----------------------------------------------------------------------------
Owner == OpenReturns \/ OpenFails \/ RecvCall \/ RecvEvent \/ RecvEnded \/ RecvCanceled
Reader ==
    \/ ReadCheck \/ ReadFrame \/ ReadError \/ ReadCanceled
    \/ SendEvent \/ SendGivesUp \/ SendDone
    \/ ExitConn \/ ExitOnce \/ ExitCh

\* Nothing is left to do: the reader has gone, and so has the owner.
Finished ==
    /\ reader = "gone"
    /\ owner \in {"ended", "none"}
    /\ UNCHANGED vars

Next == Owner \/ CloseBegin \/ CloseConn \/ CancelContext \/ Reader \/ Finished

Spec == Init /\ [][Next]_vars

\* readLoop is a goroutine and runs on; conn.Read returns once the connection
\* is closed or its context done, and otherwise as it likes.  Close runs to its
\* end.  A select in Recv returns when it can: the sum of its cases is fair.
Fairness ==
    /\ WF_vars(ReadCheck) /\ WF_vars(ReadError /\ ~connOpen) /\ WF_vars(ReadCanceled)
    /\ WF_vars(SendEvent \/ SendGivesUp \/ SendDone)
    /\ WF_vars(ExitConn \/ ExitOnce \/ ExitCh)
    /\ WF_vars(CloseConn)
    /\ WF_vars(RecvEvent \/ RecvEnded)

FairSpec == Spec /\ Fairness

----------------------------------------------------------------------------
(* Properties.                                                             *)

\* What Recv returned, followed by what is in the channel, is the decoded
\* events in order from the first on: none dropped, repeated or overtaken by
\* the way readLoop batches and blocks on a full channel.  A session nobody
\* closed and nobody canceled has put all of them there before it ends, its
\* final failure event included.
StreamIsDecoded ==
    LET sent == got \o ch
    IN  /\ \A i \in DOMAIN sent : sent[i] = i
        /\ chClosed /\ closer = "idle" /\ ~ctxDone => Len(sent) = decoded

\* After Close or cancellation readLoop ends, also when it was blocked on a full
\* channel that nobody reads, or inside conn.Read.
ReaderExits == Closed \/ ctxDone ~> chClosed

\* The orchestrator's requirement on socket sessions: Recv does not report the
\* end of the stream while events are queued.  It is stated here for sessions
\* that neither Close nor the context ended.
DrainBeforeTerminalClose ==
    [][owner' = "ended" /\ owner # "ended" /\ closer = "idle" /\ ~ctxDone => ch = <<>>]_vars
=============================================================================
