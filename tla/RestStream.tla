----------------------------- MODULE RestStream -----------------------------
(***************************************************************************)
(* The event stream of a REST agent (src/pkg/bridge/rest): Invoke sends    *)
(* the request and picks a decoder by content type; the decoder's          *)
(* goroutine turns the response body into events on a buffered channel,    *)
(* adds the final Done, closes the body and the channel.  The stream is    *)
(* used as its callers use it (src/pkg/agentio/stream.go): event by event  *)
(* with Recv, to its end by CollectText, or as a reader by                 *)
(* TextReaderAdapter, whose Close may come at any point of a Read.         *)
(*                                                                         *)
(* The body is a sequence of lines.  A data line carries a payload: text   *)
(* that is not JSON, "[DONE]", or JSON objects (one, or an array of        *)
(* several or none); of an object the model has the fields that decide the *)
(* type of its event.  The default decoder turns everything it cannot      *)
(* parse into text, so that its error branch is never taken.  The names of *)
(* SSE events and other data are left out.                                 *)
(***************************************************************************)
EXTENDS Naturals, Sequences, SequencesExt

CONSTANTS
    Capacity,   \* of the channel; 128 or 4 in the code
    MaxLines,   \* bound: lines the server sends
    Payloads    \* the payloads it sends

Formats == {"sse", "jsonl", "json"}
TextTypes == {"text_delta", "message", "status"}
EventTypes == TextTypes \cup {"structured", "usage", "tool_call", "error", "done"}
Objects == [type : EventTypes \cup {"absent"}, text : BOOLEAN, usage : BOOLEAN, error : BOOLEAN]

ASSUME RestAssumption ==
    /\ Capacity \in Nat \ {0} /\ MaxLines \in Nat
    /\ \A p \in Payloads : p.kind \in {"raw", "done", "objects"} /\ p.objects \in Seq(Objects)

VARIABLES
    call,         \* Invoke: "new", "refused" or "stream"
    format,       \* the decoder Invoke chose
    lines,        \* what the server has sent
    rd,           \* how many of these lines the decoder has read
    link,         \* the body: "open", "eof" (ended by the server) or "broken"
    bodyClosed,   \* body.Close has been called
    dec,          \* where the decoder's goroutine is
    frame,        \* the data lines of the frame it is reading; 0 is one that was cut
    held,         \* the events it has decoded and not yet sent
    doneEmitted,  \* its variable doneEmitted
    ch, chClosed, \* the channel
    user,         \* who uses the stream: "recv", "collect" or "read"
    got,          \* the events Recv has returned
    ended,        \* Recv has returned ErrStreamClosed
    canceled,     \* the context of the caller's Recv is done
    text,         \* the text CollectText or Read has gathered for its caller
    result,       \* what the caller was told last: "none", "text", "error", "eof"
    rpc,          \* TextReaderAdapter.Read: "idle", "check", "recv" or "drain"
    buf,          \* its buffer
    rclosed,      \* its flag closed
    closing       \* its Close: "open", "marked" or "closed"

bodyVars == <<lines, link>>
decVars == <<rd, dec, frame, held, doneEmitted, chClosed>>
readVars == <<rpc, buf, rclosed, closing>>
userVars == <<user, got, ended, canceled, text, result>>
vars == <<call, format, bodyVars, bodyClosed, decVars, ch, userVars, readVars>>

Init ==
    /\ call = "new"
    /\ format = "json"
    /\ lines = <<>>
    /\ rd = 0
    /\ link = "open"
    /\ bodyClosed = FALSE
    /\ dec = "gone"
    /\ frame = <<>>
    /\ held = <<>>
    /\ doneEmitted = FALSE
    /\ ch = <<>>
    /\ chClosed = FALSE
    /\ user \in {"recv", "collect", "read"}
    /\ got = <<>>
    /\ ended = FALSE
    /\ canceled = FALSE
    /\ text = <<>>
    /\ result = "none"
    /\ rpc = "idle"
    /\ buf = <<>>
    /\ rclosed = FALSE
    /\ closing = "open"

----------------------------------------------------------------------------
(* From payloads to events.                                                *)

Event(type, hasText, line) == [type |-> type, text |-> hasText, line |-> line]
Done == Event("done", FALSE, 0)
Failure == Event("error", FALSE, 0)

\* The type of an object's event.  Any error field, null too, makes a failure.
BestEffortEventFromMap(o, i) ==
    Event(IF o.error THEN "error"
          ELSE IF o.type \notin {"absent", "structured"} THEN o.type
          ELSE IF o.text THEN "text_delta"
          ELSE IF o.usage THEN "usage" ELSE "structured", o.text, i)

DecodeFramedPayload(p, i) ==
    CASE p.kind = "done" -> <<Event("done", FALSE, i)>>
      [] p.kind = "raw" -> <<Event("text_delta", TRUE, i)>>
      [] OTHER -> [j \in DOMAIN p.objects |-> BestEffortEventFromMap(p.objects[j], i)]

\* The payload of the data lines f: several lines together are no JSON value.
Raw == [kind |-> "raw", objects |-> <<>>]
Joined(f) == IF Len(f) = 1 /\ f[1] # 0 THEN lines[f[1]].payload ELSE Raw

FrameEvents(f) == IF f = <<>> THEN <<>> ELSE DecodeFramedPayload(Joined(f), f[Len(f)])

----------------------------------------------------------------------------
(* Invoke, and the server (external).                                      *)

\* The request fails, or the answer is not a success and its body is closed.
InvokeFails ==
    /\ call = "new"
    /\ call' = "refused"
    /\ bodyClosed' \in BOOLEAN
    /\ UNCHANGED <<format, bodyVars, decVars, ch, userVars, readVars>>

\* DefaultHTTPResponseDecoder starts the goroutine of the format.
InvokeStreams ==
    /\ call = "new"
    /\ call' = "stream"
    /\ format' \in Formats
    /\ dec' = "scan"
    /\ UNCHANGED <<bodyVars, bodyClosed, rd, frame, held, doneEmitted, chClosed, ch, userVars,
                   readVars>>

DataLines == [kind : {"data"}, payload : Payloads]
Mark(kind) == [kind |-> kind, payload |-> Raw]

\* A blank line ends an SSE frame; a long one exceeds the scanner's buffer.
Deliver ==
    /\ call = "stream"
    /\ link = "open"
    /\ Len(lines) < MaxLines
    /\ \E line \in DataLines \cup (IF format = "sse" THEN {Mark("blank")} ELSE {})
                             \cup (IF format = "json" THEN {} ELSE {Mark("long")}) :
          lines' = Append(lines, line)
    /\ UNCHANGED <<call, format, link, bodyClosed, decVars, ch, userVars, readVars>>

\* The server ends the body, or the connection or the request's context is lost.
EndBody ==
    /\ call = "stream"
    /\ link = "open"
    /\ link' \in {"eof", "broken"}
    /\ UNCHANGED <<call, format, lines, bodyClosed, decVars, ch, userVars, readVars>>

----------------------------------------------------------------------------
(* The decoder's goroutine: parseSSE, parseJSONL, parseSingleJSON.         *)

\* The events are sent one by one before the goroutine goes on to "scan" or
\* "finish".
Hold(events, next) ==
    /\ held' = events
    /\ dec' = IF events = <<>> THEN next ELSE IF next = "scan" THEN "send" ELSE "sendLast"

\* A data line: an event at once for JSONL, part of the frame or of the whole
\* body otherwise.
ScanData ==
    /\ dec = "scan"
    /\ rd < Len(lines)
    /\ lines[rd + 1].kind = "data"
    /\ rd' = rd + 1
    /\ IF format = "jsonl" THEN Hold(FrameEvents(<<rd + 1>>), "scan") /\ UNCHANGED frame
                           ELSE frame' = Append(frame, rd + 1) /\ UNCHANGED <<held, dec>>
    /\ UNCHANGED <<call, format, bodyVars, bodyClosed, doneEmitted, chClosed, ch, userVars,
                   readVars>>

\* flush
ScanBlank ==
    /\ dec = "scan"
    /\ rd < Len(lines)
    /\ lines[rd + 1].kind = "blank"
    /\ rd' = rd + 1
    /\ Hold(FrameEvents(frame), "scan")
    /\ frame' = <<>>
    /\ UNCHANGED <<call, format, bodyVars, bodyClosed, doneEmitted, chClosed, ch, userVars,
                   readVars>>

\* bufio.ErrTooLong ends the scan; the frame so far is flushed.
ScanTooLong ==
    /\ dec = "scan"
    /\ rd < Len(lines)
    /\ lines[rd + 1].kind = "long"
    /\ rd' = rd + 1
    /\ Hold(Append(FrameEvents(frame), Failure), "finish")
    /\ frame' = <<>>
    /\ UNCHANGED <<call, format, bodyVars, bodyClosed, doneEmitted, chClosed, ch, userVars,
                   readVars>>

\* A faulty variant: what has not been flushed is dropped at the end.
ScanEOFUnflushed ==
    /\ dec = "scan"
    /\ link = "eof" /\ rd = Len(lines)
    /\ Hold(<<>>, "finish")
    /\ frame' = <<>>
    /\ UNCHANGED <<call, format, bodyVars, bodyClosed, rd, doneEmitted, chClosed, ch, userVars,
                   readVars>>

ScanEOF ==
    /\ dec = "scan"
    /\ link = "eof" /\ rd = Len(lines)
    /\ Hold(FrameEvents(frame), "finish")
    /\ frame' = <<>>
    /\ UNCHANGED <<call, format, bodyVars, bodyClosed, rd, doneEmitted, chClosed, ch, userVars,
                   readVars>>

\* A read fails, with lines still unread or in the middle of one: the scanner
\* gives out the part of the line it has and then reports the error.
\* parseSingleJSON drops what it has read.
ScanError ==
    /\ dec = "scan"
    /\ link = "broken" \/ bodyClosed
    /\ \E cut \in {<<>>, <<0>>} :
          Hold(CASE format = "json" -> <<Failure>>
                 [] format = "jsonl" -> Append(FrameEvents(cut), Failure)
                 [] OTHER -> Append(FrameEvents(frame \o cut), Failure), "finish")
    /\ frame' = <<>>
    /\ UNCHANGED <<call, format, bodyVars, bodyClosed, rd, doneEmitted, chClosed, ch, userVars,
                   readVars>>

\* ch <- event: waits for room and for nothing else.
Put(event) ==
    /\ Len(ch) < Capacity
    /\ ch' = Append(ch, event)

\* emitEvent
Send ==
    /\ dec \in {"send", "sendLast"}
    /\ Put(Head(held))
    /\ doneEmitted' = (doneEmitted \/ Head(held).type = "done")
    /\ held' = Tail(held)
    /\ dec' = IF Tail(held) # <<>> THEN dec ELSE IF dec = "send" THEN "scan" ELSE "finish"
    /\ UNCHANGED <<call, format, bodyVars, bodyClosed, rd, frame, chClosed, userVars, readVars>>

EmitDoneIfNeeded ==
    /\ dec = "finish"
    /\ IF doneEmitted THEN UNCHANGED ch ELSE Put(Done)
    /\ doneEmitted' = TRUE
    /\ dec' = "close"
    /\ UNCHANGED <<call, format, bodyVars, bodyClosed, rd, frame, held, chClosed, userVars, readVars>>

\* The deferred body.Close() and close(ch).
CloseChannel ==
    /\ dec = "close"
    /\ bodyClosed' = TRUE
    /\ chClosed' = TRUE
    /\ dec' = "gone"
    /\ UNCHANGED <<call, format, bodyVars, rd, frame, held, doneEmitted, ch, userVars, readVars>>

Decoder ==
    \/ ScanData \/ ScanBlank \/ ScanTooLong \/ ScanEOF \/ ScanError
    \/ Send \/ EmitDoneIfNeeded \/ CloseChannel

----------------------------------------------------------------------------
(* ChannelStream: Recv and Close.                                          *)

Take ==
    /\ ch # <<>>
    /\ got' = Append(got, Head(ch))
    /\ ch' = Tail(ch)

AtEnd == chClosed /\ ch = <<>>

Recv ==
    /\ user = "recv"
    /\ Take
    /\ UNCHANGED <<call, format, bodyVars, bodyClosed, decVars, user, ended, canceled, text,
                   result, readVars>>

RecvEnded ==
    /\ user = "recv"
    /\ AtEnd /\ ~ended
    /\ ended' = TRUE
    /\ UNCHANGED <<call, format, bodyVars, bodyClosed, decVars, ch, user, got, canceled, text,
                   result, readVars>>

\* A faulty variant: Close forgets the body.
CloseQuietly == UNCHANGED bodyClosed

\* closeFn is body.Close.
CloseStream == bodyClosed' = TRUE

RecvClose ==
    /\ user = "recv"
    /\ call = "stream"
    /\ ~bodyClosed
    /\ CloseStream
    /\ UNCHANGED <<call, format, bodyVars, decVars, ch, userVars, readVars>>

\* The context the caller gave to CollectText or to the adapter.
CancelContext ==
    /\ user # "recv"
    /\ call = "stream"
    /\ ~canceled
    /\ canceled' = TRUE
    /\ UNCHANGED <<call, format, bodyVars, bodyClosed, decVars, ch, user, got, ended, text, result,
                   readVars>>

----------------------------------------------------------------------------
(* CollectText: the loop, and its deferred Close.                          *)

TextIn(event) == IF event.type \in TextTypes /\ event.text THEN <<event.line>> ELSE <<>>

CollectEvent ==
    /\ user = "collect" /\ result = "none"
    /\ Take
    /\ text' = text \o TextIn(Head(ch))
    /\ IF Head(ch).type = "error" THEN result' = "error" /\ CloseStream
                                  ELSE UNCHANGED <<result, bodyClosed>>
    /\ UNCHANGED <<call, format, bodyVars, decVars, user, ended, canceled, readVars>>

CollectEnded ==
    /\ user = "collect" /\ result = "none"
    /\ AtEnd
    /\ ended' = TRUE
    /\ result' = "text"
    /\ CloseStream
    /\ UNCHANGED <<call, format, bodyVars, decVars, ch, user, got, canceled, text, readVars>>

CollectCanceled ==
    /\ user = "collect" /\ result = "none"
    /\ canceled
    /\ result' = "error"
    /\ CloseStream
    /\ UNCHANGED <<call, format, bodyVars, decVars, ch, user, got, ended, canceled, text, readVars>>

Collect == CollectEvent \/ CollectEnded \/ CollectCanceled

----------------------------------------------------------------------------
(* TextReaderAdapter.  "result" is the first verdict its caller gets, an   *)
(* error or the end.                                                       *)

Verdict(v) == result' = IF result = "none" THEN v ELSE result

ReadCall ==
    /\ user = "read" /\ call = "stream"
    /\ rpc = "idle"
    /\ rpc' = "check"
    /\ UNCHANGED <<call, format, bodyVars, bodyClosed, decVars, ch, userVars, buf, rclosed, closing>>

\* for r.bufLen() == 0 && !r.isClosed()
ReadCheck ==
    /\ rpc = "check"
    /\ rpc' = IF buf = <<>> /\ ~rclosed THEN "recv" ELSE "drain"
    /\ UNCHANGED <<call, format, bodyVars, bodyClosed, decVars, ch, userVars, buf, rclosed, closing>>

\* A faulty variant: a failure is skipped like any other event without text.
ReadEventSkipsFailure ==
    /\ rpc = "recv"
    /\ Take
    /\ buf' = buf \o TextIn(Head(ch))
    /\ rclosed' = (rclosed \/ Head(ch).type = "done")
    /\ rpc' = "check"
    /\ UNCHANGED <<call, format, bodyVars, bodyClosed, decVars, user, ended, canceled, text, result,
                   closing>>

\* Done ends the reader.  Read never meets ErrStreamClosed here: StreamIsBody
\* says that no stream ends without a Done.
ReadEvent ==
    /\ rpc = "recv"
    /\ Take
    /\ buf' = buf \o TextIn(Head(ch))
    /\ rclosed' = (rclosed \/ Head(ch).type = "done")
    /\ IF Head(ch).type = "error" THEN rpc' = "idle" /\ Verdict("error")
                                  ELSE rpc' = "check" /\ UNCHANGED result
    /\ UNCHANGED <<call, format, bodyVars, bodyClosed, decVars, user, ended, canceled, text, closing>>

ReadCanceled ==
    /\ rpc = "recv"
    /\ canceled
    /\ rpc' = "idle"
    /\ Verdict("error")
    /\ UNCHANGED <<call, format, bodyVars, bodyClosed, decVars, ch, user, got, ended, canceled, text,
                   buf, rclosed, closing>>

\* EOF, or the text in the buffer.
ReadDrain ==
    /\ rpc = "drain"
    /\ rpc' = "idle"
    /\ text' = text \o buf
    /\ buf' = <<>>
    /\ IF buf = <<>> THEN Verdict("eof") ELSE UNCHANGED result
    /\ UNCHANGED <<call, format, bodyVars, bodyClosed, decVars, ch, user, got, ended, canceled,
                   rclosed, closing>>

Read == ReadCheck \/ ReadEvent \/ ReadCanceled \/ ReadDrain

\* Close, from another goroutine: the flag, then the context and the stream.
ReaderCloseMark ==
    /\ user = "read" /\ call = "stream"
    /\ closing = "open"
    /\ closing' = "marked"
    /\ rclosed' = TRUE
    /\ UNCHANGED <<call, format, bodyVars, bodyClosed, decVars, ch, userVars, rpc, buf>>

\* A faulty variant: the flag is all that Close sets.
ReaderCloseFlagOnly ==
    /\ closing = "marked"
    /\ closing' = "closed"
    /\ UNCHANGED <<call, format, bodyVars, bodyClosed, decVars, ch, userVars, rpc, buf, rclosed>>

ReaderCloseRest ==
    /\ closing = "marked"
    /\ closing' = "closed"
    /\ canceled' = TRUE
    /\ CloseStream
    /\ UNCHANGED <<call, format, bodyVars, decVars, ch, user, got, ended, text, result, rpc, buf,
                   rclosed>>

----------------------------------------------------------------------------
\* The caller is through.  A full channel keeps the decoder for ever.
Stopped ==
    /\ \/ call = "refused"
       \/ user = "recv" /\ ended
       \/ user = "collect" /\ result # "none" /\ (dec = "gone" \/ Len(ch) = Capacity)
    /\ UNCHANGED vars

Next ==
    \/ InvokeFails \/ InvokeStreams \/ Deliver \/ EndBody
    \/ Decoder
    \/ Recv \/ RecvEnded \/ RecvClose \/ CancelContext
    \/ Collect
    \/ ReadCall \/ Read \/ ReaderCloseMark \/ ReaderCloseRest
    \/ Stopped

Spec == Init /\ [][Next]_vars

\* The goroutine, CollectText and a Read or Close that has been called run on.
\* Nothing is assumed of the server, of who calls Recv, Read or Close, or of which
\* ready case a select takes.
Fairness ==
    /\ WF_vars(Decoder) /\ WF_vars(Collect) /\ WF_vars(Read) /\ WF_vars(ReaderCloseRest)

FairSpec == Spec /\ Fairness

----------------------------------------------------------------------------
(* What the body stands for, read as a whole.                              *)

\* Two data lines belong to one payload.
Together(i, j) ==
    CASE format = "jsonl" -> i = j
      [] format = "json" -> TRUE
      [] OTHER -> \A k \in DOMAIN lines : (i <= k /\ k <= j) \/ (j <= k /\ k <= i)
                                           => lines[k].kind = "data"

PayloadOf(i, n) == IF \E j \in 1..n : j # i /\ Together(i, j) THEN Raw ELSE lines[i].payload

\* The events of the first n lines: one payload after the other.
EventsOf(n) ==
    FlattenSeq([i \in 1..n |->
        IF lines[i].kind = "data" /\ \A j \in 1..n : Together(i, j) => j <= i
        THEN DecodeFramedPayload(PayloadOf(i, n), i) ELSE <<>>])
Expected == EventsOf(Len(lines))

IsDone(event) == event.type = "done"
UpToDone(events) ==
    LET dones == {i \in DOMAIN events : IsDone(events[i])}
    IN  IF dones = {} THEN events ELSE SubSeq(events, 1, CHOOSE i \in dones : \A j \in dones : i <= j)
TextOf(events) == FlattenSeq([i \in DOMAIN events |-> TextIn(events[i])])
Fails(events) == \E i \in DOMAIN events : events[i].type = "error"

----------------------------------------------------------------------------
(* Properties.                                                             *)

Stream == got \o ch

\* A stream without a failure of the decoder's own is the body, whole and in
\* order, whatever way it was cut into lines, frames and reads.  However it ended,
\* it has a Done, which consumers wait for: the agent's, or else the decoder's own
\* as its last event.
StreamIsBody ==
    LET dones == {i \in DOMAIN Stream : IsDone(Stream[i])}
        own == {i \in dones : Stream[i] = Done}
    IN  /\ chClosed => dones # {}
        /\ \A i \in own : i = Len(Stream) /\ dones = {i}
        /\ chClosed /\ Failure \notin Range(Stream) =>
              Expected = (IF own = {} THEN Stream ELSE Front(Stream))

\* Truncated text is never passed off as complete, although connections break
\* between lines and within them.  When CollectText returns without an error, the
\* text is all of what the agent sent.  When a reader that nobody closed meets its
\* end without having met an error, the agent has sent its Done and the text is
\* all that came before, or the body has ended and the text is all of it.
CompleteOrError ==
    /\ user = "collect" /\ result = "text" =>
          ~Fails(Expected) /\ text = TextOf(Expected)
    /\ user = "read" /\ result = "eof" /\ closing = "open" =>
          LET sent == UpToDone(EventsOf(rd))
          IN  /\ ~Fails(sent) /\ text = TextOf(sent)
              /\ (\E i \in DOMAIN sent : IsDone(sent[i])) \/ (link = "eof" /\ rd = Len(lines))

\* CollectText has returned, or the reader has been closed: the caller has left.
CallerLeft == (user = "collect" /\ result # "none") \/ closing = "closed"

\* When the caller has left, nothing but a full channel keeps the decoder's
\* goroutine: it may be waiting for a server that never sends another byte.
OnlyFullChannelHolds == CallerLeft ~> (dec = "gone" \/ [](Len(ch) = Capacity))

\* A Read returns after Close, although Close sets its flag under the reader's
\* feet and the reader may be past its last look at it.
ReadReturnsAfterClose == closing # "open" ~> rpc = "idle"

\* "the bridge contract guarantees that closing the stream returns goroutines"
CloseReturnsGoroutine == CallerLeft ~> dec = "gone"
=============================================================================
