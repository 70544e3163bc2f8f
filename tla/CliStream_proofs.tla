-------------------------- MODULE CliStream_proofs --------------------------
(***************************************************************************)
(* The event stream of a CLI agent, for any capacity of the channel, any   *)
(* size of the pipes and any number of lines: one Done, at the end, and    *)
(* every line of stderr before it.                                         *)
(***************************************************************************)
EXTENDS CliStream, TLAPS

\* What the pipes carry.
Lines == [kind : Kinds, line : 1..MaxLines]

\* The types the proofs need.
CliTypes ==
    /\ pipe \in [Pipes -> Seq(Lines)]
    /\ written \in [Pipes -> 0..MaxLines]
    /\ readable \in [Pipes -> BOOLEAN]
    /\ ch \in Seq(Events)
    /\ scan \in [Pipes -> {"scan", "send", "sendLast", "join", "wait", "sendExit", "sendDone", "through"}]
    /\ held \in [Pipes -> Seq(Events)]
    /\ got \in Seq(Events)

\* Who may still send: the Done comes after everybody else is through.
OrderInv ==
    /\ scan["stderr"] \in {"scan", "send", "sendLast", "through"}
    /\ scan["stdout"] \in {"wait", "sendExit", "sendDone", "through"} => scan["stderr"] = "through"
    /\ ~readable["stderr"] => scan["stderr"] = "through"
    /\ chClosed => \A p \in Pipes : scan[p] = "through"
    /\ \A i \in 1..Len(held["stdout"]) : held["stdout"][i].pipe = "stdout"

\* No event of the stream is a Done until stdout's goroutine sends it as its last.
DoneInv ==
    LET last == Len(Stream) IN
    /\ scan["stdout"] # "through" => \A i \in 1..last : Stream[i].type # "done"
    /\ scan["stdout"] = "through" =>
          /\ last >= 1 /\ Stream[last] = Done
          /\ \A i \in 1..(last - 1) : Stream[i].type # "done"

\* A line of stderr at a place of the stream.
IsLine(i) == Stream[i].pipe = "stderr" /\ Stream[i].type = "data"

\* What scanTextLines ends with when it cannot read on.
IsFailure(i) == Stream[i].pipe = "stderr" /\ Stream[i].type \in {"tooLong", "readError"}

\* The stream has the first n lines of stderr.
Listed(n) ==
    /\ \A i \in 1..Len(Stream) : IsLine(i) => Stream[i].line \in 1..n
    /\ \A m \in 1..n : \E i \in 1..Len(Stream) : IsLine(i) /\ Stream[i].line = m

\* The reading of stderr has failed, and the stream says so.
Failed == \E i \in 1..Len(Stream) : IsFailure(i)

\* stderr in the stream: lines in order, and perhaps a failure after them.
StderrOrder ==
    /\ \A i \in 1..Len(Stream) : Stream[i].pipe = "stderr" => IsLine(i) \/ IsFailure(i)
    /\ \A i, j \in 1..Len(Stream) : IsLine(i) /\ Stream[j].pipe = "stderr" /\ j < i =>
          IsLine(j) /\ Stream[j].line < Stream[i].line

\* The pipe holds the last lines the process wrote on stderr.
StderrPipe ==
    LET p == pipe["stderr"]
        w == written["stderr"]
    IN  /\ Len(p) <= w
        /\ \A i \in 1..Len(p) : p[i].line = w - Len(p) + i /\ p[i].kind \in {"data", "long"}

\* The goroutine holds at most the line before these, or the failure it ends with.
StderrHeld ==
    LET h == held["stderr"] IN
    /\ scan["stderr"] \in {"scan", "through"} => h = <<>>
    /\ Len(h) <= 1
    /\ \A i \in 1..Len(h) :
          /\ h[i].pipe = "stderr"
          /\ scan["stderr"] = "send" => h[i].type = "data" /\ h[i].line = written["stderr"] - Len(pipe["stderr"])
          /\ scan["stderr"] = "sendLast" => h[i].type \in {"tooLong", "readError"}

\* The stream has the lines before these: all of them once the reading has ended
\* without a failure, and then nobody writes any more.
StderrListed ==
    LET p == pipe["stderr"]
        w == written["stderr"]
        h == held["stderr"]
        s == scan["stderr"]
    IN  /\ h # <<>> => ~Failed
        /\ \E n \in 0..w :
              /\ Listed(n)
              /\ s \in {"scan", "send"} => ~Failed /\ n = w - Len(p) - Len(h)
              /\ s \in {"sendLast", "through"} =>
                    Failed \/ h # <<>> \/ (n = w /\ p = <<>> /\ ~HasWriter("stderr"))

\* Where every line of stderr is.
StderrInv == StderrOrder /\ StderrPipe /\ StderrHeld /\ StderrListed

\* The inductive invariant.
CliInv == CliTypes /\ OrderInv /\ DoneInv /\ StderrInv

----------------------------------------------------------------------------
(* Events and the stream                                                   *)

\* What the goroutines make of a line and of a failure.
LEMMA EventFacts ==
  ASSUME NEW p \in Pipes
  PROVE  /\ Done \in Events /\ Done.pipe = "none" /\ Done.type = "done"
         /\ \A why \in EventTypes : /\ Failure(p, why) \in Events
                                    /\ Failure(p, why).pipe = p /\ Failure(p, why).type = why
         /\ \A line \in Lines : /\ LineEvent(p, line) \in Events
                                /\ LineEvent(p, line).pipe = p /\ LineEvent(p, line).line = line.line
                                /\ line.kind \in {"data", "long"} => LineEvent(p, line).type = "data"
  <1>1. 0 \in 0..MaxLines /\ \A n \in 1..MaxLines : n \in 0..MaxLines
    BY BoundsAreNaturals
  <1>2. Done \in Events /\ Done.pipe = "none" /\ Done.type = "done"
    BY <1>1 DEF Done, Events, EventTypes
  <1>3. ASSUME NEW why \in EventTypes
        PROVE  Failure(p, why) \in Events /\ Failure(p, why).pipe = p /\ Failure(p, why).type = why
    BY <1>1 DEF Failure, Events
  <1>4. ASSUME NEW line \in Lines
        PROVE  /\ LineEvent(p, line) \in Events
               /\ LineEvent(p, line).pipe = p /\ LineEvent(p, line).line = line.line
               /\ line.kind \in {"data", "long"} => LineEvent(p, line).type = "data"
    <2>1. line.line \in 0..MaxLines /\ line.kind \in Kinds
      BY <1>1 DEF Lines
    <2> QED BY <2>1 DEF LineEvent, Events, EventTypes, Kinds
  <1> QED BY <1>2, <1>3, <1>4

\* A send adds its event at the end of the stream.
LEMMA StreamPut ==
  ASSUME CliTypes, NEW e \in Events, Put(e), UNCHANGED got
  PROVE  /\ Len(Stream) \in Nat /\ Stream \in Seq(Events)
         /\ Len(Stream)' = Len(Stream) + 1
         /\ Stream'[Len(Stream) + 1] = e
         /\ \A i \in 1..Len(Stream) : Stream'[i] = Stream[i]
  <1>1. got \in Seq(Events) /\ ch \in Seq(Events) /\ ch' = Append(ch, e) /\ got' = got
    BY DEF CliTypes, Put
  <1> HIDE DEF Events
  <1>2. got' \o ch' = Append(got \o ch, e) /\ got \o ch \in Seq(Events)
    BY <1>1
  <1> QED BY <1>2 DEF Stream

\* Recv takes nothing out of it.
LEMMA StreamRecv ==
  ASSUME CliTypes, Recv
  PROVE  Stream' = Stream
  <1>1. got \in Seq(Events) /\ ch \in Seq(Events) /\ ch # <<>> /\ ch' = Tail(ch) /\ got' = Append(got, Head(ch))
    BY DEF CliTypes, Recv
  <1> HIDE DEF Events
  <1>2. Head(ch) \in Events
    BY <1>1
  <1>3. got' \o ch' = got \o ch
    BY <1>1, <1>2
  <1> QED BY <1>3 DEF Stream

\* What a goroutine holds next.
LEMMA HeadHeld ==
  ASSUME CliTypes, NEW p \in Pipes, held[p] # <<>>
  PROVE  /\ Head(held[p]) \in Events /\ Head(held[p]) = held[p][1]
         /\ Tail(held[p]) \in Seq(Events) /\ Len(Tail(held[p])) = Len(held[p]) - 1
         /\ \A i \in 1..Len(Tail(held[p])) : Tail(held[p])[i] = held[p][i + 1]
         /\ Len(held[p]) \in Nat /\ Len(held[p]) >= 1
  <1>1. held[p] \in Seq(Events)
    BY DEF CliTypes
  <1> HIDE DEF Events
  <1> QED BY <1>1

\* What the process wrote first.
LEMMA HeadPipe ==
  ASSUME CliTypes, NEW p \in Pipes
  PROVE  /\ Len(pipe[p]) \in Nat /\ pipe[p] \in Seq(Lines) /\ (pipe[p] = <<>> <=> Len(pipe[p]) = 0)
         /\ pipe[p] # <<>> =>
              /\ Head(pipe[p]) \in Lines /\ Head(pipe[p]) = pipe[p][1]
              /\ Tail(pipe[p]) \in Seq(Lines) /\ Len(Tail(pipe[p])) = Len(pipe[p]) - 1
              /\ \A i \in 1..Len(Tail(pipe[p])) : Tail(pipe[p])[i] = pipe[p][i + 1]
  <1>1. pipe[p] \in Seq(Lines)
    BY DEF CliTypes
  <1> QED BY <1>1

\* Who adds to the stream.
LEMMA StreamSteps ==
  ASSUME CliTypes, [Next]_vars
  PROVE  \/ Stream' = Stream
         \/ \E p \in Pipes : /\ Send(p) /\ scan[p] \in {"send", "sendLast"} /\ held[p] # <<>> /\ UNCHANGED scan
                             /\ Head(held[p]).type # "done" /\ Put(Head(held[p])) /\ UNCHANGED got
         \/ SendExitError /\ scan["stdout"] = "sendExit" /\ scan' = [scan EXCEPT !["stdout"] = "sendDone"]
              /\ Put(Failure("stdout", "exitError")) /\ UNCHANGED got
         \/ SendDone /\ scan["stdout"] = "sendDone" /\ scan' = [scan EXCEPT !["stdout"] = "through"]
              /\ Put(Done) /\ UNCHANGED got
  <1>1. ASSUME UNCHANGED <<ch, got>>
        PROVE  Stream' = Stream
    BY <1>1 DEF Stream
  <1>2. ASSUME NEW p \in Pipes, Write(p) \/ Release(p) \/ ScanLine(p) \/ ScanEOF(p) \/ ScanError(p) \/ Sent(p)
        PROVE  Stream' = Stream
    BY <1>1, <1>2 DEF Write, Release, ScanLine, ScanEOF, ScanError, Sent
  <1>3. ASSUME NEW p \in Pipes, Send(p)
        PROVE  \/ Stream' = Stream
               \/ /\ scan[p] \in {"send", "sendLast"} /\ held[p] # <<>> /\ UNCHANGED scan
                  /\ Head(held[p]).type # "done" /\ Put(Head(held[p])) /\ UNCHANGED got
    BY <1>1, <1>3 DEF Send, EmitEvent
  <1>4. CASE Exit \/ CancelContext \/ JoinStderr \/ WaitProcess \/ CloseChannel \/ RecvEnded \/ Close \/ Stopped
             \/ UNCHANGED vars
    BY <1>1, <1>4 DEF Exit, CancelContext, JoinStderr, WaitProcess, CloseChannel, RecvEnded, Close, Stopped, vars
  <1>5. CASE SendExitError
    BY <1>5 DEF SendExitError
  <1>6. CASE SendDone
    BY <1>6 DEF SendDone
  <1>7. CASE Recv
    BY <1>7, StreamRecv
  <1> QED BY <1>2, <1>3, <1>4, <1>5, <1>6, <1>7 DEF Next, Producer, Finish

----------------------------------------------------------------------------
(* Types                                                                   *)

\* Every step keeps the types.
LEMMA CliTypesStep ==
  ASSUME CliTypes, [Next]_vars
  PROVE  CliTypes'
  <1>1. ASSUME NEW p \in Pipes, Write(p)
        PROVE  CliTypes'
    <2>1. PICK k \in Kinds : pipe' = [pipe EXCEPT ![p] = Append(@, [kind |-> k, line |-> written[p] + 1])]
      BY <1>1 DEF Write, LineKinds, Pipes, Kinds
    <2>2. written[p] + 1 \in 1..MaxLines /\ written[p] + 1 \in 0..MaxLines
      <3>1. written[p] \in 0..MaxLines
        BY DEF CliTypes
      <3>2. written[p] < MaxLines
        BY <1>1 DEF Write
      <3> QED BY <3>1, <3>2, BoundsAreNaturals
    <2>3. [kind |-> k, line |-> written[p] + 1] \in Lines
      BY <2>2 DEF Lines
    <2>4. pipe' \in [Pipes -> Seq(Lines)]
      BY <2>1, <2>3 DEF CliTypes
    <2> QED BY <1>1, <2>2, <2>4 DEF Write, CliTypes
  <1>2. ASSUME NEW p \in Pipes, ScanLine(p)
        PROVE  CliTypes'
    <2>1. PICK line \in Lines : line = Head(pipe[p])
      BY <1>2, HeadPipe DEF ScanLine
    <2>2. PICK e \in Events : held' = [held EXCEPT ![p] = Append(@, e)]
      <3>1. "tooLong" \in EventTypes
        BY DEF EventTypes
      <3> QED BY <1>2, <2>1, <3>1, EventFacts DEF ScanLine
    <2>3. held' \in [Pipes -> Seq(Events)]
      BY <2>2 DEF CliTypes
    <2>4. pipe' \in [Pipes -> Seq(Lines)]
      BY <1>2, HeadPipe DEF CliTypes, ScanLine
    <2>5. scan' \in [Pipes -> {"scan", "send", "sendLast", "join", "wait", "sendExit", "sendDone", "through"}]
      BY <1>2 DEF CliTypes, ScanLine
    <2> QED BY <1>2, <2>3, <2>4, <2>5 DEF CliTypes, ScanLine
  <1>3. ASSUME NEW p \in Pipes, ScanEOF(p) \/ ScanError(p)
        PROVE  CliTypes'
    <2>1. PICK h \in Seq(Events) : held' = [held EXCEPT ![p] = h]
      <3>1. \A why \in {"bad", "readError", "cut"} : <<Failure(p, why)>> \in Seq(Events)
        <4>1. \A why \in {"bad", "readError", "cut"} : Failure(p, why) \in Events
          BY EventFacts DEF EventTypes
        <4> HIDE DEF Events
        <4> QED BY <4>1
      <3> QED BY <1>3, <3>1 DEF ScanEOF, ScanError, CliTypes
    <2> QED BY <1>3, <2>1 DEF ScanEOF, ScanError, CliTypes
  <1>4. ASSUME NEW e \in Events, Put(e)
        PROVE  ch' \in Seq(Events)
    <2> HIDE DEF Events
    <2> QED BY <1>4 DEF Put, CliTypes
  <1>5. ASSUME NEW p \in Pipes, Send(p)
        PROVE  CliTypes'
    <2>1. held[p] # <<>> /\ held' = [held EXCEPT ![p] = Tail(@)]
      BY <1>5 DEF Send
    <2>2. held' \in [Pipes -> Seq(Events)]
      BY <2>1, HeadHeld DEF CliTypes
    <2>3. PICK e \in Events : e = Head(held[p])
      BY <2>1, HeadHeld
    <2>4. ch' \in Seq(Events)
      BY <1>4, <1>5, <2>3 DEF Send, EmitEvent, CliTypes
    <2> QED BY <1>5, <2>2, <2>4 DEF Send, CliTypes
  <1>6. ASSUME NEW p \in Pipes, Sent(p)
        PROVE  CliTypes'
    BY <1>6 DEF Sent, CliTypes
  <1>7. CASE SendExitError \/ SendDone
    <2>1. PICK e \in Events : Put(e)
      BY <1>7, EventFacts DEF SendExitError, SendDone, EventTypes, Pipes
    <2> QED BY <1>4, <1>7, <2>1 DEF SendExitError, SendDone, CliTypes
  <1>8. CASE JoinStderr \/ WaitProcess
    BY <1>8 DEF JoinStderr, WaitProcess, CliTypes
  <1>9. CASE Recv
    <2> HIDE DEF Events
    <2>1. ch' \in Seq(Events) /\ got' \in Seq(Events)
      BY <1>9 DEF Recv, CliTypes
    <2> QED BY <1>9, <2>1 DEF Recv, CliTypes
  <1>10. CASE \/ Exit \/ CancelContext \/ (\E p \in Pipes : Release(p))
              \/ CloseChannel \/ RecvEnded \/ Close \/ Stopped \/ UNCHANGED vars
    BY <1>10 DEF Exit, CancelContext, Release, CloseChannel, RecvEnded, Close, Stopped, vars, CliTypes
  <1> QED BY <1>1, <1>2, <1>3, <1>5, <1>6, <1>7, <1>8, <1>9, <1>10 DEF Next, Producer, Finish

----------------------------------------------------------------------------
(* The order in which the goroutines end                                   *)

\* Every step keeps it.
LEMMA OrderStep ==
  ASSUME CliTypes, OrderInv, [Next]_vars
  PROVE  OrderInv'
  <1> USE DEF OrderInv, CliTypes
  <1>1. "stdout" \in Pipes /\ "stderr" \in Pipes /\ \A p \in Pipes : p = "stdout" \/ p = "stderr"
    BY DEF Pipes
  <1> DEFINE Ours(p) == \A i \in 1..Len(held'[p]) : held'[p][i].pipe = p
  <1>2. ASSUME NEW p \in Pipes, Write(p)
        PROVE  OrderInv'
    BY <1>2 DEF Write
  <1>3. ASSUME NEW p \in Pipes, ScanLine(p)
        PROVE  OrderInv'
    <2>1. PICK e \in Events : held' = [held EXCEPT ![p] = Append(@, e)] /\ e.pipe = p
      <3>1. "tooLong" \in EventTypes
        BY DEF EventTypes
      <3>2. PICK line \in Lines : line = Head(pipe[p])
        BY <1>3, HeadPipe DEF ScanLine
      <3>3. /\ Failure(p, "tooLong") \in Events /\ Failure(p, "tooLong").pipe = p
            /\ LineEvent(p, line) \in Events /\ LineEvent(p, line).pipe = p
        BY <3>1, EventFacts
      <3>4. \/ held' = [held EXCEPT ![p] = Append(@, Failure(p, "tooLong"))]
            \/ held' = [held EXCEPT ![p] = Append(@, LineEvent(p, line))]
        BY <1>3, <3>2 DEF ScanLine
      <3> QED BY <3>3, <3>4
    <2>2. p = "stdout" => Ours("stdout")
      <3>1. held[p] \in Seq(Events)
        OBVIOUS
      <3>2. held'[p] = Append(held[p], e) /\ e.pipe = p
        BY <2>1
      <3>3. p = "stdout" => \A i \in 1..Len(held[p]) : held[p][i].pipe = p
        OBVIOUS
      <3> HIDE DEF Events, CliTypes, OrderInv
      <3> QED BY <3>1, <3>2, <3>3
    <2>3. p # "stdout" => held'["stdout"] = held["stdout"]
      BY <1>1, <2>1
    <2>4. /\ scan[p] = "scan" /\ UNCHANGED <<readable, chClosed>>
          /\ scan'[p] \in {"scan", "send", "sendLast"} /\ \A q \in Pipes \ {p} : scan'[q] = scan[q]
      BY <1>3 DEF ScanLine
    <2>5. scan'["stderr"] \in {"scan", "send", "sendLast", "through"}
      BY <1>1, <2>4
    <2> QED BY <1>1, <2>2, <2>3, <2>4, <2>5
  <1>4. ASSUME NEW p \in Pipes, ScanEOF(p) \/ ScanError(p)
        PROVE  OrderInv'
    <2>1. p = "stdout" => Ours("stdout")
      <3>1. \A why \in {"bad", "readError", "cut"} :
              Len(<<Failure(p, why)>>) = 1 /\ <<Failure(p, why)>>[1].pipe = p
        BY EventFacts DEF EventTypes
      <3>2. CASE held' = held
        BY <3>2
      <3>3. CASE \E why \in {"bad", "readError", "cut"} : held' = [held EXCEPT ![p] = <<Failure(p, why)>>]
        BY <3>1, <3>3
      <3>4. \/ held' = [held EXCEPT ![p] = held[p]]
            \/ \E why \in {"bad", "readError", "cut"} : held' = [held EXCEPT ![p] = <<Failure(p, why)>>]
        BY <1>4 DEF ScanEOF, ScanError
      <3>5. [held EXCEPT ![p] = held[p]] = held
        OBVIOUS
      <3> QED BY <3>2, <3>3, <3>4, <3>5
    <2>2. p # "stdout" => held'["stdout"] = held["stdout"]
      BY <1>1, <1>4 DEF ScanEOF, ScanError
    <2>3. /\ scan[p] = "scan" /\ UNCHANGED <<readable, chClosed>>
          /\ scan'[p] = "sendLast" /\ \A q \in Pipes \ {p} : scan'[q] = scan[q]
      BY <1>4 DEF ScanEOF, ScanError
    <2> QED BY <1>1, <2>1, <2>2, <2>3
  <1>5. ASSUME NEW p \in Pipes, Send(p)
        PROVE  OrderInv'
    <2>1. UNCHANGED <<scan, readable, chClosed>> /\ held[p] # <<>> /\ held' = [held EXCEPT ![p] = Tail(@)]
      BY <1>5 DEF Send
    <2>2. p = "stdout" => Ours("stdout")
      BY <2>1, HeadHeld
    <2>3. p # "stdout" => held'["stdout"] = held["stdout"]
      BY <1>1, <2>1
    <2> QED BY <1>1, <2>1, <2>2, <2>3
  <1>6. ASSUME NEW p \in Pipes, Sent(p)
        PROVE  OrderInv'
    BY <1>1, <1>6 DEF Sent
  <1>7. CASE JoinStderr \/ WaitProcess \/ SendExitError \/ SendDone
    BY <1>1, <1>7 DEF JoinStderr, WaitProcess, SendExitError, SendDone
  <1>8. CASE CloseChannel
    BY <1>1, <1>8 DEF CloseChannel
  <1>9. CASE \/ Exit \/ CancelContext \/ (\E p \in Pipes : Release(p))
             \/ Recv \/ RecvEnded \/ Close \/ Stopped \/ UNCHANGED vars
    BY <1>9 DEF Exit, CancelContext, Release, Recv, RecvEnded, Close, Stopped, vars
  <1> QED BY <1>2, <1>3, <1>4, <1>5, <1>6, <1>7, <1>8, <1>9 DEF Next, Producer, Finish

\* When stdout's goroutine is through.
LEMMA ThroughSteps ==
  ASSUME CliTypes, [Next]_vars, ~SendDone
  PROVE  scan'["stdout"] = "through" <=> scan["stdout"] = "through"
  <1> USE DEF CliTypes
  <1>1. "stdout" \in Pipes
    BY DEF Pipes
  <1>2. ASSUME NEW p \in Pipes, Write(p) \/ Release(p) \/ Producer(p)
        PROVE  scan'["stdout"] = "through" <=> scan["stdout"] = "through"
    <2>1. CASE p = "stdout"
      BY <1>1, <1>2, <2>1 DEF Write, Release, Producer, ScanLine, ScanEOF, ScanError, Send, Sent
    <2>2. CASE p # "stdout"
      BY <1>1, <1>2, <2>2 DEF Write, Release, Producer, ScanLine, ScanEOF, ScanError, Send, Sent
    <2> QED BY <2>1, <2>2
  <1>3. CASE JoinStderr \/ WaitProcess \/ SendExitError \/ CloseChannel
    BY <1>1, <1>3 DEF JoinStderr, WaitProcess, SendExitError, CloseChannel
  <1>4. CASE Exit \/ CancelContext \/ Recv \/ RecvEnded \/ Close \/ Stopped \/ UNCHANGED vars
    BY <1>4 DEF Exit, CancelContext, Recv, RecvEnded, Close, Stopped, vars
  <1> QED BY <1>2, <1>3, <1>4 DEF Next, Finish

\* The Done is the last event: nobody is left to send another.
LEMMA DoneStep ==
  ASSUME CliTypes, OrderInv, DoneInv, [Next]_vars
  PROVE  DoneInv'
  <1>1. CASE Stream' = Stream /\ ~SendDone
    BY <1>1, ThroughSteps DEF DoneInv
  <1>2. ASSUME NEW e \in Events, Put(e), UNCHANGED got, e.type # "done", ~SendDone, scan["stdout"] # "through"
        PROVE  DoneInv'
    <2>1. scan'["stdout"] # "through"
      BY <1>2, ThroughSteps
    <2> QED BY <1>2, <2>1, StreamPut DEF DoneInv
  <1>3. ASSUME NEW p \in Pipes, Send(p), scan[p] \in {"send", "sendLast"}, held[p] # <<>>, UNCHANGED scan,
               Head(held[p]).type # "done", Put(Head(held[p])), UNCHANGED got
        PROVE  DoneInv'
    <2>1. PICK e \in Events : e = Head(held[p])
      BY <1>3, HeadHeld
    <2>2. scan["stdout"] # "through" /\ ~SendDone
      BY <1>3 DEF OrderInv, SendDone, Pipes, CliTypes
    <2> QED BY <1>2, <1>3, <2>1, <2>2
  <1>4. CASE SendExitError
    <2>1. PICK e \in Events : e = Failure("stdout", "exitError") /\ e.type # "done"
      BY EventFacts DEF EventTypes, Pipes
    <2>2. Put(e) /\ UNCHANGED got /\ scan["stdout"] # "through" /\ ~SendDone
      BY <1>4, <2>1 DEF SendExitError, SendDone
    <2> QED BY <1>2, <2>1, <2>2
  <1>5. CASE SendDone
    <2>1. PICK e \in Events : e = Done
      BY EventFacts DEF Pipes
    <2>2. Put(e) /\ UNCHANGED got /\ scan["stdout"] # "through" /\ scan'["stdout"] = "through"
      BY <1>5, <2>1 DEF SendDone, CliTypes, Pipes
    <2> QED BY <2>1, <2>2, StreamPut DEF DoneInv
  <1> QED BY <1>1, <1>3, <1>4, <1>5, StreamSteps

----------------------------------------------------------------------------
(* What a new event does to stderr's part of the stream                    *)

\* An event of another pipe.
LEMMA PutOther ==
  ASSUME CliTypes, StderrOrder, NEW e \in Events, Put(e), UNCHANGED got, e.pipe # "stderr"
  PROVE  StderrOrder' /\ (Failed' <=> Failed) /\ \A n \in Nat : Listed(n)' <=> Listed(n)
  <1>0. PICK N \in Nat : N = Len(Stream)
    BY StreamPut
  <1>1. /\ N \in Nat /\ Len(Stream)' = N + 1
        /\ \A i \in 1..(N + 1) : (IsLine(i)' \/ IsFailure(i)' \/ Stream'[i].pipe = "stderr") => i \in 1..N
        /\ \A i \in 1..N : Stream'[i] = Stream[i]
    BY <1>0, StreamPut DEF IsLine, IsFailure
  <1>2. \A i \in 1..N : (IsLine(i)' <=> IsLine(i)) /\ (IsFailure(i)' <=> IsFailure(i)) /\ i \in 1..(N + 1)
    BY <1>1 DEF IsLine, IsFailure
  <1>3. StderrOrder'
    BY <1>0, <1>1, <1>2 DEF StderrOrder
  <1>4. Failed' <=> Failed
    BY <1>0, <1>1, <1>2 DEF Failed
  <1>5. ASSUME NEW n \in Nat
        PROVE  Listed(n)' <=> Listed(n)
    BY <1>0, <1>1, <1>2 DEF Listed
  <1> QED BY <1>3, <1>4, <1>5

\* The next line of stderr.
LEMMA PutLine ==
  ASSUME CliTypes, StderrOrder, NEW n \in Nat, Listed(n), ~Failed,
         NEW e \in Events, Put(e), UNCHANGED got, e.pipe = "stderr", e.type = "data", e.line = n + 1
  PROVE  StderrOrder' /\ ~Failed' /\ Listed(n + 1)'
  <1>0. PICK N \in Nat : N = Len(Stream)
    BY StreamPut
  <1>1. /\ N \in Nat /\ Len(Stream)' = N + 1 /\ Stream'[N + 1] = e
        /\ \A i \in 1..N : Stream'[i] = Stream[i]
    BY <1>0, StreamPut
  <1>2. /\ \A i \in 1..N : (IsLine(i)' <=> IsLine(i)) /\ (IsFailure(i)' <=> IsFailure(i)) /\ i \in 1..(N + 1)
        /\ IsLine(N + 1)' /\ ~IsFailure(N + 1)' /\ N + 1 \in 1..(N + 1)
        /\ \A i \in 1..(N + 1) : i \in 1..N \/ i = N + 1
    BY <1>1 DEF IsLine, IsFailure
  <1>3. ~Failed'
    BY <1>0, <1>1, <1>2 DEF Failed
  <1>4. \A j \in 1..N : Stream[j].pipe = "stderr" => IsLine(j) /\ Stream[j].line \in 1..n
    BY <1>0 DEF StderrOrder, Failed, Listed
  <1>5. StderrOrder'
    <2>1. ASSUME NEW i \in 1..(N + 1), Stream'[i].pipe = "stderr"
          PROVE  IsLine(i)' \/ IsFailure(i)'
      BY <1>0, <1>1, <1>2, <2>1 DEF StderrOrder
    <2>2. ASSUME NEW i \in 1..(N + 1), NEW j \in 1..(N + 1), IsLine(i)', Stream'[j].pipe = "stderr", j < i
          PROVE  IsLine(j)' /\ Stream'[j].line < Stream'[i].line
      <3>1. j \in 1..N
        BY <1>1, <2>2
      <3>2. CASE i = N + 1
        BY <1>1, <1>2, <1>4, <2>2, <3>1, <3>2
      <3>3. CASE i \in 1..N
        BY <1>0, <1>1, <1>2, <2>2, <3>1, <3>3 DEF StderrOrder
      <3> QED BY <1>2, <3>2, <3>3
    <2> QED BY <1>0, <1>1, <2>1, <2>2 DEF StderrOrder
  <1>6. Listed(n + 1)'
    <2>1. ASSUME NEW i \in 1..(N + 1), IsLine(i)'
          PROVE  Stream'[i].line \in 1..(n + 1)
      <3>1. CASE i = N + 1
        BY <1>1, <3>1
      <3>2. CASE i \in 1..N
        BY <1>0, <1>1, <1>2, <2>1, <3>2 DEF Listed
      <3> QED BY <1>2, <3>1, <3>2
    <2>2. ASSUME NEW m \in 1..(n + 1)
          PROVE  \E i \in 1..(N + 1) : IsLine(i)' /\ Stream'[i].line = m
      <3>1. CASE m = n + 1
        BY <1>1, <1>2, <3>1
      <3>2. CASE m # n + 1
        <4>1. PICK i \in 1..N : IsLine(i) /\ Stream[i].line = m
          BY <1>0, <3>2 DEF Listed
        <4> QED BY <1>1, <1>2, <4>1
      <3> QED BY <3>1, <3>2
    <2> QED BY <1>0, <1>1, <2>1, <2>2 DEF Listed
  <1> QED BY <1>3, <1>5, <1>6

\* The failure that ends the reading of stderr.
LEMMA PutFailure ==
  ASSUME CliTypes, StderrOrder, NEW e \in Events, Put(e), UNCHANGED got,
         e.pipe = "stderr", e.type \in {"tooLong", "readError"}
  PROVE  StderrOrder' /\ Failed' /\ \A n \in Nat : Listed(n) => Listed(n)'
  <1>0. PICK N \in Nat : N = Len(Stream)
    BY StreamPut
  <1>1. /\ N \in Nat /\ Len(Stream)' = N + 1 /\ Stream'[N + 1] = e
        /\ \A i \in 1..N : Stream'[i] = Stream[i]
    BY <1>0, StreamPut
  <1>2. /\ \A i \in 1..N : (IsLine(i)' <=> IsLine(i)) /\ (IsFailure(i)' <=> IsFailure(i)) /\ i \in 1..(N + 1)
        /\ ~IsLine(N + 1)' /\ IsFailure(N + 1)' /\ N + 1 \in 1..(N + 1)
        /\ \A i \in 1..(N + 1) : i \in 1..N \/ i = N + 1
    BY <1>1 DEF IsLine, IsFailure
  <1>3. Failed'
    BY <1>0, <1>1, <1>2 DEF Failed
  <1>4. StderrOrder'
    <2>1. ASSUME NEW i \in 1..(N + 1), Stream'[i].pipe = "stderr"
          PROVE  IsLine(i)' \/ IsFailure(i)'
      BY <1>0, <1>1, <1>2, <2>1 DEF StderrOrder
    <2>2. ASSUME NEW i \in 1..(N + 1), NEW j \in 1..(N + 1), IsLine(i)', Stream'[j].pipe = "stderr", j < i
          PROVE  IsLine(j)' /\ Stream'[j].line < Stream'[i].line
      <3>1. i \in 1..N /\ j \in 1..N
        BY <1>1, <1>2, <2>2
      <3> QED BY <1>0, <1>1, <1>2, <2>2, <3>1 DEF StderrOrder
    <2> QED BY <1>0, <1>1, <2>1, <2>2 DEF StderrOrder
  <1>5. ASSUME NEW n \in Nat, Listed(n)
        PROVE  Listed(n)'
    <2>1. ASSUME NEW i \in 1..(N + 1), IsLine(i)'
          PROVE  Stream'[i].line \in 1..n
      BY <1>0, <1>1, <1>2, <1>5, <2>1 DEF Listed
    <2>2. ASSUME NEW m \in 1..n
          PROVE  \E i \in 1..(N + 1) : IsLine(i)' /\ Stream'[i].line = m
      <3>1. PICK i \in 1..N : IsLine(i) /\ Stream[i].line = m
        BY <1>0, <1>5 DEF Listed
      <3> QED BY <1>1, <1>2, <3>1
    <2> QED BY <1>0, <1>1, <2>1, <2>2 DEF Listed
  <1> QED BY <1>3, <1>4, <1>5

----------------------------------------------------------------------------
(* The lines of stderr                                                     *)

\* A stream that stays as it is.
LEMMA StreamStays ==
  ASSUME Stream' = Stream
  PROVE  (StderrOrder => StderrOrder') /\ (Failed' <=> Failed) /\ \A n \in Nat : Listed(n)' <=> Listed(n)
  BY DEF StderrOrder, Failed, Listed, IsLine, IsFailure

\* A step in which stderr's goroutine and pipe have no part.
LEMMA StderrFrame ==
  ASSUME CliTypes, OrderInv, StderrInv, StderrOrder', Failed' <=> Failed, \A n \in Nat : Listed(n)' <=> Listed(n),
         UNCHANGED <<pipe["stderr"], written["stderr"], held["stderr"], scan["stderr"]>>,
         ~HasWriter("stderr") => ~HasWriter("stderr")'
  PROVE  StderrInv'
  <1>1. StderrPipe'
    BY DEF StderrInv, StderrPipe
  <1>2. StderrHeld'
    BY DEF StderrInv, StderrHeld
  <1>3. StderrListed'
    <2>1. written["stderr"] \in Nat
      BY DEF CliTypes, Pipes
    <2>2. PICK n \in 0..written["stderr"] :
            /\ Listed(n)
            /\ scan["stderr"] \in {"scan", "send"} =>
                 ~Failed /\ n = written["stderr"] - Len(pipe["stderr"]) - Len(held["stderr"])
            /\ scan["stderr"] \in {"sendLast", "through"} =>
                 Failed \/ held["stderr"] # <<>>
                 \/ (n = written["stderr"] /\ pipe["stderr"] = <<>> /\ ~HasWriter("stderr"))
      BY DEF StderrInv, StderrListed
    <2>3. Listed(n)'
      BY <2>1, <2>2
    <2> QED BY <2>2, <2>3 DEF StderrInv, StderrListed
  <1> QED BY <1>1, <1>2, <1>3 DEF StderrInv

\* The process writes a line on stderr.
LEMMA StderrWritten ==
  ASSUME CliTypes, OrderInv, StderrInv, Write("stderr")
  PROVE  StderrInv'
  <1>0. "stderr" \in Pipes
    BY DEF Pipes
  <1>1. Stream' = Stream
    BY DEF Write, Stream
  <1>2. PICK k \in {"data", "long"} :
          pipe' = [pipe EXCEPT !["stderr"] = Append(@, [kind |-> k, line |-> written["stderr"] + 1])]
    BY DEF Write, LineKinds
  <1>3. /\ HasWriter("stderr") /\ UNCHANGED <<process, heirs, scan, held>>
        /\ written["stderr"] \in Nat /\ written'["stderr"] = written["stderr"] + 1
    BY <1>0 DEF Write, CliTypes
  <1>4. written["stderr"] + 1 \in 1..MaxLines
    BY <1>0, BoundsAreNaturals DEF Write, CliTypes
  <1>5. PICK line \in Lines : line.kind = k /\ line.line = written["stderr"] + 1
                              /\ pipe' = [pipe EXCEPT !["stderr"] = Append(@, line)]
    <2>1. [kind |-> k, line |-> written["stderr"] + 1] \in Lines
      BY <1>4 DEF Lines, Kinds
    <2> QED BY <1>2, <2>1
  <1>6. /\ Len(pipe["stderr"]) \in Nat /\ Len(pipe'["stderr"]) = Len(pipe["stderr"]) + 1
        /\ pipe'["stderr"][Len(pipe["stderr"]) + 1] = line
        /\ \A i \in 1..Len(pipe["stderr"]) : pipe'["stderr"][i] = pipe["stderr"][i]
    <2>1. pipe["stderr"] \in Seq(Lines) /\ pipe'["stderr"] = Append(pipe["stderr"], line)
      BY <1>0, <1>5 DEF CliTypes
    <2> QED BY <2>1
  <1>7. written'["stderr"] - Len(pipe'["stderr"]) = written["stderr"] - Len(pipe["stderr"])
    <2>1. PICK w \in Nat : w = written["stderr"] /\ written'["stderr"] = w + 1
      BY <1>3
    <2>2. PICK l \in Nat : l = Len(pipe["stderr"]) /\ Len(pipe'["stderr"]) = l + 1
      BY <1>6
    <2>3. (w + 1) - (l + 1) = w - l
      OBVIOUS
    <2> QED BY <2>1, <2>2, <2>3
  <1>8. StderrPipe'
    <2>1. Len(pipe["stderr"]) <= written["stderr"]
      BY DEF StderrInv, StderrPipe
    <2>2. ASSUME NEW i \in 1..Len(pipe'["stderr"])
          PROVE  /\ pipe'["stderr"][i].line = written'["stderr"] - Len(pipe'["stderr"]) + i
                 /\ pipe'["stderr"][i].kind \in {"data", "long"}
      <3>1. CASE i = Len(pipe["stderr"]) + 1
        BY <1>3, <1>5, <1>6, <3>1
      <3>2. CASE i # Len(pipe["stderr"]) + 1
        <4>1. i \in 1..Len(pipe["stderr"]) /\ pipe'["stderr"][i] = pipe["stderr"][i]
          BY <1>6, <3>2
        <4>2. /\ pipe["stderr"][i].line = written["stderr"] - Len(pipe["stderr"]) + i
              /\ pipe["stderr"][i].kind \in {"data", "long"}
          BY <4>1 DEF StderrInv, StderrPipe
        <4> QED BY <1>7, <4>1, <4>2
      <3> QED BY <3>1, <3>2
    <2> QED BY <1>3, <1>6, <2>1, <2>2 DEF StderrPipe
  <1>9. StderrHeld'
    BY <1>3, <1>7 DEF StderrInv, StderrHeld
  <1>10. StderrListed'
    <2>1. PICK n \in 0..written["stderr"] :
            /\ Listed(n)
            /\ scan["stderr"] \in {"scan", "send"} =>
                 ~Failed /\ n = written["stderr"] - Len(pipe["stderr"]) - Len(held["stderr"])
            /\ scan["stderr"] \in {"sendLast", "through"} => Failed \/ held["stderr"] # <<>>
      BY <1>3 DEF StderrInv, StderrListed
    <2>2. Listed(n)' /\ (Failed' <=> Failed) /\ n \in 0..written'["stderr"]
      BY <1>1, <1>3, <2>1, StreamStays
    <2>3. scan'["stderr"] \in {"scan", "send"} =>
            ~Failed' /\ n = written'["stderr"] - Len(pipe'["stderr"]) - Len(held'["stderr"])
      BY <1>3, <1>7, <2>1, <2>2
    <2> QED BY <1>3, <2>1, <2>2, <2>3 DEF StderrInv, StderrListed
  <1> QED BY <1>1, <1>8, <1>9, <1>10, StreamStays DEF StderrInv

\* What the goroutine of stderr does with a line: its event is sent next, or the
\* failure with which it ends.
LEMMA StderrScanned ==
  ASSUME CliTypes, OrderInv, StderrInv, ScanLine("stderr")
  PROVE  StderrInv'
  <1>0. "stderr" \in Pipes
    BY DEF Pipes
  <1>1. Stream' = Stream
    BY DEF ScanLine, Stream
  <1>2. /\ scan["stderr"] = "scan" /\ pipe["stderr"] # <<>> /\ held["stderr"] = <<>>
        /\ UNCHANGED <<written, process, heirs>> /\ pipe'["stderr"] = Tail(pipe["stderr"])
    BY <1>0 DEF ScanLine, CliTypes, StderrInv, StderrHeld
  <1>3. /\ Len(pipe["stderr"]) \in Nat /\ Len(pipe["stderr"]) >= 1
        /\ Len(pipe'["stderr"]) = Len(pipe["stderr"]) - 1
        /\ \A i \in 1..Len(pipe'["stderr"]) : pipe'["stderr"][i] = pipe["stderr"][i + 1]
    BY <1>0, <1>2, HeadPipe
  <1>4. PICK w \in Nat : w = written["stderr"] /\ w = written'["stderr"] /\ Len(pipe["stderr"]) <= w
    BY <1>0, <1>2 DEF CliTypes, StderrInv, StderrPipe
  <1>5. PICK line \in Lines : /\ line = Head(pipe["stderr"])
                              /\ line.kind \in {"data", "long"} /\ line.line = w - Len(pipe'["stderr"])
    <2>1. Head(pipe["stderr"]) \in Lines /\ Head(pipe["stderr"]) = pipe["stderr"][1]
      BY <1>0, <1>2, HeadPipe
    <2>2. /\ pipe["stderr"][1].kind \in {"data", "long"}
          /\ pipe["stderr"][1].line = w - Len(pipe["stderr"]) + 1
      BY <1>3, <1>4 DEF StderrInv, StderrPipe
    <2>3. w - Len(pipe["stderr"]) + 1 = w - Len(pipe'["stderr"])
      BY <1>3, <1>4
    <2> QED BY <2>1, <2>2, <2>3
  <1>6. PICK e \in Events :
          /\ e.pipe = "stderr" /\ held'["stderr"] = <<e>>
          /\ \/ scan'["stderr"] = "send" /\ e.type = "data" /\ e.line = w - Len(pipe'["stderr"])
             \/ scan'["stderr"] = "sendLast" /\ e.type = "tooLong"
    <2>1. /\ Failure("stderr", "tooLong") \in Events /\ Failure("stderr", "tooLong").pipe = "stderr"
          /\ Failure("stderr", "tooLong").type = "tooLong"
          /\ LineEvent("stderr", line) \in Events /\ LineEvent("stderr", line).pipe = "stderr"
          /\ LineEvent("stderr", line).type = "data" /\ LineEvent("stderr", line).line = line.line
      BY <1>0, <1>5, EventFacts DEF EventTypes
    <2>2. ~ReadsAll("stderr")
      BY DEF ReadsAll
    <2>3. CASE line.kind = "long"
      BY <1>0, <1>2, <1>5, <2>1, <2>2, <2>3 DEF ScanLine, CliTypes
    <2>4. CASE line.kind # "long"
      BY <1>0, <1>2, <1>5, <2>1, <2>2, <2>4 DEF ScanLine, CliTypes
    <2> QED BY <2>3, <2>4
  <1>7. held'["stderr"] # <<>> /\ Len(held'["stderr"]) = 1 /\ held'["stderr"][1] = e
    BY <1>6
  <1>8. StderrPipe'
    <2>1. ASSUME NEW i \in 1..Len(pipe'["stderr"])
          PROVE  /\ pipe'["stderr"][i].line = w - Len(pipe'["stderr"]) + i
                 /\ pipe'["stderr"][i].kind \in {"data", "long"}
      <3>1. i + 1 \in 1..Len(pipe["stderr"]) /\ pipe'["stderr"][i] = pipe["stderr"][i + 1]
        BY <1>3
      <3>2. /\ pipe["stderr"][i + 1].line = w - Len(pipe["stderr"]) + (i + 1)
            /\ pipe["stderr"][i + 1].kind \in {"data", "long"}
        BY <1>4, <3>1 DEF StderrInv, StderrPipe
      <3>3. w - Len(pipe["stderr"]) + (i + 1) = w - Len(pipe'["stderr"]) + i
        BY <1>3
      <3> QED BY <3>1, <3>2, <3>3
    <2> QED BY <1>3, <1>4, <2>1 DEF StderrPipe
  <1>9. StderrHeld'
    BY <1>4, <1>6, <1>7 DEF StderrHeld
  <1>10. StderrListed'
    <2>1. PICK n \in 0..w : Listed(n) /\ ~Failed /\ n = w - Len(pipe["stderr"])
      <3>1. Len(held["stderr"]) = 0
        BY <1>2
      <3> QED BY <1>2, <1>3, <1>4, <3>1 DEF StderrInv, StderrListed
    <2>2. Listed(n)' /\ ~Failed'
      BY <1>1, <2>1, StreamStays
    <2>3. n = w - Len(pipe'["stderr"]) - Len(held'["stderr"])
      BY <1>3, <1>7, <2>1
    <2> QED BY <1>4, <1>7, <2>2, <2>3 DEF StderrListed
  <1> QED BY <1>1, <1>8, <1>9, <1>10, StreamStays DEF StderrInv

\* The reading of stderr ends, with the pipe or with an error of the read; the
\* reading end is open, because cmd.Wait comes later.
LEMMA StderrEnded ==
  ASSUME CliTypes, OrderInv, StderrInv, ScanEOF("stderr") \/ ScanError("stderr")
  PROVE  StderrInv'
  <1>0. "stderr" \in Pipes
    BY DEF Pipes
  <1>1. Stream' = Stream
    BY DEF ScanEOF, ScanError, Stream
  <1>2. /\ scan["stderr"] = "scan" /\ held["stderr"] = <<>> /\ readable["stderr"]
        /\ scan'["stderr"] = "sendLast" /\ UNCHANGED <<written, process, heirs, pipe>>
    BY <1>0 DEF ScanEOF, ScanError, CliTypes, StderrInv, StderrHeld, OrderInv
  <1>3. PICK w \in Nat : w = written["stderr"]
    BY <1>0 DEF CliTypes
  <1>4. PICK n \in 0..w : Listed(n) /\ ~Failed /\ n = w - Len(pipe["stderr"])
    <2>1. Len(held["stderr"]) = 0
      BY <1>2
    <2>2. PICK n \in 0..w : Listed(n) /\ ~Failed /\ n = w - Len(pipe["stderr"]) - 0
      BY <1>2, <1>3, <2>1 DEF StderrInv, StderrListed
    <2> QED BY <1>0, <1>3, <2>2, HeadPipe
  <1>5. Listed(n)' /\ ~Failed'
    BY <1>1, <1>4, StreamStays
  <1>6. StderrPipe'
    BY <1>2 DEF StderrInv, StderrPipe
  <1>7. CASE ScanEOF("stderr")
    <2>1. held'["stderr"] = <<>> /\ pipe["stderr"] = <<>> /\ ~HasWriter("stderr")
      <3>1. ~\E i \in DOMAIN held["stderr"] : held["stderr"][i].type = "bad"
        BY <1>2
      <3> QED BY <1>0, <1>2, <1>7, <3>1 DEF ScanEOF, CliTypes
    <2>2. n = w
      BY <1>3, <1>4, <2>1
    <2>3. StderrHeld'
      BY <1>2, <2>1 DEF StderrHeld
    <2>4. StderrListed'
      BY <1>2, <1>3, <1>5, <2>1, <2>2 DEF StderrListed, HasWriter
    <2> QED BY <1>1, <1>6, <2>3, <2>4, StreamStays DEF StderrInv
  <1>8. CASE ScanError("stderr")
    <2>1. PICK e \in Events : e.pipe = "stderr" /\ e.type = "readError" /\ held'["stderr"] = <<e>>
      <3>1. /\ Failure("stderr", "readError") \in Events /\ Failure("stderr", "readError").pipe = "stderr"
            /\ Failure("stderr", "readError").type = "readError"
        BY <1>0, EventFacts DEF EventTypes
      <3>2. held'["stderr"] = <<Failure("stderr", "readError")>>
        BY <1>0, <1>2, <1>8 DEF ScanError, CliTypes
      <3> QED BY <3>1, <3>2
    <2>2. held'["stderr"] # <<>> /\ Len(held'["stderr"]) = 1 /\ held'["stderr"][1] = e
      BY <2>1
    <2>3. StderrHeld'
      BY <1>2, <2>1, <2>2 DEF StderrHeld
    <2>4. StderrListed'
      BY <1>2, <1>3, <1>5, <2>2 DEF StderrListed
    <2> QED BY <1>1, <1>6, <2>3, <2>4, StreamStays DEF StderrInv
  <1> QED BY <1>7, <1>8

\* The goroutine of stderr sends what it holds.
LEMMA StderrSent ==
  ASSUME CliTypes, OrderInv, StderrInv, Send("stderr")
  PROVE  StderrInv'
  <1>0. "stderr" \in Pipes
    BY DEF Pipes
  <1>1. /\ scan["stderr"] \in {"send", "sendLast"} /\ held["stderr"] # <<>>
        /\ UNCHANGED <<scan, written, process, heirs, pipe, got>> /\ held'["stderr"] = Tail(held["stderr"])
    BY <1>0 DEF Send, CliTypes
  <1>2. PICK e \in Events : e = held["stderr"][1] /\ e = Head(held["stderr"])
    BY <1>0, <1>1, HeadHeld
  <1>3. Len(held["stderr"]) = 1 /\ held'["stderr"] = <<>> /\ Len(held'["stderr"]) = 0
    <2>1. Len(held["stderr"]) <= 1 /\ Len(held["stderr"]) \in Nat /\ Len(held["stderr"]) >= 1
      BY <1>0, <1>1, HeadHeld DEF StderrInv, StderrHeld
    <2>2. Len(held["stderr"]) = 1
      <3>1. PICK l \in Nat : l = Len(held["stderr"])
        BY <2>1
      <3>2. l <= 1 /\ l >= 1
        BY <2>1, <3>1
      <3>3. l = 1
        BY <3>2
      <3> QED BY <3>1, <3>3
    <2>3. held'["stderr"] \in Seq(Events) /\ Len(held'["stderr"]) = 0
      BY <1>0, <1>1, <2>2, HeadHeld
    <2> HIDE DEF Events
    <2> QED BY <2>2, <2>3
  <1>4. /\ e.pipe = "stderr"
        /\ scan["stderr"] = "send" => e.type = "data" /\ e.line = written["stderr"] - Len(pipe["stderr"])
        /\ scan["stderr"] = "sendLast" => e.type \in {"tooLong", "readError"}
    BY <1>2, <1>3 DEF StderrInv, StderrHeld
  <1>5. e.type # "done" /\ Put(e) /\ UNCHANGED got
    BY <1>1, <1>2, <1>4 DEF Send, EmitEvent
  <1>6. PICK w \in Nat : w = written["stderr"] /\ w = written'["stderr"]
    BY <1>0, <1>1 DEF CliTypes
  <1>7. StderrPipe' /\ StderrHeld'
    <2>1. StderrPipe'
      BY <1>1 DEF StderrInv, StderrPipe
    <2>2. \A i \in 1..Len(held'["stderr"]) : FALSE
      BY <1>3
    <2>3. StderrHeld'
      BY <1>3, <2>2 DEF StderrHeld
    <2> QED BY <2>1, <2>3
  <1>8. CASE scan["stderr"] = "send"
    <2>1. PICK l \in Nat : l = Len(pipe["stderr"]) /\ l = Len(pipe'["stderr"])
      BY <1>0, <1>1, HeadPipe
    <2>2. PICK n \in 0..w : Listed(n) /\ ~Failed /\ n = w - l - 1
      BY <1>3, <1>6, <1>8, <2>1 DEF StderrInv, StderrListed
    <2>3. e.line = n + 1 /\ n + 1 \in 0..w /\ n + 1 = w - l - 0 /\ n \in Nat
      BY <1>4, <1>6, <1>8, <2>1, <2>2
    <2>4. StderrOrder' /\ ~Failed' /\ Listed(n + 1)'
      BY <1>4, <1>5, <1>8, <2>2, <2>3, PutLine DEF StderrInv
    <2>5. StderrListed'
      BY <1>1, <1>3, <1>6, <1>8, <2>1, <2>3, <2>4 DEF StderrListed
    <2> QED BY <1>7, <2>4, <2>5 DEF StderrInv
  <1>9. CASE scan["stderr"] = "sendLast"
    <2>1. PICK n \in 0..w : Listed(n)
      BY <1>6 DEF StderrInv, StderrListed
    <2>2. StderrOrder' /\ Failed' /\ Listed(n)'
      BY <1>4, <1>5, <1>9, <2>1, PutFailure DEF StderrInv
    <2>3. StderrListed'
      BY <1>1, <1>3, <1>6, <1>9, <2>2 DEF StderrListed
    <2> QED BY <1>7, <2>2, <2>3 DEF StderrInv
  <1> QED BY <1>1, <1>8, <1>9

\* The goroutine of stderr goes on to the next line, or is through.
LEMMA StderrGoesOn ==
  ASSUME CliTypes, OrderInv, StderrInv, Sent("stderr")
  PROVE  StderrInv'
  <1>0. "stderr" \in Pipes
    BY DEF Pipes
  <1>1. Stream' = Stream
    BY DEF Sent, Stream
  <1>2. /\ UNCHANGED <<written, process, heirs, pipe, held>> /\ held["stderr"] = <<>>
        /\ \/ scan["stderr"] = "send" /\ scan'["stderr"] = "scan"
           \/ scan["stderr"] = "sendLast" /\ scan'["stderr"] = "through"
    BY <1>0 DEF Sent, CliTypes
  <1>3. StderrPipe' /\ StderrHeld'
    BY <1>2 DEF StderrInv, StderrPipe, StderrHeld
  <1>4. PICK w \in Nat : w = written["stderr"]
    BY <1>0 DEF CliTypes
  <1>5. PICK n \in 0..w :
          /\ Listed(n)
          /\ scan["stderr"] = "send" => ~Failed /\ n = w - Len(pipe["stderr"]) - Len(held["stderr"])
          /\ scan["stderr"] = "sendLast" => Failed \/ (n = w /\ pipe["stderr"] = <<>> /\ ~HasWriter("stderr"))
    BY <1>2, <1>4 DEF StderrInv, StderrListed
  <1>6. Listed(n)' /\ (Failed' <=> Failed)
    BY <1>1, <1>5, StreamStays
  <1>7. StderrListed'
    BY <1>2, <1>4, <1>5, <1>6 DEF StderrListed, HasWriter
  <1> QED BY <1>1, <1>3, <1>7, StreamStays DEF StderrInv

\* Every step keeps the lines of stderr.
LEMMA StderrStep ==
  ASSUME CliTypes, OrderInv, StderrInv, [Next]_vars
  PROVE  StderrInv'
  <1>0. "stdout" \in Pipes /\ "stderr" \in Pipes /\ \A p \in Pipes : p = "stdout" \/ p = "stderr"
    BY DEF Pipes
  <1> DEFINE Apart == UNCHANGED <<pipe["stderr"], written["stderr"], held["stderr"], scan["stderr"]>>
  <1>1. ASSUME Stream' = Stream, Apart, ~HasWriter("stderr") => ~HasWriter("stderr")'
        PROVE  StderrInv'
    BY <1>1, StreamStays, StderrFrame DEF StderrInv
  <1>2. ASSUME NEW e \in Events, Put(e), UNCHANGED got, e.pipe # "stderr", Apart, UNCHANGED <<process, heirs>>
        PROVE  StderrInv'
    BY <1>2, PutOther, StderrFrame DEF StderrInv, HasWriter
  <1>3. CASE Write("stderr") \/ Producer("stderr")
    BY <1>3, StderrWritten, StderrScanned, StderrEnded, StderrSent, StderrGoesOn DEF Producer
  <1>4. CASE Write("stdout") \/ ScanLine("stdout") \/ ScanEOF("stdout") \/ ScanError("stdout") \/ Sent("stdout")
    <2>1. Apart /\ UNCHANGED <<ch, got, process, heirs>>
      BY <1>0, <1>4 DEF Write, ScanLine, ScanEOF, ScanError, Sent, CliTypes
    <2> QED BY <1>1, <2>1 DEF Stream, HasWriter
  <1>5. CASE Send("stdout")
    <2>1. Apart /\ UNCHANGED <<got, process, heirs>> /\ held["stdout"] # <<>>
      BY <1>0, <1>5 DEF Send, CliTypes
    <2>2. PICK e \in Events : e = Head(held["stdout"]) /\ e.pipe = "stdout"
      BY <1>0, <2>1, HeadHeld DEF OrderInv
    <2>3. Put(e) \/ UNCHANGED ch
      BY <1>5, <2>2 DEF Send, EmitEvent
    <2> QED BY <1>1, <1>2, <2>1, <2>2, <2>3 DEF Stream, HasWriter
  <1>6. CASE SendExitError \/ SendDone
    <2>1. Apart /\ UNCHANGED <<got, process, heirs>>
      BY <1>0, <1>6 DEF SendExitError, SendDone, CliTypes
    <2>2. PICK e \in Events : Put(e) /\ e.pipe # "stderr"
      BY <1>0, <1>6, EventFacts DEF SendExitError, SendDone, EventTypes
    <2> QED BY <1>2, <2>1, <2>2
  <1>7. CASE JoinStderr \/ WaitProcess \/ CloseChannel
    <2>1. Apart /\ UNCHANGED <<ch, got, process, heirs>>
      BY <1>0, <1>7 DEF JoinStderr, WaitProcess, CloseChannel, CliTypes
    <2> QED BY <1>1, <2>1 DEF Stream, HasWriter
  <1>8. CASE Recv
    BY <1>1, <1>8, StreamRecv DEF Recv, HasWriter
  <1>9. CASE \/ Exit \/ CancelContext \/ (\E p \in Pipes : Release(p))
             \/ RecvEnded \/ Close \/ Stopped \/ UNCHANGED vars
    <2>1. Apart /\ UNCHANGED <<ch, got>> /\ (~HasWriter("stderr") => ~HasWriter("stderr")')
      BY <1>9 DEF Exit, CancelContext, Gone, Release, RecvEnded, Close, Stopped, vars, HasWriter
    <2> QED BY <1>1, <2>1 DEF Stream, HasWriter
  <1> QED BY <1>0, <1>3, <1>4, <1>5, <1>6, <1>7, <1>8, <1>9 DEF Next, Producer, Finish

----------------------------------------------------------------------------
(* The theorems                                                            *)

\* The invariant holds throughout.
LEMMA CliInvariant == Spec => []CliInv
  <1>1. ASSUME Init
        PROVE  CliInv
    <2>1. "stdout" \in Pipes /\ "stderr" \in Pipes
      BY DEF Pipes
    <2>2. <<Failure("stdout", "unsupported")>> \in Seq(Events) /\ <<>> \in Seq(Events) /\ <<>> \in Seq(Lines)
          /\ Len(<<Failure("stdout", "unsupported")>>) = 1
          /\ <<Failure("stdout", "unsupported")>>[1].pipe = "stdout"
      <3>1. Failure("stdout", "unsupported") \in Events /\ Failure("stdout", "unsupported").pipe = "stdout"
        BY <2>1, EventFacts DEF EventTypes
      <3> HIDE DEF Events
      <3> QED BY <3>1
    <2>3. /\ held["stdout"] \in {<<>>, <<Failure("stdout", "unsupported")>>} /\ held["stderr"] = <<>>
          /\ scan["stdout"] \in {"scan", "sendLast"} /\ scan["stderr"] = "scan"
          /\ pipe["stderr"] = <<>> /\ written["stderr"] = 0
      BY <1>1, <2>1 DEF Init
    <2>4. held \in [Pipes -> Seq(Events)]
      BY <1>1, <2>2 DEF Init, Pipes
    <2>5. CliTypes
      BY <1>1, <2>2, <2>4, BoundsAreNaturals DEF Init, CliTypes
    <2>6. OrderInv
      BY <1>1, <2>1, <2>2, <2>3 DEF Init, OrderInv
    <2>7. Len(Stream) = 0
      BY <1>1 DEF Init, Stream
    <2>8. DoneInv
      BY <2>3, <2>7 DEF DoneInv
    <2>9. StderrOrder /\ ~Failed /\ Listed(0)
      BY <2>7 DEF StderrOrder, Failed, Listed
    <2>10. Len(pipe["stderr"]) = 0 /\ Len(held["stderr"]) = 0
      BY <2>3
    <2>11. StderrPipe /\ StderrHeld
      BY <2>3, <2>10 DEF StderrPipe, StderrHeld
    <2>12. StderrListed
      <3>1. 0 \in 0..written["stderr"]
        BY <2>3
      <3>2. 0 = written["stderr"] - Len(pipe["stderr"]) - Len(held["stderr"])
        <4>1. written["stderr"] = 0
          BY <2>3
        <4>2. \A w, p, h \in Nat : w = 0 /\ p = 0 /\ h = 0 => 0 = w - p - h
          OBVIOUS
        <4> QED BY <2>10, <4>1, <4>2
      <3> QED BY <2>3, <2>9, <3>1, <3>2 DEF StderrListed
    <2> QED BY <2>5, <2>6, <2>8, <2>9, <2>11, <2>12 DEF CliInv, StderrInv
  <1>2. CliInv /\ [Next]_vars => CliInv'
    BY CliTypesStep, OrderStep, DoneStep, StderrStep DEF CliInv
  <1> QED BY <1>1, <1>2, PTL DEF Spec

\* The places of a stream.
LEMMA Places ==
  ASSUME CliTypes
  PROVE  DOMAIN Stream = 1..Len(Stream) /\ Len(Stream) \in Nat /\ (Len(Stream) >= 1 => Stream # <<>>)
  <1>1. got \in Seq(Events) /\ ch \in Seq(Events)
    BY DEF CliTypes
  <1> HIDE DEF Events
  <1>2. got \o ch \in Seq(Events)
    BY <1>1
  <1> QED BY <1>2 DEF Stream

\* Invoke's stream has one Done, which is its last event and is there when the
\* channel is closed: however the frames of the agent, the lines of stderr and the
\* exit error come together, and whoever is slow.
THEOREM DoneEndsStream == Spec => []DoneIsLast
  <1>1. CliInv => DoneIsLast
    <2> SUFFICES ASSUME CliInv
                 PROVE  DoneIsLast
      OBVIOUS
    <2>1. CliTypes /\ DoneInv /\ (chClosed => scan["stdout"] = "through")
      BY DEF CliInv, OrderInv, Pipes
    <2>2. \A i \in 1..Len(Stream) : Stream[i].type = "done" => i = Len(Stream)
      <3>1. PICK last \in Nat : last = Len(Stream)
        BY <2>1, Places
      <3>2. \A i \in 1..last : i \in 1..(last - 1) \/ i = last
        OBVIOUS
      <3>3. CASE scan["stdout"] = "through"
        <4>1. \A i \in 1..(last - 1) : Stream[i].type # "done"
          BY <2>1, <3>1, <3>3 DEF DoneInv
        <4> QED BY <3>1, <3>2, <4>1
      <3>4. CASE scan["stdout"] # "through"
        <4>1. \A i \in 1..last : Stream[i].type # "done"
          BY <2>1, <3>1, <3>4 DEF DoneInv
        <4> QED BY <3>1, <4>1
      <3> QED BY <3>3, <3>4
    <2>3. chClosed => Stream # <<>> /\ Stream[Len(Stream)] = Done
      BY <2>1, Places DEF DoneInv
    <2> QED BY <2>1, <2>2, <2>3, Places DEF DoneIsLast
  <1> QED BY <1>1, CliInvariant, PTL

\* When Invoke closes the channel, the stream has every line of stderr, once and in
\* order, up to a line that is too long or a read that fails: cmd.Wait never takes
\* the pipe away from scanTextLines.
THEOREM StderrIsComplete == Spec => []StderrComplete
  <1>1. CliInv => StderrComplete
    <2> SUFFICES ASSUME CliInv, chClosed
                 PROVE  StderrComplete
      BY DEF StderrComplete
    <2>1. CliTypes /\ StderrOrder /\ StderrHeld /\ StderrListed /\ scan["stderr"] = "through"
      BY DEF CliInv, StderrInv, OrderInv, Pipes
    <2> DEFINE events == {i \in DOMAIN Stream : Stream[i].pipe = "stderr"}
               lines == {i \in events : Stream[i].type = "data"}
    <2>2. \A i \in events : i \in 1..Len(Stream) /\ (IsLine(i) \/ IsFailure(i)) /\ (i \in lines <=> IsLine(i))
      BY <2>1, Places DEF StderrOrder, IsLine
    <2>3. \A i \in events : Stream[i].type # "cut"
      BY <2>2 DEF IsLine, IsFailure
    <2>4. \A i \in lines, j \in events : j < i => j \in lines /\ Stream[j].line < Stream[i].line
      BY <2>1, <2>2 DEF StderrOrder
    <2>5. PICK n \in 0..written["stderr"] : Listed(n) /\ (Failed \/ n = written["stderr"])
      BY <2>1 DEF StderrHeld, StderrListed
    <2>6. Failed => \E i \in events : Stream[i].type \in {"tooLong", "readError"}
      BY <2>1, Places DEF Failed, IsFailure
    <2>7. {Stream[i].line : i \in lines} = 1..n
      <3>1. ASSUME NEW i \in lines
            PROVE  Stream[i].line \in 1..n
        BY <2>2, <2>5 DEF Listed
      <3>2. ASSUME NEW m \in 1..n
            PROVE  \E i \in lines : Stream[i].line = m
        <4>1. PICK i \in 1..Len(Stream) : IsLine(i) /\ Stream[i].line = m
          BY <2>5 DEF Listed
        <4>2. i \in lines
          BY <2>1, <4>1, Places DEF IsLine
        <4> QED BY <4>1, <4>2
      <3> QED BY <3>1, <3>2
    <2> QED BY <2>3, <2>4, <2>5, <2>6, <2>7 DEF StderrComplete
  <1> QED BY <1>1, CliInvariant, PTL
=============================================================================
