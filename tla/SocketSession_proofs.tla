------------------------ MODULE SocketSession_proofs ------------------------
(***************************************************************************)
(* The event stream of a socket session, for any capacity of the channel   *)
(* and any number of frames and events: nothing is dropped, repeated or    *)
(* overtaken between the connection and Recv.                              *)
(***************************************************************************)
EXTENDS SocketSession, TLAPS

\* The events decoded so far are, in order, those Recv returned, those in the
\* channel and those readLoop still holds.
FlowInv ==
    /\ \A i \in 1..Len(got) : got[i] = i
    /\ \A i \in 1..Len(ch) : ch[i] = Len(got) + i
    /\ \A i \in 1..Len(batch) : batch[i] = Len(got) + Len(ch) + i
    /\ decoded = Len(got) + Len(ch) + Len(batch)

\* readLoop holds nothing while it reads, and nothing when it ends unless Close
\* or the context made it give up; it reads on only below the bound.
ReaderInv ==
    /\ reader \in {"check", "read"} => batch = <<>> /\ ~last
    /\ reader \in {"check", "read", "send"} /\ ~last => decoded < MaxEvents
    /\ reader \in {"exit", "exitOnce", "exitCh", "gone"} /\ closer = "idle" /\ ~ctxDone => batch = <<>>
    /\ chClosed <=> reader = "gone"

\* s.closed is closed by whoever wins closeOnce, and only then.
OnceInv ==
    /\ once = "new" => closes = 0
    /\ once # "new" => closes = 1
    /\ closer = "conn" => once = "running"
    /\ closer = "idle" /\ reader \notin {"exitCh", "gone"} => closes = 0

\* The two halves of TypeOK: the queues, and everything else.
QueueTypes ==
    /\ ch \in Seq(1..MaxEvents) /\ Len(ch) <= Capacity
    /\ batch \in Seq(1..MaxEvents)
    /\ got \in Seq(1..MaxEvents)

\* The types of the rest.
ControlTypes ==
    /\ ctxDone \in BOOLEAN
    /\ closes \in 0..1
    /\ once \in {"new", "running", "done"}
    /\ connOpen \in BOOLEAN
    /\ chClosed \in BOOLEAN
    /\ reader \in {"check", "read", "send", "exit", "exitOnce", "exitCh", "gone"}
    /\ last \in BOOLEAN
    /\ decoded \in 0..MaxEvents
    /\ owner \in {"opening", "idle", "recv", "ended", "none"}
    /\ closer \in {"idle", "conn", "done"}

\* What every step of the session preserves.
SessionInv == QueueTypes /\ ControlTypes /\ FlowInv /\ ReaderInv /\ OnceInv

----------------------------------------------------------------------------
\* Moving the head of one queue to the end of another.
LEMMA QueueMove ==
  ASSUME NEW s \in Seq(1..MaxEvents), NEW t \in Seq(1..MaxEvents), t # <<>>
  PROVE  /\ Append(s, Head(t)) \in Seq(1..MaxEvents) /\ Tail(t) \in Seq(1..MaxEvents)
         /\ Len(t) >= 1 /\ Head(t) = t[1]
         /\ Len(Append(s, Head(t))) = Len(s) + 1 /\ Len(Tail(t)) = Len(t) - 1
         /\ \A i \in 1..Len(s) : Append(s, Head(t))[i] = s[i]
         /\ Append(s, Head(t))[Len(s) + 1] = t[1]
         /\ \A i \in 1..(Len(t) - 1) : Tail(t)[i] = t[i + 1]
  <1> DEFINE S == 1..MaxEvents
  <1>0. s \in Seq(S) /\ t \in Seq(S)
    OBVIOUS
  <1> HIDE DEF S
  <1> USE <1>0
  <1>1. Len(t) \in Nat /\ Len(s) \in Nat /\ Len(t) >= 1
    OBVIOUS
  <1>2. Head(t) = t[1] /\ Head(t) \in S
    BY <1>1
  <1>3. Append(s, Head(t)) \in Seq(S) /\ Tail(t) \in Seq(S)
    BY <1>1, <1>2
  <1>4. Len(Append(s, Head(t))) = Len(s) + 1 /\ Len(Tail(t)) = Len(t) - 1
    BY <1>1, <1>2
  <1>5. \A i \in 1..Len(s) : Append(s, Head(t))[i] = s[i]
    BY <1>1, <1>2
  <1>6. Append(s, Head(t))[Len(s) + 1] = t[1]
    BY <1>1, <1>2
  <1>7. \A i \in 1..(Len(t) - 1) : Tail(t)[i] = t[i + 1]
    BY <1>1
  <1> QED BY <1>1, <1>2, <1>3, <1>4, <1>5, <1>6, <1>7 DEF S

\* What a frame or a failure puts into the batch.
LEMMA DecodeStep ==
  ASSUME SessionInv, reader = "read", NEW n \in Nat, NEW failed \in BOOLEAN, Decode(n, failed),
         decoded + n <= MaxEvents, ~failed => decoded + n < MaxEvents,
         UNCHANGED <<ctxDone, closes, once, connOpen, ch, chClosed, owner, got, closer>>
  PROVE  SessionInv'
  <1>1. /\ decoded \in Nat /\ decoded + n \in 0..MaxEvents /\ MaxEvents \in Nat
        /\ batch = <<>> /\ Len(got) \in Nat /\ Len(ch) \in Nat
        /\ decoded = Len(got) + Len(ch)
    BY BoundsAreNaturals DEF SessionInv, ReaderInv, FlowInv, QueueTypes, ControlTypes
  <1>2. batch' \in Seq(1..MaxEvents) /\ Len(batch') = n /\ \A i \in 1..n : batch'[i] = decoded + i
    <2>1. batch' = [i \in 1..n |-> decoded + i] /\ \A i \in 1..n : decoded + i \in 1..MaxEvents
      BY <1>1 DEF Decode
    <2> QED BY <2>1
  <1>3. decoded' = decoded + n /\ last' = failed /\ reader' = "send"
    BY DEF Decode
  <1>4. QueueTypes' /\ ControlTypes'
    BY <1>1, <1>2, <1>3 DEF SessionInv, QueueTypes, ControlTypes
  <1>5. FlowInv'
    BY <1>1, <1>2, <1>3 DEF SessionInv, FlowInv
  <1>6. ReaderInv'
    BY <1>3 DEF SessionInv, ReaderInv
  <1>7. OnceInv'
    BY <1>3 DEF SessionInv, OnceInv
  <1> QED BY <1>4, <1>5, <1>6, <1>7 DEF SessionInv

\* An event goes from the channel to the owner, or from readLoop to the channel.
LEMMA FlowStep ==
  ASSUME QueueTypes, FlowInv, RecvEvent \/ SendEvent
  PROVE  QueueTypes' /\ FlowInv'
  <1>1. Len(got) \in Nat /\ Len(ch) \in Nat /\ Len(batch) \in Nat /\ Capacity \in Nat
    BY BoundsAreNaturals DEF QueueTypes
  <1>2. CASE RecvEvent
    <2>1. ch # <<>> /\ got' = Append(got, Head(ch)) /\ ch' = Tail(ch) /\ UNCHANGED <<batch, decoded>>
      BY <1>2 DEF RecvEvent
    <2>2. /\ got' \in Seq(1..MaxEvents) /\ ch' \in Seq(1..MaxEvents)
          /\ Len(ch) >= 1 /\ Len(got') = Len(got) + 1 /\ Len(ch') = Len(ch) - 1
          /\ \A i \in 1..Len(got) : got'[i] = got[i]
          /\ got'[Len(got) + 1] = ch[1]
          /\ \A i \in 1..(Len(ch) - 1) : ch'[i] = ch[i + 1]
      <3>1. got \in Seq(1..MaxEvents) /\ ch \in Seq(1..MaxEvents)
        BY DEF QueueTypes
      <3>2. PICK s \in Seq(1..MaxEvents), t \in Seq(1..MaxEvents) : s = got /\ t = ch
        BY <3>1
      <3> QED BY ONLY <2>1, <3>2, t # <<>>, QueueMove
    <2>3. QueueTypes'
      BY <1>1, <2>1, <2>2 DEF QueueTypes
    <2>4. ASSUME NEW i \in 1..Len(got') PROVE got'[i] = i
      <3>1. i \in 1..Len(got) \/ i = Len(got) + 1
        BY <1>1, <2>2, <2>4
      <3>2. 1 \in 1..Len(ch) /\ ch[1] = Len(got) + 1
        BY <1>1, <2>2 DEF FlowInv
      <3> QED BY <2>2, <3>1, <3>2 DEF FlowInv
    <2>5. \A i \in 1..Len(ch') : ch'[i] = Len(got') + i
      BY <1>1, <2>2 DEF FlowInv
    <2>6. Len(got') + Len(ch') = Len(got) + Len(ch)
      BY <1>1, <2>2
    <2> QED BY <2>1, <2>3, <2>4, <2>5, <2>6 DEF FlowInv
  <1>3. CASE SendEvent
    <2>1. /\ batch # <<>> /\ Len(ch) < Capacity
          /\ ch' = Append(ch, Head(batch)) /\ batch' = Tail(batch) /\ UNCHANGED <<got, decoded>>
      BY <1>3 DEF SendEvent
    <2>2. /\ ch' \in Seq(1..MaxEvents) /\ batch' \in Seq(1..MaxEvents)
          /\ Len(batch) >= 1 /\ Len(ch') = Len(ch) + 1 /\ Len(batch') = Len(batch) - 1
          /\ \A i \in 1..Len(ch) : ch'[i] = ch[i]
          /\ ch'[Len(ch) + 1] = batch[1]
          /\ \A i \in 1..(Len(batch) - 1) : batch'[i] = batch[i + 1]
      <3>1. ch \in Seq(1..MaxEvents) /\ batch \in Seq(1..MaxEvents)
        BY DEF QueueTypes
      <3>2. PICK s \in Seq(1..MaxEvents), t \in Seq(1..MaxEvents) : s = ch /\ t = batch
        BY <3>1
      <3> QED BY ONLY <2>1, <3>2, t # <<>>, QueueMove
    <2>3. QueueTypes'
      BY <1>1, <2>1, <2>2 DEF QueueTypes
    <2>4. ASSUME NEW i \in 1..Len(ch') PROVE ch'[i] = Len(got) + i
      <3>1. i \in 1..Len(ch) \/ i = Len(ch) + 1
        BY <1>1, <2>2, <2>4
      <3>2. 1 \in 1..Len(batch) /\ batch[1] = Len(got) + Len(ch) + 1
        BY <1>1, <2>2 DEF FlowInv
      <3>3. Len(got) + Len(ch) + 1 = Len(got) + (Len(ch) + 1)
        BY <1>1
      <3> QED BY <2>2, <3>1, <3>2, <3>3 DEF FlowInv
    <2>5. \A i \in 1..Len(batch') : batch'[i] = Len(got) + Len(ch') + i
      BY <1>1, <2>2 DEF FlowInv
    <2>6. Len(ch') + Len(batch') = Len(ch) + Len(batch)
      BY <1>1, <2>2
    <2>7. Len(got) + Len(ch') + Len(batch') = Len(got) + Len(ch) + Len(batch)
      BY <1>1, <2>2
    <2> QED BY <2>1, <2>3, <2>4, <2>5, <2>7 DEF FlowInv
  <1> QED BY <1>2, <1>3

\* Every step keeps it.
LEMMA SessionStep ==
  ASSUME SessionInv, [Next]_vars
  PROVE  SessionInv'
  <1>0. QueueTypes /\ ControlTypes /\ FlowInv /\ ReaderInv /\ OnceInv
    BY DEF SessionInv
  <1>1. ASSUME UNCHANGED <<ch, batch, got, decoded>>, ControlTypes', ReaderInv', OnceInv'
        PROVE  SessionInv'
    BY <1>0, <1>1 DEF SessionInv, QueueTypes, FlowInv
  <1>2. CASE OpenReturns \/ RecvCall \/ RecvEnded \/ RecvCanceled \/ CancelContext
    <2>1. ControlTypes'
      <3>1. UNCHANGED <<closes, once, connOpen, chClosed, reader, last, decoded, closer>>
        BY <1>2 DEF OpenReturns, RecvCall, RecvEnded, RecvCanceled, CancelContext
      <3>2. ctxDone' \in {ctxDone, TRUE} /\ owner' \in {owner, "idle", "recv", "ended"}
        BY <1>2 DEF OpenReturns, RecvCall, RecvEnded, RecvCanceled, CancelContext
      <3>3. ctxDone' \in BOOLEAN
        BY <1>0, <3>2 DEF ControlTypes
      <3>4. owner' \in {"opening", "idle", "recv", "ended", "none"}
        BY <1>0, <3>2 DEF ControlTypes
      <3> QED BY <1>0, <3>1, <3>3, <3>4 DEF ControlTypes
    <2>2. OnceInv'
      BY <1>0, <1>2 DEF OpenReturns, RecvCall, RecvEnded, RecvCanceled, CancelContext, OnceInv
    <2>3. ReaderInv'
      BY <1>0, <1>2 DEF OpenReturns, RecvCall, RecvEnded, RecvCanceled, CancelContext, ReaderInv
    <2> QED BY <1>1, <1>2, <2>1, <2>2, <2>3 DEF OpenReturns, RecvCall, RecvEnded, RecvCanceled, CancelContext
  <1>3. CASE OpenFails \/ CloseBegin \/ CloseConn
    <2>1. ControlTypes'
      <3>1. closes' \in 0..1
        <4>1. closes' \in {closes, 1}
          BY <1>0, <1>3 DEF OpenFails, CloseBegin, CloseConn, OnceInv
        <4> QED BY <1>0, <4>1 DEF ControlTypes
      <3> QED BY <1>0, <1>3, <3>1 DEF OpenFails, CloseBegin, CloseConn, ControlTypes
    <2>3. OnceInv'
      BY <1>0, <1>3 DEF OpenFails, CloseBegin, CloseConn, ControlTypes, OnceInv
    <2>2. ReaderInv'
      BY <1>0, <1>3 DEF OpenFails, CloseBegin, CloseConn, ReaderInv
    <2> QED BY <1>1, <1>3, <2>1, <2>2, <2>3 DEF OpenFails, CloseBegin, CloseConn
  <1>4. CASE RecvEvent \/ SendEvent
    <2>1. QueueTypes' /\ FlowInv'
      BY <1>0, <1>4, FlowStep
    <2>2. ControlTypes'
      BY <1>0, <1>4 DEF RecvEvent, SendEvent, ControlTypes
    <2>4. OnceInv'
      BY <1>0, <1>4 DEF RecvEvent, SendEvent, OnceInv
    <2>3. ReaderInv'
      BY <1>0, <1>4 DEF RecvEvent, SendEvent, ReaderInv
    <2> QED BY <2>1, <2>2, <2>3, <2>4 DEF SessionInv
  <1>6. CASE ReadFrame \/ ReadError
    <2>1. reader = "read" /\ decoded \in Nat /\ decoded < MaxEvents /\ MaxEvents \in Nat
      <3>1. reader = "read"
        BY <1>6 DEF ReadFrame, ReadError
      <3>2. ~last
        BY <1>0, <3>1 DEF ReaderInv
      <3>3. decoded < MaxEvents
        BY <1>0, <3>1, <3>2 DEF ReaderInv
      <3> QED BY <1>0, <3>1, <3>3, BoundsAreNaturals DEF ControlTypes
    <2>2. UNCHANGED <<ctxDone, closes, once, connOpen, ch, chClosed, owner, got, closer>>
      BY <1>6 DEF ReadFrame, ReadError
    <2>3. CASE Decode(1, TRUE)
      <3>1. decoded + 1 <= MaxEvents /\ 1 \in Nat
        BY <2>1
      <3> QED BY <2>1, <2>2, <2>3, <3>1, DecodeStep
    <2>4. ASSUME NEW n \in 0..MaxFrame, decoded + n < MaxEvents, Decode(n, FALSE)
          PROVE  SessionInv'
      <3>1. n \in Nat /\ decoded + n <= MaxEvents
        BY <2>1, <2>4, BoundsAreNaturals
      <3> QED BY <2>1, <2>2, <2>4, <3>1, DecodeStep
    <2> QED BY <1>6, <2>3, <2>4 DEF ReadFrame, ReadError
  <1>7. CASE ReadCheck \/ ReadCanceled \/ SendGivesUp \/ SendDone
    <2>1. UNCHANGED <<ctxDone, closes, once, connOpen, ch, chClosed, batch, last, decoded, owner, got, closer>>
      BY <1>7 DEF ReadCheck, ReadCanceled, SendGivesUp, SendDone
    <2>2. ControlTypes'
      BY <1>0, <1>7, <2>1 DEF ReadCheck, ReadCanceled, SendGivesUp, SendDone, ControlTypes
    <2>4. OnceInv'
      BY <1>0, <1>7, <2>1 DEF ReadCheck, ReadCanceled, SendGivesUp, SendDone, OnceInv
    <2>3. ReaderInv'
      BY <1>0, <1>7, <2>1 DEF ReadCheck, ReadCanceled, SendGivesUp, SendDone, ReaderInv, OnceInv, Closed,
                              ControlTypes
    <2> QED BY <1>1, <2>1, <2>2, <2>3, <2>4
  <1>8. CASE ExitConn \/ ExitOnce \/ ExitCh
    <2>1. UNCHANGED <<ctxDone, ch, batch, last, decoded, owner, got, closer>>
      BY <1>8 DEF ExitConn, ExitOnce, ExitCh
    <2>2. ControlTypes'
      <3>1. closes' \in 0..1
        <4>1. closes' \in {closes, 1}
          BY <1>0, <1>8 DEF ExitConn, ExitOnce, ExitCh, OnceInv
        <4> QED BY <1>0, <4>1 DEF ControlTypes
      <3> QED BY <1>0, <1>8, <3>1 DEF ExitConn, ExitOnce, ExitCh, ControlTypes
    <2>3. OnceInv' /\ ReaderInv'
      BY <1>0, <1>8, <2>1 DEF ExitConn, ExitOnce, ExitCh, OnceInv, ReaderInv, ControlTypes
    <2> QED BY <1>1, <2>1, <2>2, <2>3
  <1>9. CASE Finished \/ UNCHANGED vars
    BY <1>0, <1>1, <1>9 DEF Finished, vars, ControlTypes, ReaderInv, OnceInv
  <1> QED BY <1>2, <1>3, <1>4, <1>6, <1>7, <1>8, <1>9 DEF Next, Owner, Reader

\* It holds throughout.
LEMMA SessionInvariant == Spec => []SessionInv
  <1>1. Init => SessionInv
    <2> SUFFICES ASSUME Init PROVE SessionInv
      OBVIOUS
    <2>1. QueueTypes /\ FlowInv
      BY BoundsAreNaturals DEF Init, QueueTypes, FlowInv
    <2>2. ControlTypes
      <3>1. closes \in 0..1 /\ decoded \in 0..MaxEvents
        BY BoundsAreNaturals DEF Init
      <3> QED BY <3>1 DEF Init, ControlTypes
    <2>3. ReaderInv
      <3>1. decoded < MaxEvents
        BY BoundsAreNaturals DEF Init
      <3> QED BY <3>1 DEF Init, ReaderInv
    <2>4. OnceInv
      BY DEF Init, OnceInv
    <2> QED BY <2>1, <2>2, <2>3, <2>4 DEF SessionInv
  <1> QED BY <1>1, SessionStep, PTL DEF Spec

\* A socket session keeps its types: the channel stays within its capacity and
\* s.closed is closed at most once, whoever of Close and readLoop comes first.
THEOREM SessionTypes == Spec => []TypeOK
  <1>1. SessionInv => TypeOK
    BY DEF SessionInv, QueueTypes, ControlTypes, TypeOK
  <1> QED BY <1>1, SessionInvariant, PTL

\* Recv and the channel hold the decoded events in order, and all of them once
\* readLoop has ended by itself.
THEOREM StreamIsFaithful == Spec => []StreamIsDecoded
  <1>1. SessionInv => StreamIsDecoded
    <2> SUFFICES ASSUME SessionInv PROVE StreamIsDecoded
      OBVIOUS
    <2> DEFINE sent == got \o ch
    <2>1. got \in Seq(1..MaxEvents) /\ ch \in Seq(1..MaxEvents) /\ batch \in Seq(1..MaxEvents)
      BY DEF SessionInv, QueueTypes
    <2>2. Len(sent) = Len(got) + Len(ch) /\ DOMAIN sent = 1..(Len(got) + Len(ch))
      BY <2>1
    <2>3. ASSUME NEW i \in DOMAIN sent PROVE sent[i] = i
      <3>1. CASE i <= Len(got)
        BY <2>1, <2>2, <2>3, <3>1 DEF SessionInv, FlowInv
      <3>2. CASE i > Len(got)
        <4>1. i - Len(got) \in 1..Len(ch)
          BY <2>1, <2>2, <2>3, <3>2
        <4>2. sent[i] = ch[i - Len(got)]
          BY <2>1, <2>2, <2>3, <3>2
        <4> QED BY <2>1, <4>1, <4>2 DEF SessionInv, FlowInv
      <3> QED BY <2>1, <2>2, <3>1, <3>2
    <2>4. chClosed /\ closer = "idle" /\ ~ctxDone => Len(sent) = decoded
      BY <2>1, <2>2 DEF SessionInv, ReaderInv, FlowInv
    <2> QED BY <2>3, <2>4 DEF StreamIsDecoded
  <1> QED BY <1>1, SessionInvariant, PTL

=============================================================================
