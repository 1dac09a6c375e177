------------------------ MODULE TerminalBridgeProofs ------------------------
(***************************************************************************)
(* A terminal session keeps what TerminalStream promises, for every number *)
(* of frames and chunks and every size of the channels.                    *)
(*                                                                         *)
(* Two sequences carry the argument.  Held are the frames the handler has  *)
(* read and the shell has not been handed: they are in the order in which  *)
(* they were read, later than all that is typed, and no input is missing   *)
(* before any of them.  Passing are the events from the first one shown to *)
(* the one the bridge is about to send: a step leaves it as it is, adds an *)
(* event at the end or, when the writer gives up, cuts it after what is    *)
(* shown, and every event in it fits those before it.                      *)
(***************************************************************************)
EXTENDS TerminalBridge, TLAPS

-----------------------------------------------------------------------------
(***************************************************************************)
(* Sequences.                                                              *)
(***************************************************************************)
LEMMA AppendIs ==
    ASSUME NEW T, NEW s \in Seq(T), NEW x \in T
    PROVE  /\ Append(s, x) \in Seq(T) /\ Len(Append(s, x)) = Len(s) + 1
           /\ \A k \in 1..Len(s) : Append(s, x)[k] = s[k]
           /\ Append(s, x)[Len(s) + 1] = x
           /\ Range(Append(s, x)) = Range(s) \cup {x}
  <1>1. /\ Append(s, x) \in Seq(T) /\ Len(Append(s, x)) = Len(s) + 1
        /\ \A k \in 1..Len(s) : Append(s, x)[k] = s[k]
        /\ Append(s, x)[Len(s) + 1] = x
    OBVIOUS
  <1>2. DOMAIN s = 1..Len(s) /\ DOMAIN Append(s, x) = 1..(Len(s) + 1) /\ Len(s) \in Nat
    BY <1>1
  <1> QED BY <1>1, <1>2 DEF Range

\* What a tail holds, and where.
LEMMA TailIs ==
    ASSUME NEW T, NEW s \in Seq(T), s # <<>>
    PROVE  /\ Head(s) \in T /\ Tail(s) \in Seq(T) /\ Len(Tail(s)) = Len(s) - 1
           /\ Head(s) = s[1]
           /\ \A k \in 1..Len(Tail(s)) : Tail(s)[k] = s[k + 1]
           /\ Range(s) = {Head(s)} \cup Range(Tail(s))
  <1>1. /\ Head(s) \in T /\ Tail(s) \in Seq(T) /\ Len(Tail(s)) = Len(s) - 1
        /\ Head(s) = s[1]
        /\ \A k \in 1..Len(Tail(s)) : Tail(s)[k] = s[k + 1]
    OBVIOUS
  <1>2. DOMAIN s = 1..Len(s) /\ DOMAIN Tail(s) = 1..(Len(s) - 1) /\ Len(s) \in Nat \ {0}
    BY <1>1
  <1>3. ASSUME NEW k \in DOMAIN s PROVE s[k] \in {Head(s)} \cup Range(Tail(s))
    <2>1. CASE k = 1
      BY <1>1, <2>1
    <2>2. CASE k # 1
      <3>1. k - 1 \in DOMAIN Tail(s) /\ Tail(s)[k - 1] = s[k]
        BY <1>1, <1>2, <2>2
      <3> QED BY <3>1 DEF Range
    <2> QED BY <2>1, <2>2
  <1>4. ASSUME NEW k \in DOMAIN Tail(s) PROVE Tail(s)[k] \in Range(s)
    <2>1. k + 1 \in DOMAIN s /\ Tail(s)[k] = s[k + 1]
      BY <1>1, <1>2
    <2> QED BY <2>1 DEF Range
  <1>5. Head(s) \in Range(s)
    BY <1>1, <1>2 DEF Range
  <1> QED BY <1>1, <1>3, <1>4, <1>5 DEF Range

\* What a concatenation holds, and where.
LEMMA ConcatIs ==
    ASSUME NEW T, NEW s \in Seq(T), NEW t \in Seq(T)
    PROVE  /\ s \o t \in Seq(T) /\ Len(s \o t) = Len(s) + Len(t)
           /\ \A k \in 1..Len(s) : (s \o t)[k] = s[k]
           /\ \A k \in 1..Len(t) : (s \o t)[Len(s) + k] = t[k]
  OBVIOUS

\* Moving an event from one place to the next leaves the sequence as it is.
LEMMA Shifts ==
    ASSUME NEW T, NEW s \in Seq(T), NEW t \in Seq(T), NEW x \in T
    PROVE  /\ s \o <<x>> = Append(s, x)
           /\ t # <<>> => s \o <<Head(t)>> \o Tail(t) = s \o t
           /\ s \o <<>> = s
           /\ s \o Append(t, x) = Append(s \o t, x)
  <1>1. s \o <<x>> = Append(s, x)
    OBVIOUS
  <1>2. s \o <<>> = s
    OBVIOUS
  <1>3. s \o Append(t, x) = Append(s \o t, x)
    OBVIOUS
  <1>4. t # <<>> => s \o <<Head(t)>> \o Tail(t) = s \o t
    OBVIOUS
  <1> QED BY <1>1, <1>2, <1>3, <1>4

-----------------------------------------------------------------------------
(***************************************************************************)
(* Types.                                                                  *)
(***************************************************************************)
LEMMA Bounds ==
    ASSUME IInv
    PROVE  /\ Capacity \in Nat \ {0} /\ Window \in Nat \ {0}
           /\ MaxSent \in Nat /\ MaxPrinted \in Nat
           /\ Len(sent) \in Nat /\ Len(sent) <= MaxSent
           /\ taken \in Nat /\ taken <= Len(sent)
           /\ heard \in Nat /\ printed \in Nat /\ heard <= printed /\ printed <= MaxPrinted
           /\ Pc(reader, "send") => reader.msg \in 1..MaxSent
           /\ Busy => bridge.msg \in 1..MaxSent
  <1>1. /\ Capacity \in Nat \ {0} /\ Window \in Nat \ {0}
        /\ MaxSent \in Nat /\ MaxPrinted \in Nat
    BY BridgeAssumption
  <1>2. /\ Len(sent) \in Nat /\ Len(sent) <= MaxSent
        /\ taken \in Nat /\ taken <= Len(sent)
        /\ heard \in Nat /\ printed \in Nat /\ heard <= printed /\ printed <= MaxPrinted
    BY <1>1 DEF IInv, TypeOK
  <1>3. \A i \in Held : i \in 1..MaxSent
    BY <1>1, <1>2 DEF IInv, FramesOrdered
  <1> QED BY <1>1, <1>2, <1>3 DEF Held

\* The handler keeps the types: what it reads and forwards is a place in sent.
LEMMA HandlerTyped == ASSUME IInv, HandlerStep PROVE TypeOK'
  <1> USE Bounds DEF TypeOK, ends, link, Pc, ReaderTo
  <1> USE DEF IInv
  <1>1. [pc |-> "done", msg |-> 0] \in Reader
    BY DEF Reader, Idx
  <1>2. Event("opened", 0) \in TerminalStreamEvent /\ Event("error", 0) \in TerminalStreamEvent
    BY DEF Event, TerminalStreamEvent, EventTypes
  <1>3. ASSUME Spawn PROVE /\ bridge' \in Bridge /\ writer' \in Writer
                           /\ server' \in Seq(TerminalStreamEvent) /\ Len(server') <= Capacity
    <2>1. server' \in Seq(TerminalStreamEvent) /\ Len(server') = 1
      BY <1>2, <1>3 DEF Spawn
    <2>2. bridge' \in Bridge /\ writer' \in Writer
      BY <1>3 DEF Spawn, BridgeTo, Bridge, Writer, Idx
    <2> QED BY <2>1, <2>2
  <1>4. CASE FirstFrame
    <2>1. client' \in Seq(1..MaxSent) /\ Len(client') <= Capacity
      <3>1. client' = <<>> \/ client' = <<taken + 1>>
        BY <1>4 DEF FirstFrame
      <3>2. taken + 1 \in 1..MaxSent
        BY <1>4 DEF FirstFrame
      <3>3. <<>> \in Seq(1..MaxSent) /\ <<taken + 1>> \in Seq(1..MaxSent)
        BY ONLY <3>2
      <3>4. Len(<<>>) = 0 /\ Len(<<taken + 1>>) = 1
        OBVIOUS
      <3>5. Capacity \in Nat \ {0}
        OBVIOUS
      <3>6. CASE client' = <<>>
        BY ONLY <3>3, <3>4, <3>5, <3>6
      <3>7. CASE client' = <<taken + 1>>
        BY ONLY <3>3, <3>4, <3>5, <3>7
      <3> QED BY <3>1, <3>6, <3>7
    <2>2. reader' \in Reader
      BY <1>4 DEF FirstFrame, Reader, Idx
    <2>3. taken' \in 0..Len(sent)
      BY <1>4 DEF FirstFrame
    <2> QED BY <1>3, <1>4, <2>1, <2>2, <2>3 DEF FirstFrame
  <1>5. CASE FirstMissing
    BY <1>3, <1>5 DEF FirstMissing, Reader, Idx
  <1>6. CASE FirstMalformed
    <2>1. shown' \in Seq(TerminalStreamEvent)
      <3>1. shown' = shown \/ shown' = Append(shown, Event("error", 0))
        BY <1>6 DEF FirstMalformed
      <3>2. shown \in Seq(TerminalStreamEvent)
        OBVIOUS
      <3> QED BY ONLY <1>2, <3>1, <3>2, AppendIs
    <2>2. taken' \in 0..Len(sent)
      BY <1>6 DEF FirstMalformed
    <2> QED BY <1>1, <1>6, <2>1, <2>2 DEF FirstMalformed
  <1>7. CASE ReadFrame
    <2>1. taken' \in 0..Len(sent) /\ taken + 1 \in Idx
      BY <1>7 DEF ReadFrame, Idx
    <2>2. reader' \in Reader
      BY <1>7, <2>1 DEF ReadFrame, Reader
    <2> QED BY <1>7, <2>1, <2>2 DEF ReadFrame
  <1>8. CASE ReadClose \/ Join
    <2>1. reader' \in Reader
      BY <1>8 DEF ReadClose, Join, Reader, Idx
    <2>2. UNCHANGED <<ends, shown, taken, client, bridge, server, writer, link, typed, heard>>
      BY <1>8 DEF ReadClose, Join
    <2> QED BY ONLY <2>1, <2>2, IInv DEF IInv, TypeOK, ends, link
  <1>9. CASE Forward
    <2>1. reader' \in Reader
      BY <1>9 DEF Forward, Reader, Idx
    <2>2. client' \in Seq(1..MaxSent) /\ Len(client') <= Capacity
      <3>1. reader.msg \in 1..MaxSent
        BY <1>9 DEF Forward
      <3>2. \/ client' = client
            \/ client' = Append(client, reader.msg) /\ Len(client) < Capacity
        BY <1>9 DEF Forward
      <3>3. client \in Seq(1..MaxSent) /\ Len(client) \in Nat
        OBVIOUS
      <3>4. Append(client, reader.msg) \in Seq(1..MaxSent)
            /\ Len(Append(client, reader.msg)) = Len(client) + 1
        BY ONLY <3>1, <3>3, AppendIs
      <3>5. Len(client) <= Capacity /\ Capacity \in Nat
        OBVIOUS
      <3>6. CASE client' = client
        BY ONLY <3>3, <3>5, <3>6
      <3>7. CASE client' = Append(client, reader.msg) /\ Len(client) < Capacity
        BY ONLY <3>3, <3>4, <3>5, <3>7
      <3> QED BY ONLY <3>2, <3>6, <3>7
    <2> QED BY <1>9, <2>1, <2>2 DEF Forward
  <1> QED BY <1>4, <1>5, <1>6, <1>7, <1>8, <1>9 DEF HandlerStep

\* The writer task keeps the types.
LEMMA WriterTyped == ASSUME IInv, WriterStep \/ WriterSends PROVE TypeOK'
  <1> USE Bounds DEF TypeOK, ends, link, Pc
  <1> USE DEF IInv
  <1>1. Pc(writer, "send") => writer.event \in TerminalStreamEvent
    BY DEF Writer
  <1>2. [pc |-> "done"] \in Writer /\ [pc |-> "recv"] \in Writer
    BY DEF Writer
  <1>3. CASE WriterTakes
    <2>1. /\ Head(server) \in TerminalStreamEvent /\ Tail(server) \in Seq(TerminalStreamEvent)
          /\ Len(Tail(server)) = Len(server) - 1 /\ Len(server) \in Nat
      BY <1>3, TailIs DEF WriterTakes
    <2>2. writer' \in Writer
      BY <1>3, <2>1 DEF WriterTakes, Writer
    <2> QED BY <1>3, <2>1, <2>2 DEF WriterTakes
  <1>4. CASE WriterEnds \/ WriterFails
    BY <1>2, <1>4 DEF WriterEnds, WriterFails
  <1>5. CASE WriterSends
    BY <1>1, <1>2, <1>5 DEF WriterSends
  <1> QED BY <1>3, <1>4, <1>5 DEF WriterStep

\* The bridge keeps the types: numbers of frames and chunks stay in bounds.
LEMMA BridgeTyped == ASSUME IInv, BridgeStep \/ UploadEnds PROVE TypeOK'
  <1> USE Bounds DEF TypeOK, ends, link, Pc
  <1> USE DEF IInv
  <1>1. ASSUME NEW type \in EventTypes, NEW n \in 0..(MaxSent + MaxPrinted), Emit(Event(type, n))
        PROVE  bridge' \in Bridge
    BY <1>1 DEF Emit, Event, Bridge, TerminalStreamEvent
  <1>2. ASSUME NEW s \in {"select", "data", "upload", "done"}, NEW i \in Idx, BridgeTo(s, i)
        PROVE  bridge' \in Bridge
    BY <1>2 DEF BridgeTo, Bridge
  <1>3. 0 \in Idx /\ 0 \in 0..(MaxSent + MaxPrinted)
    BY DEF Idx
  <1>4. CASE Connect
    BY <1>1, <1>2, <1>3, <1>4 DEF Connect, EventTypes
  <1>5. CASE HearOutput
    <2>1. heard + 1 \in 0..(MaxSent + MaxPrinted)
      BY <1>5 DEF HearOutput
    <2>2. bridge' \in Bridge
      BY <1>1, <1>5, <2>1 DEF HearOutput, EventTypes
    <2> QED BY <1>5, <2>2 DEF HearOutput
  <1>6. CASE HearEnd \/ WriteFails
    BY <1>1, <1>3, <1>6 DEF HearEnd, WriteFails, EventTypes
  <1>7. CASE TakeMessage
    <2>1. Head(client) \in 1..MaxSent /\ Tail(client) \in Seq(1..MaxSent)
          /\ Len(Tail(client)) = Len(client) - 1 /\ Len(client) \in Nat
      <3>1. PICK T : T = 1..MaxSent
        OBVIOUS
      <3>2. client \in Seq(T) /\ client # <<>>
        BY <1>7, <3>1 DEF TakeMessage
      <3>3. Len(client) \in Nat
        BY ONLY <3>2
      <3>4. Head(client) \in T /\ Tail(client) \in Seq(T) /\ Len(Tail(client)) = Len(client) - 1
        BY ONLY <3>2, TailIs
      <3> QED BY <3>1, <3>3, <3>4
    <2>2. bridge' \in Bridge
      <3>1. PICK h : h = Head(client)
        OBVIOUS
      <3>2. \E step \in {"select", "data", "upload"} : BridgeTo(step, h)
        BY <1>7, <3>1 DEF TakeMessage
      <3>3. h \in Idx
        BY <2>1, <3>1 DEF Idx
      <3> QED BY ONLY <1>2, <3>2, <3>3
    <2>3. client' \in Seq(1..MaxSent) /\ Len(client') <= Capacity
      <3>1. client' = Tail(client) /\ Len(client) <= Capacity /\ Capacity \in Nat
        BY <1>7 DEF TakeMessage
      <3> QED BY ONLY <2>1, <3>1
    <2>4. UNCHANGED <<ends, shown, taken, reader, server, writer, link, typed, heard>>
      BY <1>7 DEF TakeMessage
    <2> QED BY ONLY <2>2, <2>3, <2>4, IInv DEF IInv, TypeOK, ends, link
  <1>8. CASE ClientClosed
    BY <1>2, <1>3, <1>8 DEF ClientClosed, Finish
  <1>9. CASE WriteInput
    <2>1. typed' \in Seq(1..MaxSent) /\ Len(typed') = Len(typed) + 1 /\ Len(typed) \in Nat
      BY <1>9, AppendIs DEF WriteInput, Busy
    <2>2. bridge' \in Bridge
      BY <1>2, <1>3, <1>9 DEF WriteInput
    <2> QED BY <1>9, <2>1, <2>2 DEF WriteInput
  <1>10. CASE Deliver
    <2>1. bridge.event \in TerminalStreamEvent
      BY <1>10 DEF Deliver, Bridge
    <2>2. server' \in Seq(TerminalStreamEvent) /\ Len(server') <= Capacity
      BY <1>10, <2>1, AppendIs DEF Deliver
    <2>3. bridge' \in Bridge /\ ssh' \in {"none", "up", "ended", "lost"}
      BY <1>2, <1>3, <1>10 DEF Deliver, Finish
    <2> QED BY <1>10, <2>2, <2>3 DEF Deliver
  <1>11. CASE UploadEnds
    BY <1>1, <1>11 DEF UploadEnds, Busy, EventTypes
  <1> QED BY <1>4, <1>5, <1>6, <1>7, <1>8, <1>9, <1>10, <1>11 DEF BridgeStep

\* The client and the shell keep the types.
LEMMA EndsTyped == ASSUME IInv, Ends PROVE TypeOK'
  <1> USE Bounds DEF TypeOK, ends, link
  <1> USE DEF IInv
  <1>1. CASE ClientSends
    <2>1. sent' \in Seq(Kinds) /\ Len(sent') = Len(sent) + 1
      BY <1>1, AppendIs DEF ClientSends
    <2> QED BY <1>1, <2>1 DEF ClientSends
  <1>2. CASE ClientGoes
    BY <1>2 DEF ClientGoes
  <1>3. CASE ShellPrints
    BY <1>3 DEF ShellPrints
  <1>4. CASE ShellReads
    BY <1>4 DEF ShellReads
  <1>5. CASE ShellExits \/ SessionLost
    BY <1>5 DEF ShellExits, SessionLost
  <1> QED BY <1>1, <1>2, <1>3, <1>4, <1>5 DEF Ends

\* The empty sequence and those of one element.
LEMMA Singles == /\ Range(<<>>) = {}
                 /\ \A x : Range(<<x>>) = {x} /\ DOMAIN <<x>> = {1} /\ <<x>>[1] = x
  BY DEF Range

\* Every step keeps the types.
LEMMA TypeStep == ASSUME IInv, Next PROVE TypeOK'
  BY HandlerTyped, WriterTyped, BridgeTyped, EndsTyped DEF Next

-----------------------------------------------------------------------------
(***************************************************************************)
(* What has been started.                                                  *)
(***************************************************************************)
LEMMA StartedStep == ASSUME IInv, Next PROVE Started'
  <1>0. Started
    BY DEF IInv
  <1> USE <1>0, Bounds DEF Started, Serving, Busy, Pc, ReaderTo, BridgeTo, Emit, Event, Finals,
                           ends, link
  <1>1. CASE HandlerStep
    <2>1. CASE FirstFrame
      BY <2>1 DEF FirstFrame, Spawn
    <2>2. CASE FirstMissing
      BY <2>2 DEF FirstMissing, Spawn
    <2>3. CASE FirstMalformed
      BY <2>3 DEF FirstMalformed
    <2>4. CASE ReadFrame
      BY <2>4 DEF ReadFrame
    <2>5. CASE ReadClose \/ Join
      BY <2>5 DEF ReadClose, Join
    <2>6. CASE Forward
      BY <2>6 DEF Forward
    <2> QED BY <1>1, <2>1, <2>2, <2>3, <2>4, <2>5, <2>6 DEF HandlerStep
  <1>2. CASE WriterStep \/ WriterSends
    <2>1. CASE WriterTakes
      BY <2>1 DEF WriterTakes
    <2>2. CASE WriterEnds \/ WriterFails
      BY <2>2 DEF WriterEnds, WriterFails
    <2>3. CASE WriterSends
      BY <2>3 DEF WriterSends
    <2> QED BY <1>2, <2>1, <2>2, <2>3 DEF WriterStep
  <1>3. CASE BridgeStep \/ UploadEnds
    <2>1. CASE Connect
      BY <2>1 DEF Connect
    <2>2. CASE HearOutput
      BY <2>2 DEF HearOutput
    <2>3. CASE HearEnd \/ WriteFails
      BY <2>3 DEF HearEnd, WriteFails
    <2>4. CASE TakeMessage
      BY <2>4 DEF TakeMessage
    <2>5. CASE ClientClosed
      BY <2>5 DEF ClientClosed, Finish
    <2>6. CASE WriteInput
      BY <2>6 DEF WriteInput
    <2>7. CASE Deliver
      BY <2>7 DEF Deliver, Finish
    <2>8. CASE UploadEnds
      BY <2>8 DEF UploadEnds
    <2> QED BY <1>3, <2>1, <2>2, <2>3, <2>4, <2>5, <2>6, <2>7, <2>8 DEF BridgeStep
  <1>4. CASE Ends
    <2>1. CASE ClientSends
      <3>1. Len(sent') = Len(sent) + 1
        BY <2>1 DEF ClientSends, IInv, TypeOK
      <3> QED BY <2>1 DEF ClientSends
    <2>2. CASE ClientGoes
      BY <2>2 DEF ClientGoes
    <2>3. CASE ShellPrints \/ ShellReads \/ ShellExits \/ SessionLost
      BY <2>3 DEF ShellPrints, ShellReads, ShellExits, SessionLost
    <2> QED BY <1>4, <2>1, <2>2, <2>3 DEF Ends
  <1> QED BY <1>1, <1>2, <1>3, <1>4 DEF Next

-----------------------------------------------------------------------------
(***************************************************************************)
(* The way of a frame to the shell.                                        *)
(***************************************************************************)
FramesInv == FramesOrdered /\ FramesKnown /\ NoGap

\* A step that reads, passes on and writes nothing, and drops nothing while
\* the bridge serves but an upload that is over.
LEMMA QuietFrames ==
    ASSUME IInv, UNCHANGED <<typed, client, taken>>,
           \A i \in 1..taken : sent'[i] = sent[i],
           Pc(reader, "send")' => reader' = reader,
           Busy' => bridge' = bridge,
           Serving' => /\ Serving
                       /\ Pc(reader, "send") => reader' = reader
                       /\ Busy => bridge' = bridge \/ Pc(bridge, "upload")
                       /\ (taken < Len(sent') \/ ~gone') => (taken < Len(sent) \/ ~gone)
    PROVE  FramesInv'
  <1>1. /\ Busy' => Busy /\ bridge'.msg = bridge.msg /\ bridge'.pc = bridge.pc
        /\ Pc(reader, "send")' => Pc(reader, "send") /\ reader'.msg = reader.msg
    BY DEF Busy, Pc
  <1>2. Held' \subseteq Held
    BY <1>1 DEF Held
  <1>3. FramesOrdered'
    BY <1>1, <1>2 DEF IInv, FramesOrdered
  <1>4. \A i \in 1..taken : ForShell(i)' <=> ForShell(i)
    BY DEF ForShell, Stream!ForShell
  <1>5. Held \subseteq 1..taken /\ (Busy => bridge.msg \in 1..taken)
    BY DEF IInv, FramesOrdered, Held
  <1>6. FramesKnown'
    BY <1>1, <1>2, <1>4, <1>5 DEF IInv, FramesKnown, Pc, Busy
  <1>7. NoGap'
    <2> SUFFICES ASSUME Serving' PROVE NoGap'
      BY DEF NoGap
    <2>1. ASSUME NEW j \in 1..taken, ForShell(j), Placed(j) PROVE Placed(j)'
      <3>1. CASE j \in Range(typed) \cup Range(client)
        BY <3>1 DEF Placed, Held
      <3>2. CASE Pc(reader, "send") /\ j = reader.msg
        BY <3>2 DEF Placed, Held, Pc
      <3>3. CASE Busy /\ j = bridge.msg
        <4>1. ~Pc(bridge, "upload")
          BY <2>1, <3>3 DEF IInv, FramesKnown, ForShell, Stream!ForShell
        <4> QED BY <3>3, <4>1 DEF Placed, Held, Busy, Pc
      <3> QED BY <2>1, <3>1, <3>2, <3>3 DEF Placed, Held
    <2>2. NoGap /\ Serving /\ taken \in Nat
      BY Bounds DEF IInv
    <2>3. (taken < Len(sent') \/ ~gone') => \A j \in 1..taken : ForShell(j)' => Placed(j)'
      BY <1>4, <2>1, <2>2 DEF NoGap
    <2>4. ASSUME NEW i \in Held', NEW j \in 1..(i - 1), ForShell(j)' PROVE Placed(j)'
      <3>1. i \in Held /\ i \in 1..taken /\ j \in 1..taken
        BY <1>2, <1>5, <2>2
      <3> QED BY <1>4, <2>1, <2>2, <2>4, <3>1 DEF NoGap
    <2> QED BY <2>3, <2>4 DEF NoGap
  <1> QED BY <1>3, <1>6, <1>7 DEF FramesInv

\* When nothing is held and nothing needs to be, there is nothing to show.
LEMMA EmptyFrames ==
    ASSUME IInv, Held' = {}, ~Busy', ~Pc(reader, "send")', client' = <<>>, typed' = <<>>,
           Serving' => ~(taken' < Len(sent') \/ ~gone')
    PROVE  FramesInv'
  <1>1. FramesOrdered'
    BY Singles DEF FramesOrdered
  <1>2. FramesKnown'
    BY DEF FramesKnown, Busy, Pc
  <1>3. NoGap'
    BY DEF NoGap
  <1> QED BY <1>1, <1>2, <1>3 DEF FramesInv

\* Before the first frame nothing is held; after it at most that frame.
LEMMA FirstFrames ==
    ASSUME IInv, FirstFrame \/ FirstMissing \/ FirstMalformed
    PROVE  FramesInv'
  <1>1. Pc(reader, "first")
    BY DEF FirstFrame, FirstMissing, FirstMalformed
  <1>2. /\ taken = 0 /\ client = <<>> /\ typed = <<>> /\ Pc(bridge, "none")
    BY <1>1 DEF IInv, Started
  <1>3. CASE FirstMissing \/ FirstMalformed
    <2>1. /\ client' = <<>> /\ typed' = <<>> /\ ~Busy' /\ ~Pc(reader, "send")'
          /\ Serving' => ~(taken' < Len(sent') \/ ~gone')
      BY <1>2, <1>3, Bounds DEF FirstMissing, FirstMalformed, Spawn, BridgeTo, ReaderTo, Busy,
         Serving, Pc, ends
    <2>2. Held' = {}
      BY <2>1, Singles DEF Held
    <2> QED BY <2>1, <2>2, EmptyFrames
  <1>4. CASE FirstFrame
    <2>1. /\ taken' = 1 /\ sent' = sent /\ typed' = <<>> /\ ~Busy' /\ ~Pc(reader, "send")'
          /\ sent[1] # "garbage"
      BY <1>2, <1>4 DEF FirstFrame, Spawn, BridgeTo, ReaderTo, Busy, Pc, ends
    <2>2. client' = IF sent[1] \in {"input", "upload"} THEN <<1>> ELSE <<>>
      BY <1>2, <1>4 DEF FirstFrame
    <2>3. Held' = IF sent[1] \in {"input", "upload"} THEN {1} ELSE {}
      BY <2>1, <2>2, Singles DEF Held
    <2>4. FramesOrdered'
      <3>1. \A a, b \in DOMAIN client' : a = b
        BY <2>2, Singles
      <3>2. Held' \subseteq 1..1
        BY <2>3
      <3>3. Range(typed') = {}
        BY <2>1, Singles
      <3>4. \A a, b \in DOMAIN client' : a < b => client'[a] < client'[b]
        <4>1. client' = <<>> \/ client' = <<1>>
          BY <2>2
        <4> QED BY <4>1, Singles
      <3> QED BY <2>1, <3>2, <3>3, <3>4 DEF FramesOrdered
    <2>5. FramesKnown'
      BY <2>1, <2>3 DEF FramesKnown, Busy, Pc
    <2>6. NoGap'
      <3>1. ForShell(1)' => 1 \in Held'
        BY <2>1, <2>3 DEF ForShell, Stream!ForShell
      <3>2. \A j \in 1..taken' : j = 1
        BY <2>1
      <3>3. \A i \in Held' : \A j \in 1..(i - 1) : FALSE
        BY <2>3
      <3> QED BY <3>1, <3>2, <3>3 DEF NoGap, Placed
    <2> QED BY <2>4, <2>5, <2>6 DEF FramesInv
  <1> QED BY <1>3, <1>4

\* The reader takes the next frame, which is later than all that is held.
LEMMA ReadFrames ==
    ASSUME IInv, ReadFrame
    PROVE  FramesInv'
  <1>1. /\ Pc(reader, "loop") /\ taken < Len(sent) /\ taken' = taken + 1 /\ sent' = sent
        /\ typed' = typed /\ client' = client /\ bridge' = bridge /\ gone' = gone
    BY DEF ReadFrame, ends
  <1>2. taken \in Nat /\ taken >= 1
    BY <1>1, Bounds DEF IInv, Started, Pc
  <1>3. Held \subseteq 1..taken /\ ~Pc(reader, "send")
    BY <1>1 DEF IInv, FramesOrdered, Pc
  <1>4. (Busy' <=> Busy) /\ bridge'.msg = bridge.msg /\ (Serving' <=> Serving)
    BY <1>1 DEF Busy, Serving, Pc
  <1>5. \/ /\ sent[taken + 1] = "garbage" /\ reader' = reader
           /\ Held' = Held /\ ~Pc(reader, "send")'
        \/ /\ sent[taken + 1] # "garbage" /\ Pc(reader, "send")' /\ reader'.msg = taken + 1
           /\ Held' = Held \cup {taken + 1}
    BY <1>1, <1>3, <1>4 DEF ReadFrame, ReaderTo, Held, Pc
  <1>6. Held' \subseteq 1..taken'
    <2>1. 1..taken \subseteq 1..(taken + 1) /\ taken + 1 \in 1..(taken + 1)
      BY <1>2
    <2> QED BY <1>1, <1>3, <1>5, <2>1
  <1>7. FramesOrdered'
    <2>0. FramesOrdered
      BY DEF IInv
    <2>1. Busy' => \A i \in Range(client') : bridge'.msg < i
      BY <1>1, <1>4, <2>0 DEF FramesOrdered
    <2>2. Pc(reader, "send")' => /\ reader'.msg = taken'
                                 /\ Busy' => bridge'.msg < taken'
                                 /\ \A i \in Range(client') : i < taken'
      <3>1. (Busy => bridge.msg \in 1..taken) /\ \A i \in Range(client) : i \in 1..taken
        BY <1>3 DEF Held
      <3> QED BY <1>1, <1>2, <1>4, <1>5, <3>1
    <2>3. \A j \in Range(typed'), i \in Held' : j < i
      <3>1. \A j \in Range(typed) : j \in 1..taken
        BY <2>0 DEF FramesOrdered
      <3> QED BY <1>1, <1>2, <1>5, <2>0, <3>1 DEF FramesOrdered
    <2>4. \A a, b \in DOMAIN client' : a < b => client'[a] < client'[b]
      BY <1>1, <2>0 DEF FramesOrdered
    <2>5. Range(typed') \subseteq 1..taken'
      BY <1>1, <1>2, <2>0 DEF FramesOrdered
    <2> QED BY <1>6, <2>1, <2>2, <2>3, <2>4, <2>5 DEF FramesOrdered
  <1>8. \A i : ForShell(i)' <=> ForShell(i)
    BY <1>1 DEF ForShell, Stream!ForShell
  <1>9. FramesKnown'
    BY <1>1, <1>2, <1>5, <1>8, <1>4 DEF IInv, FramesKnown, Pc
  <1>10. NoGap'
    <2> SUFFICES ASSUME Serving' PROVE NoGap'
      BY DEF NoGap
    <2>1. \A j \in 1..taken : ForShell(j) => Placed(j)
      BY <1>1, <1>4 DEF IInv, NoGap
    <2>2. ForShell(taken + 1) => taken + 1 \in Held'
      BY <1>5 DEF ForShell, Stream!ForShell
    <2>3. \A j \in 1..taken' : ForShell(j)' => Placed(j)'
      <3>1. \A j \in 1..taken' : j \in 1..taken \/ j = taken + 1
        BY <1>1, <1>2
      <3> QED BY <1>1, <1>5, <1>8, <2>1, <2>2, <3>1 DEF Placed
    <2>4. \A i \in Held' : \A j \in 1..(i - 1) : j \in 1..taken'
      BY <1>1, <1>2, <1>6
    <2> QED BY <2>3, <2>4 DEF NoGap
  <1> QED BY <1>7, <1>9, <1>10 DEF FramesInv

\* The frame the reader holds goes to the back of the channel.
LEMMA ForwardFrames ==
    ASSUME IInv, Forward
    PROVE  FramesInv'
  <1>1. Pc(reader, "send")
    BY DEF Forward
  <1>2. CASE ClientRxDropped
    <2>1. /\ ~Pc(reader, "send")' /\ UNCHANGED <<typed, client, taken, sent, bridge>>
      BY <1>2 DEF Forward, ReaderTo, Pc, ends
    <2>2. ~Serving'
      BY <1>2, <2>1 DEF ClientRxDropped, Serving, Busy, Pc, IInv, Started
    <2> QED BY <2>1, <2>2, QuietFrames
  <1>3. CASE ~ClientRxDropped
    <2>1. /\ client' = Append(client, reader.msg)
          /\ reader' = [pc |-> "loop", msg |-> 0]
          /\ UNCHANGED <<typed, taken, sent, gone, bridge>>
      BY <1>3 DEF Forward, ReaderTo, ends
    <2>2. client \in Seq(1..MaxSent) /\ reader.msg \in 1..MaxSent
      BY <1>1, Bounds DEF IInv, TypeOK
    <2>3. /\ Len(client) \in Nat /\ DOMAIN client = 1..Len(client)
          /\ Len(client') = Len(client) + 1 /\ DOMAIN client' = 1..(Len(client) + 1)
          /\ \A k \in 1..Len(client) : client'[k] = client[k]
          /\ client'[Len(client) + 1] = reader.msg
          /\ Range(client') = Range(client) \cup {reader.msg}
      <3>1. PICK T : T = 1..MaxSent
        OBVIOUS
      <3>2. client \in Seq(T) /\ reader.msg \in T
        BY <2>2, <3>1
      <3>3. Len(client) \in Nat /\ DOMAIN client = 1..Len(client)
        BY <3>2
      <3>4. client' \in Seq(T) /\ DOMAIN client' = 1..Len(client')
        BY <2>1, <3>2
      <3> QED BY <2>1, <3>2, <3>3, <3>4, AppendIs
    <2>4. (Busy' <=> Busy) /\ bridge'.msg = bridge.msg /\ ~Pc(reader, "send")'
          /\ (Serving' <=> Serving)
      BY <2>1 DEF Busy, Serving, Pc
    <2>5. Held' = Held
      BY <1>1, <2>3, <2>4 DEF Held
    <2>6. FramesOrdered'
      <3>0. FramesOrdered /\ reader.msg = taken /\ (Busy => bridge.msg < taken)
            /\ \A i \in Range(client) : i < taken
        BY <1>1 DEF IInv, FramesOrdered
      <3>1. Busy' => \A i \in Range(client') : bridge'.msg < i
        BY <2>3, <2>4, <3>0 DEF FramesOrdered
      <3>2. ASSUME NEW a \in DOMAIN client', NEW b \in DOMAIN client', a < b
            PROVE  client'[a] < client'[b]
        <4>1. a \in 1..Len(client) /\ client'[a] = client[a] /\ client[a] \in Range(client)
          BY <2>3, <3>2 DEF Range
        <4>2. CASE b \in 1..Len(client)
          BY <2>3, <3>0, <3>2, <4>1, <4>2 DEF FramesOrdered
        <4>3. CASE b = Len(client) + 1
          BY <2>3, <3>0, <4>1, <4>3
        <4> QED BY <2>3, <4>2, <4>3
      <3> QED BY <2>1, <2>4, <2>5, <3>0, <3>1, <3>2 DEF FramesOrdered
    <2>7. FramesKnown'
      BY <2>1, <2>5 DEF IInv, FramesKnown, ForShell, Stream!ForShell, Pc
    <2>8. NoGap'
      BY <2>1, <2>4, <2>5 DEF IInv, NoGap, Placed, ForShell, Stream!ForShell
    <2> QED BY <2>6, <2>7, <2>8 DEF FramesInv
  <1> QED BY <1>2, <1>3

\* The bridge takes the oldest frame in the channel.
LEMMA TakeFrames ==
    ASSUME IInv, TakeMessage
    PROVE  FramesInv'
  <1>1. /\ Pc(bridge, "select") /\ client # <<>> /\ client' = Tail(client)
        /\ UNCHANGED <<typed, taken, sent, gone, reader>>
    BY DEF TakeMessage, ends
  <1>2. PICK h : h = Head(client)
    OBVIOUS
  <1>3. client \in Seq(1..MaxSent)
    BY DEF IInv, TypeOK
  <1>4. /\ h \in 1..MaxSent /\ h = client[1] /\ Range(client) = {h} \cup Range(client')
        /\ Len(client) \in Nat \ {0} /\ DOMAIN client = 1..Len(client)
        /\ DOMAIN client' = 1..(Len(client) - 1)
        /\ \A k \in DOMAIN client' : client'[k] = client[k + 1]
    <2>1. PICK T : T = 1..MaxSent
      OBVIOUS
    <2>2. client \in Seq(T)
      BY <1>3, <2>1
    <2>3. Len(client) \in Nat \ {0} /\ DOMAIN client = 1..Len(client)
      BY <1>1, <2>2
    <2>4. /\ h \in T /\ h = client[1] /\ Range(client) = {h} \cup Range(client')
          /\ client' \in Seq(T) /\ Len(client') = Len(client) - 1
          /\ \A k \in 1..Len(client') : client'[k] = client[k + 1]
      BY <1>1, <1>2, <2>2, TailIs
    <2>5. DOMAIN client' = 1..Len(client')
      BY <2>4
    <2> QED BY <2>1, <2>3, <2>4, <2>5
  <1>5. FramesOrdered /\ FramesKnown /\ NoGap
    BY DEF IInv
  <1>6. \A i \in Range(client') : h < i
    <2> SUFFICES ASSUME NEW k \in DOMAIN client' PROVE h < client'[k]
      BY DEF Range
    <2>1. 1 \in DOMAIN client /\ k + 1 \in DOMAIN client /\ 1 < k + 1
      BY <1>4
    <2> QED BY <1>4, <1>5, <2>1 DEF FramesOrdered
  <1>7. \/ sent[h] = "resize" /\ bridge' = [pc |-> "select", msg |-> h]
        \/ sent[h] = "upload" /\ bridge' = [pc |-> "upload", msg |-> h]
        \/ sent[h] \notin {"resize", "upload"} /\ bridge' = [pc |-> "data", msg |-> h]
    BY <1>2 DEF TakeMessage, BridgeTo
  <1>8. h \in Held /\ ~Busy /\ Serving /\ (Busy' => bridge'.msg = h)
    BY <1>1, <1>4, <1>7 DEF Held, Busy, Serving, Pc
  <1>9. Held' \cup {h} = Held /\ (h \in Held' \/ sent[h] = "resize")
    BY <1>1, <1>4, <1>7, <1>8 DEF Held, Busy, Pc
  <1>10. FramesOrdered'
    <2>1. \A a, b \in DOMAIN client' : a < b => client'[a] < client'[b]
      <3> SUFFICES ASSUME NEW a \in DOMAIN client', NEW b \in DOMAIN client', a < b
                   PROVE  client'[a] < client'[b]
        OBVIOUS
      <3>1. a + 1 \in DOMAIN client /\ b + 1 \in DOMAIN client /\ a + 1 < b + 1
        BY <1>4
      <3> QED BY <1>4, <1>5, <3>1 DEF FramesOrdered
    <2>2. Pc(reader, "send")' => /\ reader'.msg = taken'
                                 /\ Busy' => bridge'.msg < taken'
                                 /\ \A i \in Range(client') : i < taken'
      BY <1>1, <1>4, <1>5, <1>8 DEF FramesOrdered, Pc
    <2> QED BY <1>1, <1>5, <1>6, <1>8, <1>9, <2>1, <2>2 DEF FramesOrdered
  <1>11. sent[h] \in Kinds /\ sent[h] # "garbage" /\ (h = 1 => sent[h] \in {"input", "upload"})
    <2>1. sent \in Seq(Kinds) /\ h \in 1..Len(sent)
      BY <1>5, <1>8, Bounds DEF FramesOrdered, IInv, TypeOK
    <2> QED BY <1>5, <1>8, <2>1 DEF FramesKnown
  <1>12. FramesKnown'
    <2>1. Pc(bridge, "data")' => ForShell(bridge.msg)'
      <3>1. SUFFICES ASSUME Pc(bridge, "data")' PROVE ForShell(h)'
        BY <1>7 DEF Pc, ForShell, Stream!ForShell
      <3>2. sent[h] \notin {"resize", "upload"}
        BY <1>7, <3>1 DEF Pc
      <3>3. sent[h] \in {"input", "binary"} /\ (h = 1 => sent[h] = "input")
        BY <1>11, <3>2, BridgeAssumption
      <3>4. h = 1 \/ h > 1
        <4>1. MaxSent \in Nat
          BY Bounds
        <4> QED BY <1>4, <4>1
      <3> QED BY <1>1, <3>3, <3>4 DEF ForShell, Stream!ForShell
    <2> QED BY <1>1, <1>5, <1>7, <1>9, <2>1 DEF FramesKnown, Pc
  <1>13. NoGap'
    <2>1. \A j : ForShell(j)' <=> ForShell(j)
      BY <1>1 DEF ForShell, Stream!ForShell
    <2>2. \A j : ForShell(j) /\ Placed(j) => Placed(j)'
      BY <1>1, <1>9 DEF ForShell, Stream!ForShell, Placed
    <2> QED BY <1>1, <1>5, <1>8, <1>9, <2>1, <2>2 DEF NoGap
  <1> QED BY <1>10, <1>12, <1>13 DEF FramesInv

\* What the bridge has taken is written to the shell.
LEMMA WriteFrames ==
    ASSUME IInv, WriteInput
    PROVE  FramesInv'
  <1>1. /\ Pc(bridge, "data") /\ typed' = Append(typed, bridge.msg)
        /\ bridge' = [pc |-> "select", msg |-> 0]
        /\ UNCHANGED <<client, taken, sent, gone, reader>>
    BY DEF WriteInput, BridgeTo, ends
  <1>2. Busy /\ Serving /\ ~Busy'
    BY <1>1 DEF Busy, Serving, Pc
  <1>3. Range(typed') = Range(typed) \cup {bridge.msg}
    <2>1. typed \in Seq(1..MaxSent) /\ bridge.msg \in 1..MaxSent
      BY <1>2, Bounds DEF IInv, TypeOK
    <2>2. PICK T : T = 1..MaxSent
      OBVIOUS
    <2>3. typed \in Seq(T) /\ bridge.msg \in T
      BY <2>1, <2>2
    <2> QED BY <1>1, <2>3, AppendIs
  <1>4. FramesOrdered /\ FramesKnown /\ NoGap
    BY DEF IInv
  <1>5. bridge.msg \in Held /\ Held = Held' \cup {bridge.msg}
    BY <1>1, <1>2 DEF Held, Pc
  <1>6. \A i \in Held' : bridge.msg < i
    BY <1>1, <1>2, <1>4 DEF Held, FramesOrdered, Pc
  <1>7. FramesOrdered'
    BY <1>1, <1>2, <1>3, <1>4, <1>5, <1>6 DEF FramesOrdered, Pc
  <1>8. FramesKnown'
    BY <1>1, <1>4, <1>5 DEF FramesKnown, Pc
  <1>9. \A j : (ForShell(j)' <=> ForShell(j)) /\ (Placed(j)' <=> Placed(j))
    BY <1>1, <1>3, <1>5 DEF ForShell, Stream!ForShell, Placed
  <1>10. NoGap'
    BY <1>1, <1>2, <1>4, <1>5, <1>9 DEF NoGap
  <1> QED BY <1>7, <1>8, <1>10 DEF FramesInv

\* Every step keeps the frames in order, known and without a gap.
LEMMA FramesStep == ASSUME IInv, Next PROVE FramesInv'
  <1>1. CASE HandlerStep
    <2>1. CASE ReadClose \/ Join
      BY <2>1, QuietFrames DEF ReadClose, Join, ReaderTo, Pc, Busy, Serving, ends
    <2> QED BY <1>1, <2>1, FirstFrames, ReadFrames, ForwardFrames DEF HandlerStep
  <1>2. CASE WriterStep \/ WriterSends
    BY <1>2, QuietFrames DEF WriterStep, WriterSends, WriterTakes, WriterEnds, WriterFails,
       Pc, Busy, Serving, ends
  <1>3. CASE BridgeStep \/ UploadEnds
    <2>1. CASE Connect \/ HearOutput \/ HearEnd
      <3>1. ~Busy /\ ~Busy' /\ Serving /\ UNCHANGED <<typed, client, taken, sent, gone, reader>>
        BY <2>1 DEF Connect, HearOutput, HearEnd, BridgeTo, Emit, Pc, Busy, Serving, ends
      <3> QED BY <3>1, QuietFrames
    <2>2. CASE WriteFails \/ ClientClosed
      <3>1. ~Busy' /\ ~Serving' /\ UNCHANGED <<typed, client, taken, sent, gone, reader>>
        BY <2>2 DEF WriteFails, ClientClosed, Finish, BridgeTo, Emit, Event, Pc, Busy, Serving,
           Finals, ends
      <3> QED BY <3>1, QuietFrames
    <2>3. CASE UploadEnds
      <3>1. ~Busy' /\ Serving /\ Pc(bridge, "upload")
            /\ UNCHANGED <<typed, client, taken, sent, gone, reader>>
        BY <2>3 DEF UploadEnds, Emit, Pc, Busy, Serving, ends
      <3> QED BY <3>1, QuietFrames
    <2>4. CASE Deliver
      <3>1. ~Busy /\ ~Busy' /\ (Serving' => Serving)
            /\ UNCHANGED <<typed, client, taken, sent, gone, reader>>
        BY <2>4 DEF Deliver, Finish, BridgeTo, Pc, Busy, Serving, Finals, ends
      <3> QED BY <3>1, QuietFrames
    <2> QED BY <1>3, <2>1, <2>2, <2>3, <2>4, TakeFrames, WriteFrames DEF BridgeStep
  <1>4. CASE Ends
    <2>1. CASE ClientSends
      <3>1. /\ UNCHANGED <<typed, client, taken, reader, bridge>> /\ ~gone
            /\ \A i \in 1..Len(sent) : sent'[i] = sent[i]
        <4>1. PICK kind \in Kinds : sent' = Append(sent, kind)
          BY <2>1 DEF ClientSends
        <4>2. sent \in Seq(Kinds)
          BY DEF IInv, TypeOK
        <4> QED BY <2>1, <4>1, <4>2, AppendIs DEF ClientSends
      <3>2. \A i \in 1..taken : sent'[i] = sent[i]
        BY <3>1, Bounds
      <3>3. (Serving' <=> Serving) /\ (Busy' <=> Busy) /\ bridge' = bridge /\ reader' = reader
        BY <3>1 DEF Serving, Busy, Pc
      <3> QED BY <3>1, <3>2, <3>3, QuietFrames
    <2>2. CASE ClientGoes \/ ShellPrints \/ ShellReads \/ ShellExits \/ SessionLost
      <3>1. /\ UNCHANGED <<typed, client, taken, sent, reader, bridge>>
            /\ gone => gone'
        BY <2>2 DEF ClientGoes, ShellPrints, ShellReads, ShellExits, SessionLost, ends
      <3>2. (Serving' <=> Serving) /\ (Busy' <=> Busy) /\ bridge' = bridge /\ reader' = reader
        BY <3>1 DEF Serving, Busy, Pc
      <3>3. gone \in BOOLEAN
        BY DEF IInv, TypeOK
      <3> QED BY <3>1, <3>2, <3>3, QuietFrames
    <2> QED BY <1>4, <2>1, <2>2 DEF Ends
  <1> QED BY <1>1, <1>2, <1>3, <1>4 DEF Next

-----------------------------------------------------------------------------
(***************************************************************************)
(* The way of an event to the client.                                      *)
(***************************************************************************)
LEMMA PassingIs ==
    ASSUME IInv
    PROVE  /\ shown \in Seq(TerminalStreamEvent) /\ server \in Seq(TerminalStreamEvent)
           /\ InWriter \in Seq(TerminalStreamEvent) /\ InBridge \in Seq(TerminalStreamEvent)
           /\ Passing \in Seq(TerminalStreamEvent)
           /\ Len(shown) \in Nat /\ Len(Passing) \in Nat /\ Len(shown) <= Len(Passing)
           /\ \A k \in 1..Len(shown) : Passing[k] = shown[k]
  <1>1. shown \in Seq(TerminalStreamEvent) /\ server \in Seq(TerminalStreamEvent)
    BY DEF IInv, TypeOK
  <1>2. InWriter \in Seq(TerminalStreamEvent)
    <2>1. Pc(writer, "send") => writer.event \in TerminalStreamEvent
      BY DEF IInv, TypeOK, Writer, Pc
    <2> QED BY <2>1 DEF InWriter
  <1>3. InBridge \in Seq(TerminalStreamEvent)
    <2>1. Pc(bridge, "emit") => bridge.event \in TerminalStreamEvent
      BY DEF IInv, TypeOK, Bridge, Pc
    <2> QED BY <2>1 DEF InBridge
  <1>4. CASE Pc(writer, "done")
    BY <1>1, <1>2, <1>3, <1>4 DEF Passing
  <1>5. CASE ~Pc(writer, "done")
    <2>1. Passing = shown \o InWriter \o server \o InBridge
      BY <1>5 DEF Passing
    <2>2. PICK a, b : a = shown \o InWriter /\ b = a \o server
      OBVIOUS
    <2>3. /\ a \in Seq(TerminalStreamEvent) /\ Len(a) = Len(shown) + Len(InWriter)
          /\ \A k \in 1..Len(shown) : a[k] = shown[k]
      BY <1>1, <1>2, <2>2, ConcatIs
    <2>4. /\ b \in Seq(TerminalStreamEvent) /\ Len(b) = Len(a) + Len(server)
          /\ \A k \in 1..Len(a) : b[k] = a[k]
      BY <1>1, <2>2, <2>3, ConcatIs
    <2>5. /\ Passing \in Seq(TerminalStreamEvent) /\ Len(Passing) = Len(b) + Len(InBridge)
          /\ \A k \in 1..Len(b) : Passing[k] = b[k]
      BY <1>3, <2>1, <2>2, <2>4, ConcatIs
    <2>6. /\ Len(shown) \in Nat /\ Len(InWriter) \in Nat /\ Len(server) \in Nat
          /\ Len(InBridge) \in Nat
      BY <1>1, <1>2, <1>3
    <2>7. Len(shown) <= Len(a) /\ Len(a) <= Len(b) /\ Len(b) <= Len(Passing)
          /\ Len(a) \in Nat /\ Len(b) \in Nat /\ Len(Passing) \in Nat
      BY <2>3, <2>4, <2>5, <2>6
    <2>8. \A k \in 1..Len(shown) : k \in 1..Len(a) /\ k \in 1..Len(b)
      BY <2>6, <2>7
    <2> QED BY <1>1, <1>2, <1>3, <2>3, <2>4, <2>5, <2>6, <2>7, <2>8
  <1> QED BY <1>4, <1>5

\* The event the writer holds is the one after those shown, and the last one
\* only if nothing is behind it.
LEMMA NextEvent ==
    ASSUME IInv, Pc(writer, "send")
    PROVE  /\ Len(shown) + 1 \in 1..Len(Passing)
           /\ Passing[Len(shown) + 1] = writer.event
           /\ Pc(bridge, "emit") => Len(shown) + 1 < Len(Passing)
  <1>1. Passing = shown \o <<writer.event>> \o server \o InBridge
    BY DEF Passing, InWriter, Pc
  <1>2. writer.event \in TerminalStreamEvent
    BY DEF IInv, TypeOK, Writer, Pc
  <1>3. PICK a, b : a = shown \o <<writer.event>> /\ b = a \o server
    OBVIOUS
  <1>4. a = Append(shown, writer.event)
    BY <1>2, <1>3, PassingIs, Shifts
  <1>5. /\ a \in Seq(TerminalStreamEvent) /\ Len(a) = Len(shown) + 1
        /\ a[Len(shown) + 1] = writer.event
    BY <1>2, <1>4, PassingIs, AppendIs
  <1>6. /\ b \in Seq(TerminalStreamEvent) /\ Len(b) = Len(a) + Len(server)
        /\ \A k \in 1..Len(a) : b[k] = a[k]
    BY <1>3, <1>5, PassingIs, ConcatIs
  <1>7. /\ Len(Passing) = Len(b) + Len(InBridge)
        /\ \A k \in 1..Len(b) : Passing[k] = b[k]
    BY <1>1, <1>3, <1>6, PassingIs, ConcatIs
  <1>8. Len(shown) \in Nat /\ Len(server) \in Nat /\ Len(InBridge) \in Nat
    BY PassingIs
  <1>9. Pc(bridge, "emit") => Len(InBridge) = 1
    BY DEF InBridge
  <1>10. Len(shown) + 1 \in 1..Len(a) /\ Len(shown) + 1 \in 1..Len(b)
         /\ Len(shown) + 1 \in 1..Len(Passing)
    BY <1>5, <1>6, <1>7, <1>8
  <1>11. Passing[Len(shown) + 1] = writer.event
    BY <1>5, <1>6, <1>7, <1>10
  <1>12. ASSUME Pc(bridge, "emit") PROVE Len(shown) + 1 < Len(Passing)
    <2>0. Len(InBridge) = 1
      BY <1>9, <1>12
    <2>1. Len(a) = Len(shown) + 1 /\ Len(b) = Len(a) + Len(server)
          /\ Len(Passing) = Len(b) + Len(InBridge)
      BY <1>5, <1>6, <1>7
    <2> QED BY ONLY <1>8, <2>0, <2>1
  <1> QED BY <1>10, <1>11, <1>12

\* The sequence s is a beginning of the sequence t.
Begins(s, t) == /\ Len(s) <= Len(t)
                /\ \A k \in 1..Len(s) : s[k] = t[k]

\* What becomes of the events on their way: they stay, the bridge adds one, or
\* the writer gives up and the rest is lost.
Stays == Passing' = Passing
Adds == /\ ~Pc(bridge, "emit") /\ Pc(bridge, "emit")' /\ ~Pc(writer, "done")
        /\ writer' = writer /\ Passing' = Append(Passing, bridge'.event)
Cuts == /\ Pc(writer, "done")' /\ Begins(Passing', Passing)

\* A step away from all four places leaves the events as they are.
LEMMA SamePassing ==
    ASSUME UNCHANGED <<shown, writer, server>>, InBridge' = InBridge
    PROVE  Stays
  BY DEF Stays, Passing, InWriter, Pc

\* The bridge begins to send an event; when the writer is gone it is lost.
LEMMA AddsOne ==
    ASSUME IInv, TypeOK', UNCHANGED <<shown, writer, server>>,
           ~Pc(bridge, "emit"), Pc(bridge, "emit")'
    PROVE  IF Pc(writer, "done") THEN Stays ELSE Adds
  <1>1. CASE Pc(writer, "done")
    BY <1>1 DEF Stays, Passing, Pc
  <1>2. CASE ~Pc(writer, "done")
    <2>1. PICK a : a = shown \o InWriter \o server
      OBVIOUS
    <2>2. InWriter' = InWriter /\ ~Pc(writer, "done")'
      BY <1>2 DEF InWriter, Pc
    <2>3. Passing = a \o <<>> /\ Passing' = a \o <<bridge'.event>>
      BY <1>2, <2>1, <2>2 DEF Passing, InBridge
    <2>4. bridge'.event \in TerminalStreamEvent
      BY DEF TypeOK, Bridge, Pc
    <2>5. shown \o InWriter \in Seq(TerminalStreamEvent)
      BY PassingIs, ConcatIs
    <2>6. a \in Seq(TerminalStreamEvent)
      BY <2>1, <2>5, PassingIs, ConcatIs
    <2>7. a \o <<>> = a /\ a \o <<bridge'.event>> = Append(a, bridge'.event)
      BY <2>4, <2>6, Shifts
    <2> QED BY <1>2, <2>3, <2>7 DEF Adds
  <1> QED BY <1>1, <1>2

\* The writer takes the oldest event of the channel.
LEMMA TakesStays == ASSUME IInv, WriterTakes PROVE Stays
  <1>1. /\ Pc(writer, "recv") /\ server # <<>> /\ server' = Tail(server)
        /\ writer' = [pc |-> "send", event |-> Head(server)]
        /\ shown' = shown /\ bridge' = bridge
    BY DEF WriterTakes
  <1>2. InWriter = <<>> /\ InWriter' = <<Head(server)>> /\ InBridge' = InBridge
        /\ ~Pc(writer, "done") /\ ~Pc(writer, "done")'
    BY <1>1 DEF InWriter, InBridge, Pc
  <1>3. shown \o <<>> = shown /\ shown \o <<Head(server)>> \o Tail(server) = shown \o server
    <2>1. Head(server) \in TerminalStreamEvent
      BY <1>1, PassingIs, TailIs
    <2> QED BY <1>1, <2>1, PassingIs, Shifts
  <1>4. Passing = shown \o server \o InBridge
    BY <1>2, <1>3 DEF Passing
  <1>5. Passing' = shown \o <<Head(server)>> \o Tail(server) \o InBridge
    BY <1>1, <1>2 DEF Passing
  <1> QED BY <1>3, <1>4, <1>5 DEF Stays

\* The writer ends on an empty channel that nobody sends on any more.
LEMMA EndsStays == ASSUME IInv, WriterEnds PROVE Stays
  <1>1. /\ Pc(writer, "recv") /\ server = <<>> /\ Pc(bridge, "done")
        /\ Pc(writer, "done")' /\ shown' = shown
    BY DEF WriterEnds, ServerTxDropped, Pc
  <1>2. InWriter = <<>> /\ InBridge = <<>> /\ ~Pc(writer, "done")
    BY <1>1 DEF InWriter, InBridge, Pc
  <1>3. shown \o <<>> = shown
    BY PassingIs, Shifts
  <1>4. Passing = shown /\ Passing' = shown
    BY <1>1, <1>2, <1>3 DEF Passing
  <1> QED BY <1>4 DEF Stays

\* The bridge puts its event into the channel, or drops it if the writer is gone.
LEMMA DeliverStays == ASSUME IInv, Deliver PROVE Stays
  <1>1. Pc(bridge, "emit") /\ ~Pc(bridge, "emit")' /\ shown' = shown /\ writer' = writer
    BY DEF Deliver, BridgeTo, Finish, Pc
  <1>2. CASE Pc(writer, "done")
    BY <1>1, <1>2 DEF Stays, Passing, Pc
  <1>3. CASE ~Pc(writer, "done")
    <2>1. server' = Append(server, bridge.event)
      BY <1>3 DEF Deliver, ServerRxDropped
    <2>2. InBridge = <<bridge.event>> /\ InBridge' = <<>> /\ InWriter' = InWriter
          /\ ~Pc(writer, "done")'
      BY <1>1, <1>3 DEF InBridge, InWriter, Pc
    <2>3. PICK a : a = shown \o InWriter
      OBVIOUS
    <2>4. Passing = a \o server \o <<bridge.event>>
          /\ Passing' = a \o Append(server, bridge.event) \o <<>>
      BY <1>1, <1>3, <2>1, <2>2, <2>3 DEF Passing
    <2>5. bridge.event \in TerminalStreamEvent
      BY <1>1 DEF IInv, TypeOK, Bridge, Pc
    <2>6. a \in Seq(TerminalStreamEvent)
      BY <2>3, PassingIs, ConcatIs
    <2>7. a \o server \in Seq(TerminalStreamEvent)
      BY <2>6, PassingIs, ConcatIs
    <2>8. PICK t : t = Append(server, bridge.event)
      OBVIOUS
    <2>9. t \in Seq(TerminalStreamEvent)
      BY <2>5, <2>8, PassingIs, AppendIs
    <2>10. a \o t \in Seq(TerminalStreamEvent)
      BY <2>6, <2>9, ConcatIs
    <2>11. a \o t \o <<>> = a \o t
      BY <2>10, Shifts
    <2>12. a \o server \o <<bridge.event>> = Append(a \o server, bridge.event)
      BY <2>5, <2>7, Shifts
    <2>13. a \o t = Append(a \o server, bridge.event)
      BY <2>5, <2>6, <2>8, PassingIs, Shifts
    <2> QED BY <2>4, <2>8, <2>11, <2>12, <2>13 DEF Stays
  <1> QED BY <1>2, <1>3

\* What the writer shows was next; after closed it gives up what is behind.
LEMMA SendsMove ==
    ASSUME IInv, WriterSends
    PROVE  IF Pc(writer, "done")' THEN Cuts ELSE Stays
  <1>1. /\ Pc(writer, "send") /\ shown' = Append(shown, writer.event)
        /\ Pc(writer, "done")' \/ Pc(writer, "recv")'
        /\ server' = server /\ bridge' = bridge
    BY DEF WriterSends, Pc
  <1>2. writer.event \in TerminalStreamEvent
    BY <1>1 DEF IInv, TypeOK, Writer, Pc
  <1>3. /\ shown' \in Seq(TerminalStreamEvent) /\ Len(shown') = Len(shown) + 1
        /\ \A k \in 1..Len(shown) : shown'[k] = shown[k]
        /\ shown'[Len(shown) + 1] = writer.event
    BY <1>1, <1>2, PassingIs, AppendIs
  <1>4. CASE Pc(writer, "done")'
    <2>1. Passing' = shown'
      BY <1>4 DEF Passing
    <2>2. ASSUME NEW k \in 1..Len(shown') PROVE Passing[k] = shown'[k]
      <3>1. k \in 1..Len(shown) \/ k = Len(shown) + 1
        BY <1>3, PassingIs
      <3> QED BY <1>1, <1>3, <3>1, PassingIs, NextEvent
    <2>3. Len(shown') <= Len(Passing)
      BY <1>1, <1>3, PassingIs, NextEvent
    <2> QED BY <1>4, <2>1, <2>2, <2>3 DEF Cuts, Begins
  <1>5. CASE ~Pc(writer, "done")'
    <2>1. InWriter = <<writer.event>> /\ InWriter' = <<>> /\ InBridge' = InBridge
          /\ ~Pc(writer, "done")
      BY <1>1, <1>5 DEF InWriter, InBridge, Pc
    <2>2. shown \o <<writer.event>> = shown' /\ shown' \o <<>> = shown'
      BY <1>1, <1>2, <1>3, PassingIs, Shifts
    <2>3. Passing = shown' \o server \o InBridge
      BY <2>1, <2>2 DEF Passing
    <2>4. Passing' = shown' \o server \o InBridge
      BY <1>1, <1>5, <2>1, <2>2 DEF Passing
    <2> QED BY <1>5, <2>3, <2>4 DEF Stays
  <1> QED BY <1>4, <1>5

\* A writer that cannot write gives up all that is not shown.
LEMMA FailsCuts == ASSUME IInv, WriterFails PROVE Cuts
  <1>1. Pc(writer, "done")' /\ shown' = shown
    BY DEF WriterFails, Pc
  <1>2. Passing' = shown
    BY <1>1 DEF Passing
  <1> QED BY <1>1, <1>2, PassingIs DEF Cuts, Begins

\* All steps but those before the first event.
LEMMA PassingStep ==
    ASSUME IInv, Next, ~(FirstFrame \/ FirstMissing \/ FirstMalformed)
    PROVE  Stays \/ Adds \/ Cuts
  <1>0. TypeOK'
    BY TypeStep
  <1>1. CASE HandlerStep
    <2>1. UNCHANGED <<shown, writer, server, bridge>>
      BY <1>1 DEF HandlerStep, ReadFrame, ReadClose, Forward, Join
    <2>2. InBridge' = InBridge
      BY <2>1 DEF InBridge, Pc
    <2> QED BY <2>1, <2>2, SamePassing
  <1>2. CASE WriterStep \/ WriterSends
    BY <1>2, TakesStays, EndsStays, SendsMove, FailsCuts DEF WriterStep
  <1>3. CASE Deliver
    BY <1>3, DeliverStays
  <1>4. CASE (BridgeStep /\ ~Deliver) \/ UploadEnds
    <2>1. UNCHANGED <<shown, writer, server>> /\ ~Pc(bridge, "emit")
      BY <1>4 DEF BridgeStep, Connect, HearOutput, HearEnd, TakeMessage, ClientClosed,
         WriteInput, WriteFails, UploadEnds, Pc
    <2>2. CASE Pc(bridge, "emit")'
      BY <1>0, <2>1, <2>2, AddsOne
    <2>3. CASE ~Pc(bridge, "emit")'
      <3>1. InBridge' = InBridge
        BY <2>1, <2>3 DEF InBridge
      <3> QED BY <2>1, <3>1, SamePassing
    <2> QED BY <2>2, <2>3
  <1>5. CASE Ends
    <2>1. UNCHANGED <<shown, writer, server, bridge>>
      BY <1>5 DEF Ends, ClientSends, ClientGoes, ShellPrints, ShellReads, ShellExits, SessionLost
    <2>2. InBridge' = InBridge
      BY <2>1 DEF InBridge, Pc
    <2> QED BY <2>1, <2>2, SamePassing
  <1> QED BY <1>1, <1>2, <1>3, <1>4, <1>5 DEF Next

\* The instance's Range is the module's.
LEMMA SameRange == \A s : Stream!Range(s) = Range(s)
  BY DEF Range, Stream!Range

\* When the bridge writes or uploads a frame, all input before it is written.
LEMMA BusyInTurn ==
    ASSUME IInv, Busy
    PROVE  /\ bridge.msg \in 1..taken /\ bridge.msg \in 1..Len(sent)
           /\ Stream!TypedBefore(bridge.msg) /\ bridge.msg \notin Range(typed)
           /\ \A i \in Held : i # bridge.msg => bridge.msg < i
  <1>1. bridge.msg \in Held /\ Serving /\ FramesOrdered /\ NoGap
    BY DEF Held, Serving, IInv
  <1>2. bridge.msg \in 1..taken /\ bridge.msg \in 1..Len(sent)
    BY <1>1, Bounds DEF FramesOrdered
  <1>3. \A i \in Held : i # bridge.msg => bridge.msg < i
    BY <1>1 DEF Held, FramesOrdered
  <1>5. bridge.msg \notin Range(typed)
    <2>1. bridge.msg \in Range(typed) => bridge.msg < bridge.msg
      BY <1>1 DEF FramesOrdered
    <2> QED BY <1>2, <2>1, Bounds
  <1>6. ASSUME NEW j \in 1..(bridge.msg - 1), Stream!ForShell(j) PROVE j \in Range(typed)
    <2>1. Placed(j)
      BY <1>1, <1>6 DEF NoGap, ForShell
    <2>2. ~(bridge.msg < j) /\ j # bridge.msg
      BY <1>2, Bounds
    <2> QED BY <1>3, <2>1, <2>2 DEF Placed
  <1> QED BY <1>2, <1>3, <1>5, <1>6, SameRange DEF Stream!TypedBefore

\* Numbers looks at the first k events only.
LEMMA NumbersAgree ==
    ASSUME NEW s, NEW t, NEW k, \A j \in 1..k : s[j] = t[j]
    PROVE  \A types : Numbers(s, k, types) = Numbers(t, k, types)
  BY DEF Numbers

\* An event at the end adds its own number.
LEMMA NumbersAppend ==
    ASSUME NEW T, NEW s \in Seq(T), NEW e \in T, NEW types
    PROVE  Numbers(Append(s, e), Len(s) + 1, types)
              = Numbers(s, Len(s), types) \cup (IF e.type \in types THEN {e.n} ELSE {})
  <1> PICK t : t = Append(s, e)
    OBVIOUS
  <1>1. Len(s) \in Nat /\ (\A j \in 1..Len(s) : t[j] = s[j]) /\ t[Len(s) + 1] = e
    BY AppendIs
  <1>2. 1..(Len(s) + 1) = 1..Len(s) \cup {Len(s) + 1}
    BY <1>1
  <1> QED BY <1>1, <1>2 DEF Numbers

\* What only grows.
LEMMA Monotone ==
    ASSUME IInv, Next
    PROVE  /\ taken <= taken' /\ taken' \in Nat /\ printed <= printed' /\ printed' \in Nat
           /\ \A i \in 1..taken : sent'[i] = sent[i]
           /\ Range(typed) \subseteq Range(typed')
  <1> USE Bounds
  <1>0. taken' \in Nat /\ printed' \in Nat
    <2>1. TypeOK'
      BY TypeStep
    <2>2. Len(sent') \in Nat
      BY <2>1 DEF TypeOK
    <2> QED BY <2>1, <2>2 DEF TypeOK
  <1>1. CASE HandlerStep
    <2>1. UNCHANGED <<sent, typed, printed>>
      BY <1>1 DEF HandlerStep, FirstFrame, FirstMissing, FirstMalformed, ReadFrame, ReadClose,
         Forward, Join, ends, link
    <2>2. taken' = taken \/ taken' = taken + 1 \/ taken' = Len(sent)
      BY <1>1 DEF HandlerStep, FirstFrame, FirstMissing, FirstMalformed, ReadFrame, ReadClose,
         Forward, Join
    <2> QED BY <1>0, <2>1, <2>2
  <1>2. CASE WriterStep \/ WriterSends
    BY <1>0, <1>2 DEF WriterStep, WriterTakes, WriterEnds, WriterFails, WriterSends, ends, link
  <1>3. CASE BridgeStep \/ UploadEnds
    <2>1. CASE WriteInput
      <3>1. typed' = Append(typed, bridge.msg) /\ UNCHANGED <<sent, taken, printed>> /\ Busy
        BY <2>1 DEF WriteInput, ends, link, Busy, Pc
      <3>2. PICK T : T = 1..MaxSent
        OBVIOUS
      <3>3. typed \in Seq(T) /\ bridge.msg \in T
        BY <3>1, <3>2 DEF IInv, TypeOK
      <3>4. Range(typed') = Range(typed) \cup {bridge.msg}
        BY <3>1, <3>3, AppendIs
      <3> QED BY <1>0, <3>1, <3>4
    <2> QED BY <1>0, <1>3, <2>1 DEF BridgeStep, Connect, HearOutput, HearEnd, TakeMessage,
            ClientClosed, WriteFails, Deliver, UploadEnds, ends, link
  <1>4. CASE Ends
    <2>1. CASE ClientSends
      <3>1. PICK kind \in Kinds : sent' = Append(sent, kind)
        BY <2>1 DEF ClientSends
      <3>2. sent \in Seq(Kinds)
        BY DEF IInv, TypeOK
      <3>3. \A i \in 1..Len(sent) : sent'[i] = sent[i]
        BY <3>1, <3>2, AppendIs
      <3>4. \A i \in 1..taken : i \in 1..Len(sent)
        OBVIOUS
      <3>5. UNCHANGED <<taken, typed, printed>>
        BY <2>1 DEF ClientSends, link
      <3> QED BY <1>0, <3>3, <3>4, <3>5
    <2>2. CASE ShellPrints
      BY <1>0, <2>2 DEF ShellPrints, ends
    <2>3. CASE ClientGoes \/ ShellReads \/ ShellExits \/ SessionLost
      BY <1>0, <2>3 DEF ClientGoes, ShellReads, ShellExits, SessionLost, ends, link
    <2> QED BY <1>4, <2>1, <2>2, <2>3 DEF Ends
  <1> QED BY <1>1, <1>2, <1>3, <1>4 DEF Next

\* An event that has its place keeps it.
LEMMA FitsGrows ==
    ASSUME IInv, Next, NEW s, NEW k, Fits(s, k)
    PROVE  Fits(s, k)'
  <1>1. PICK e : e = s[k]
    OBVIOUS
  <1>2. \A j \in 1..taken : ForShell(j)' <=> ForShell(j)
    BY Monotone DEF ForShell, Stream!ForShell
  <1>4. ASSUME e.type \in Stream!Answers
        PROVE  e.n \in 1..taken' /\ sent'[e.n] = "upload" /\ Stream!TypedBefore(e.n)'
    <2>1. e.n \in 1..taken /\ sent[e.n] = "upload" /\ Stream!TypedBefore(e.n)
      BY <1>1, <1>4 DEF Fits
    <2>2. \A j \in 1..(e.n - 1) : j \in 1..taken
      BY <2>1, Bounds
    <2>3. e.n \in 1..taken'
      BY <2>1, Bounds, Monotone
    <2>4. sent'[e.n] = "upload"
      BY <2>1, Monotone
    <2>5. Stream!TypedBefore(e.n)'
      <3> SUFFICES ASSUME NEW j \in 1..(e.n - 1), Stream!ForShell(j)' PROVE j \in Range(typed')
        BY SameRange DEF Stream!TypedBefore
      <3>1. Stream!ForShell(j)
        BY <1>2, <2>2 DEF ForShell
      <3>2. j \in Range(typed)
        BY <2>1, <3>1, SameRange DEF Stream!TypedBefore
      <3> QED BY <3>2, Monotone
    <2> QED BY <2>3, <2>4, <2>5
  <1>5. e.type = "output" => e.n \in 1..printed'
    <2>1. e.type = "output" => e.n \in 1..printed
      BY <1>1 DEF Fits
    <2> QED BY <2>1, Bounds, Monotone
  <1> QED BY <1>1, <1>4, <1>5 DEF Fits

\* The event the bridge adds, and what it goes back to.
LEMMA AddedEvent ==
    ASSUME IInv, Next, Adds
    PROVE  /\ Serving
           /\ \/ \E type \in Finals : bridge'.event = Event(type, 0)
              \/ /\ bridge'.event = Event("output", heard + 1)
                 /\ heard' = heard + 1 /\ heard < printed
              \/ /\ Pc(bridge, "upload") /\ UNCHANGED <<heard, client, reader>>
                 /\ \E type \in Stream!Answers : bridge'.event = Event(type, bridge.msg)
  <1>1. ~Pc(bridge, "emit") /\ Pc(bridge, "emit")'
    BY DEF Adds
  <1>2. ~HandlerStep /\ ~WriterStep /\ ~WriterSends /\ ~Ends
    BY <1>1 DEF HandlerStep, FirstFrame, FirstMissing, FirstMalformed, ReadFrame, ReadClose,
       Forward, Join, WriterStep, WriterTakes, WriterEnds, WriterFails, WriterSends, Ends,
       ClientSends, ClientGoes, ShellPrints, ShellReads, ShellExits, SessionLost, Spawn,
       BridgeTo, Pc
  <1>3. Connect \/ HearOutput \/ HearEnd \/ WriteFails \/ UploadEnds
    BY <1>1, <1>2 DEF Next, BridgeStep, TakeMessage, ClientClosed, WriteInput, Deliver,
       Finish, BridgeTo, Pc
  <1>4. CASE Connect
    BY <1>1, <1>4 DEF Connect, BridgeTo, Emit, Pc, Serving, Finals
  <1>5. CASE HearOutput
    BY <1>5 DEF HearOutput, Emit, Pc, Serving
  <1>6. CASE HearEnd \/ WriteFails
    BY <1>6 DEF HearEnd, WriteFails, Emit, Pc, Serving, Busy, Finals
  <1>7. CASE UploadEnds
    BY <1>7 DEF UploadEnds, Emit, Pc, Serving, Busy, Stream!Answers
  <1> QED BY <1>3, <1>4, <1>5, <1>6, <1>7

\* The event the bridge adds fits those before it: the bridge sends output in
\* the order in which it is heard, and answers in the order of the frames.
LEMMA AddedFits ==
    ASSUME IInv, Next, Adds
    PROVE  \E t : Passing' = t /\ Fits(t, Len(t))'
  <1>1. PICK e, t : e = bridge'.event /\ t = Append(Passing, e)
    OBVIOUS
  <1>2. Passing' = t /\ e \in TerminalStreamEvent
    <2>1. bridge' \in Bridge /\ Pc(bridge, "emit")'
      BY TypeStep DEF TypeOK, Adds
    <2> QED BY <1>1, <2>1 DEF Adds, Bridge, Pc
  <1>3. /\ Len(t) = Len(Passing) + 1 /\ Len(Passing) \in Nat /\ t[Len(t)] = e
        /\ \A k \in 1..Len(Passing) : t[k] = Passing[k]
    BY <1>1, <1>2, PassingIs, AppendIs
  <1>4. \A types : Numbers(t, Len(t) - 1, types) = Numbers(Passing, Len(Passing), types)
    BY <1>3, NumbersAgree
  <1>5. Serving /\ ~Pc(writer, "done")
    BY AddedEvent DEF Adds
  <1> SUFFICES Fits(t, Len(t))'
    BY <1>2
  <1>6. CASE \E type \in Finals : e = Event(type, 0)
    <2>1. e.type \in Finals /\ e.n = 0
      BY <1>6 DEF Event
    <2> QED BY <1>3, <2>1 DEF Fits, Finals, Stream!Answers
  <1>7. CASE e = Event("output", heard + 1) /\ heard < printed
    <2>1. Passing # <<>> /\ Numbers(Passing, Len(Passing), {"output"}) = 1..heard
      BY <1>5 DEF IInv, EventsOpen
    <2>2. Len(t) > 1
      <3>1. Len(Passing) # 0
        BY <2>1, PassingIs
      <3> QED BY <1>3, <3>1
    <2>3. heard + 1 \in 1..printed' /\ (heard + 1) - 1 = heard
      BY <1>7, Bounds, Monotone
    <2>4. e.type = "output" /\ e.n = heard + 1
      BY <1>7 DEF Event
    <2>5. Numbers(t, Len(t) - 1, {"output"}) = 1..(e.n - 1) /\ e.n \in 1..printed'
      BY <1>4, <2>1, <2>3, <2>4
    <2> QED BY <1>3, <2>2, <2>4, <2>5 DEF Fits, Finals, Stream!Answers
  <1>8. CASE Pc(bridge, "upload") /\ \E type \in Stream!Answers : e = Event(type, bridge.msg)
    <2>1. Busy /\ bridge.msg \in Held /\ sent[bridge.msg] = "upload"
      BY <1>8 DEF Busy, Held, Pc, IInv, FramesKnown
    <2>2. bridge.msg \in 1..taken /\ Stream!TypedBefore(bridge.msg)
      BY <2>1, BusyInTurn
    <2>3. \A n \in Numbers(Passing, Len(Passing), Stream!Answers) : n < bridge.msg
      BY <2>1 DEF IInv, AnswersOlder
    <2>4. e.type \in Stream!Answers /\ e.n = bridge.msg
      BY <1>8 DEF Event
    <2>5. \A n \in Numbers(t, Len(t) - 1, Stream!Answers) : n < e.n
      BY <1>4, <2>3, <2>4
    <2>6. Fits(t, Len(t))
      BY <1>3, <2>1, <2>2, <2>4, <2>5 DEF Fits, Finals, Stream!Answers
    <2> QED BY <2>6, FitsGrows
  <1> QED BY <1>1, <1>6, <1>7, <1>8, AddedEvent

\* The first step puts opened on the way, or shows an error and nothing more.
LEMMA FirstPassing ==
    ASSUME IInv, FirstFrame \/ FirstMissing \/ FirstMalformed
    PROVE  /\ \/ Passing' = <<>>
              \/ Passing' = <<Event("error", 0)>> /\ ~Serving'
              \/ Passing' = <<Event("opened", 0)>>
           /\ heard' = 0 /\ bridge'.pc \in {"none", "connect"}
           /\ bridge'.pc = "connect" => shown' = <<>> /\ Passing' = <<Event("opened", 0)>>
  <1>1. Pc(reader, "first")
    BY DEF FirstFrame, FirstMissing, FirstMalformed
  <1>2. /\ shown = <<>> /\ server = <<>> /\ heard = 0 /\ Pc(bridge, "none") /\ Pc(writer, "none")
    BY <1>1 DEF IInv, Started
  <1>4. CASE FirstFrame \/ FirstMissing
    <2>1. /\ server' = <<Event("opened", 0)>> /\ bridge' = [pc |-> "connect", msg |-> 0]
          /\ writer' = [pc |-> "recv"] /\ shown' = <<>> /\ heard' = 0
      BY <1>2, <1>4 DEF FirstFrame, FirstMissing, Spawn, BridgeTo
    <2>2. Passing' = <<>> \o <<>> \o <<Event("opened", 0)>> \o <<>>
      BY <2>1 DEF Passing, InWriter, InBridge, Pc
    <2>3. Passing' = <<Event("opened", 0)>>
      BY <2>2
    <2> QED BY <2>1, <2>3
  <1>5. CASE FirstMalformed
    <2>1. /\ bridge' = bridge /\ writer' = writer /\ server' = <<>> /\ heard' = 0
          /\ shown' = <<>> \/ shown' = Append(<<>>, Event("error", 0))
      BY <1>2, <1>5 DEF FirstMalformed
    <2>2. ~Serving' /\ bridge'.pc = "none"
      BY <1>2, <2>1 DEF Serving, Busy, Pc
    <2>3. shown' = <<>> \/ shown' = <<Event("error", 0)>>
      BY <2>1
    <2>4. Passing' = shown' \o <<>> \o <<>> \o <<>>
      BY <1>2, <2>1 DEF Passing, InWriter, InBridge, Pc
    <2>5. Passing' = shown'
      <3>1. CASE shown' = <<>>
        BY <2>4, <3>1
      <3>2. CASE shown' = <<Event("error", 0)>>
        <4>1. Passing' = <<Event("error", 0)>> \o <<>> \o <<>> \o <<>>
          BY <2>4, <3>2
        <4> QED BY <3>2, <4>1
      <3> QED BY <2>3, <3>1, <3>2
    <2> QED BY <2>1, <2>2, <2>3, <2>5
  <1> QED BY <1>4, <1>5

\* Every step leaves every event fitting those before it.
LEMMA EventsFitStep == ASSUME IInv, Next PROVE EventsFit'
  <1>1. ASSUME NEW s, Passing' = s, \A k \in 1..Len(s) : Fits(s, k)'
        PROVE  EventsFit'
    BY <1>1 DEF EventsFit, Fits
  <1>2. \A k \in 1..Len(Passing) : Fits(Passing, k)
    BY DEF IInv, EventsFit
  <1>3. CASE FirstFrame \/ FirstMissing \/ FirstMalformed
    <2>1. PICK s : s = Passing'
      OBVIOUS
    <2>2. \/ s = <<>>
          \/ \E type \in {"error", "opened"} : s = <<Event(type, 0)>>
      BY <1>3, <2>1, FirstPassing
    <2>3. \A k \in 1..Len(s) : Fits(s, k)'
      <3>1. CASE s = <<>>
        BY <3>1
      <3>2. CASE \E type \in {"error", "opened"} : s = <<Event(type, 0)>>
        <4>1. Len(s) = 1 /\ s[1].type \in {"error", "opened"} /\ s[1].n = 0
          BY <3>2 DEF Event
        <4>2. \A k \in 1..Len(s) : k = 1
          BY <4>1
        <4>3. Fits(s, 1)'
          BY <4>1 DEF Fits, Stream!Answers
        <4> QED BY <4>2, <4>3
      <3> QED BY <2>2, <3>1, <3>2
    <2> QED BY <1>1, <2>1, <2>3
  <1>4. CASE Stays
    <2>1. PICK s : s = Passing
      OBVIOUS
    <2>2. \A k \in 1..Len(s) : Fits(s, k)
      BY <1>2, <2>1
    <2> QED BY <1>1, <1>4, <2>1, <2>2, FitsGrows DEF Stays
  <1>5. CASE Cuts
    <2>1. PICK s : s = Passing'
      OBVIOUS
    <2>2. Len(s) <= Len(Passing) /\ Len(Passing) \in Nat /\ \A k \in 1..Len(s) : s[k] = Passing[k]
      BY <1>5, <2>1, PassingIs DEF Cuts, Begins
    <2>3. Len(s) \in Nat
      <3>1. Passing' = shown' /\ shown' \in Seq(TerminalStreamEvent)
        BY <1>5, TypeStep DEF Cuts, Passing, TypeOK
      <3> QED BY <2>1, <3>1
    <2>4. ASSUME NEW k \in 1..Len(s) PROVE Fits(s, k)
      <3>1. k \in 1..Len(Passing) /\ (k = Len(Passing) => k = Len(s)) /\ s[k] = Passing[k]
        BY <2>2, <2>3
      <3>2. \A j \in 1..(k - 1) : s[j] = Passing[j]
        BY <2>2, <2>3
      <3>3. \A types : Numbers(s, k - 1, types) = Numbers(Passing, k - 1, types)
        BY <3>2, NumbersAgree
      <3>4. Fits(Passing, k)
        BY <1>2, <3>1
      <3> QED BY <3>1, <3>3, <3>4 DEF Fits
    <2> QED BY <1>1, <2>1, <2>4, FitsGrows
  <1>6. CASE Adds
    <2>1. PICK e, s : e = bridge'.event /\ s = Append(Passing, e)
      OBVIOUS
    <2>2. Passing' = s /\ e \in TerminalStreamEvent
      <3>1. bridge' \in Bridge /\ Pc(bridge, "emit")'
        BY <1>6, TypeStep DEF TypeOK, Adds
      <3> QED BY <1>6, <2>1, <3>1 DEF Adds, Bridge, Pc
    <2>3. /\ Len(s) = Len(Passing) + 1 /\ Len(Passing) \in Nat
          /\ \A k \in 1..Len(Passing) : s[k] = Passing[k]
      BY <2>1, <2>2, PassingIs, AppendIs
    <2>4. \A k \in 1..Len(Passing) : Passing[k].type \notin Finals
      BY <1>6, AddedEvent DEF IInv, EventsOpen, Adds
    <2>5. ASSUME NEW k \in 1..Len(Passing) PROVE Fits(s, k)
      <3>1. \A j \in 1..(k - 1) : s[j] = Passing[j]
        BY <2>3
      <3>2. \A types : Numbers(s, k - 1, types) = Numbers(Passing, k - 1, types)
        BY <3>1, NumbersAgree
      <3>3. Fits(Passing, k) /\ s[k] = Passing[k] /\ Passing[k].type \notin Finals
        BY <1>2, <2>3, <2>4
      <3> QED BY <3>2, <3>3 DEF Fits
    <2>6. Fits(s, Len(s))'
      BY <1>6, <2>2, AddedFits
    <2>7. \A k \in 1..Len(s) : k \in 1..Len(Passing) \/ k = Len(s)
      BY <2>3
    <2> QED BY <1>1, <2>2, <2>5, <2>6, <2>7, FitsGrows
  <1> QED BY <1>3, <1>4, <1>5, <1>6, PassingStep

\* Nothing but the first frame puts the bridge to work, and no chunk is heard
\* without an event.
LEMMA ServingMoves ==
    ASSUME IInv, Next, Serving', ~(FirstFrame \/ FirstMissing \/ FirstMalformed)
    PROVE  Serving /\ (heard' = heard \/ HearOutput)
  <1> USE DEF Serving, Busy, Pc
  <1>1. CASE HandlerStep
    BY <1>1 DEF HandlerStep, ReadFrame, ReadClose, Forward, Join
  <1>2. CASE WriterStep \/ WriterSends
    BY <1>2 DEF WriterStep, WriterSends, WriterTakes, WriterEnds, WriterFails
  <1>3. CASE BridgeStep \/ UploadEnds
    <2>1. CASE Connect \/ HearEnd \/ TakeMessage
      BY <2>1 DEF Connect, HearEnd, TakeMessage
    <2>2. CASE HearOutput
      BY <2>2 DEF HearOutput
    <2>3. CASE ClientClosed \/ WriteInput \/ WriteFails \/ UploadEnds
      BY <2>3 DEF ClientClosed, WriteInput, WriteFails, UploadEnds, Finish, BridgeTo
    <2>4. CASE Deliver
      BY <2>4 DEF Deliver, Finish, BridgeTo, Finals
    <2> QED BY <1>3, <2>1, <2>2, <2>3, <2>4 DEF BridgeStep
  <1>4. CASE Ends
    BY <1>4 DEF Ends, ClientSends, ClientGoes, ShellPrints, ShellReads, ShellExits, SessionLost
  <1> QED BY <1>1, <1>2, <1>3, <1>4 DEF Next

\* The writer task is spawned once.
LEMMA WriterStaysDone == ASSUME IInv, Next, Pc(writer, "done") PROVE Pc(writer, "done")'
  <1>1. Pc(bridge, "none") => Pc(writer, "none")
    BY DEF IInv, Started
  <1>2. ~Pc(reader, "first")
    BY <1>1 DEF IInv, Started, Pc
  <1>3. writer' = writer
    BY <1>2 DEF Next, HandlerStep, FirstFrame, FirstMissing, FirstMalformed, ReadFrame,
       ReadClose, Forward, Join, WriterStep, WriterSends, WriterTakes, WriterEnds, WriterFails,
       BridgeStep, UploadEnds, Connect, HearOutput, HearEnd, TakeMessage, ClientClosed,
       WriteInput, WriteFails, Deliver, Ends, ClientSends, ClientGoes, ShellPrints,
       ShellReads, ShellExits, SessionLost, Pc
  <1> QED BY <1>3 DEF Pc

\* As long as the bridge serves, what it has heard is on its way and no end is.
LEMMA EventsOpenStep == ASSUME IInv, Next PROVE EventsOpen'
  <1> SUFFICES ASSUME Serving', ~Pc(writer, "done")' PROVE EventsOpen'
    BY DEF EventsOpen
  <1>1. ASSUME NEW s, Passing' = s, s # <<>>, \A k \in 1..Len(s) : s[k].type \notin Finals,
               Numbers(s, Len(s), {"output"}) = 1..heard'
        PROVE  EventsOpen'
    BY <1>1 DEF EventsOpen, Numbers
  <1>2. CASE FirstFrame \/ FirstMissing \/ FirstMalformed
    <2>1. PICK s : s = <<Event("opened", 0)>>
      OBVIOUS
    <2>2. Passing' = s /\ heard' = 0
      <3>1. bridge'.pc # "none"
        BY DEF Serving, Busy, Pc
      <3> QED BY <1>2, <2>1, <3>1, FirstPassing
    <2>3. s # <<>> /\ Len(s) = 1 /\ s[1].type = "opened"
      BY <2>1 DEF Event
    <2>4. \A k \in 1..Len(s) : s[k].type = "opened"
      BY <2>3
    <2>5. Numbers(s, Len(s), {"output"}) = 1..0
      BY <2>4 DEF Numbers
    <2> QED BY <1>1, <2>2, <2>3, <2>4, <2>5 DEF Finals
  <1>3. CASE ~(FirstFrame \/ FirstMissing \/ FirstMalformed)
    <2>1. Serving /\ ~Pc(writer, "done") /\ (heard' = heard \/ HearOutput)
      BY <1>3, ServingMoves, WriterStaysDone
    <2>2. /\ Passing # <<>> /\ \A k \in 1..Len(Passing) : Passing[k].type \notin Finals
          /\ Numbers(Passing, Len(Passing), {"output"}) = 1..heard
      BY <2>1 DEF IInv, EventsOpen
    <2>3. CASE Adds
      <3>1. PICK e, s : e = bridge'.event /\ s = Append(Passing, e)
        OBVIOUS
      <3>2. Passing' = s /\ Pc(bridge, "emit")' /\ e \in TerminalStreamEvent
        BY <2>3, <3>1, TypeStep DEF TypeOK, Adds, Bridge, Pc
      <3>3. /\ Len(s) = Len(Passing) + 1 /\ Len(Passing) \in Nat /\ s[Len(s)] = e /\ s # <<>>
            /\ \A k \in 1..Len(Passing) : s[k] = Passing[k]
        <4>1. /\ Len(s) = Len(Passing) + 1 /\ Len(Passing) \in Nat /\ s[Len(s)] = e
              /\ \A k \in 1..Len(Passing) : s[k] = Passing[k]
          BY <3>1, <3>2, PassingIs, AppendIs
        <4> QED BY <4>1
      <3>4. e.type \notin Finals
        BY <3>1, <3>2 DEF Serving, Busy, Pc
      <3>5. \A k \in 1..Len(s) : s[k].type \notin Finals
        <4>1. \A k \in 1..Len(s) : k \in 1..Len(Passing) \/ k = Len(s)
          BY <3>3
        <4> QED BY <2>2, <3>3, <3>4, <4>1
      <3>6. Numbers(s, Len(s), {"output"})
              = 1..heard \cup (IF e.type = "output" THEN {e.n} ELSE {})
        <4>1. PICK p : p = Passing
          OBVIOUS
        <4>2. p \in Seq(TerminalStreamEvent)
          BY <4>1, PassingIs
        <4>3. Numbers(Append(p, e), Len(p) + 1, {"output"})
                = Numbers(p, Len(p), {"output"}) \cup (IF e.type \in {"output"} THEN {e.n} ELSE {})
          BY ONLY <3>2, <4>2, NumbersAppend
        <4> QED BY <2>2, <3>1, <3>3, <4>1, <4>3
      <3>7. Numbers(s, Len(s), {"output"}) = 1..heard'
        <4>1. CASE e = Event("output", heard + 1) /\ heard' = heard + 1
          <5>1. e.type = "output" /\ e.n = heard + 1
            BY <4>1 DEF Event
          <5>2. 1..heard \cup {heard + 1} = 1..(heard + 1)
            BY Bounds
          <5> QED BY <3>6, <4>1, <5>1, <5>2
        <4>2. CASE heard' = heard /\ \E type \in Stream!Answers : e = Event(type, bridge.msg)
          <5>1. e.type # "output"
            BY <4>2 DEF Event, Stream!Answers
          <5> QED BY <3>6, <4>2, <5>1
        <4>3. ~\E type \in Finals : e = Event(type, 0)
          BY <3>4 DEF Event
        <4> QED BY <2>3, <3>1, <4>1, <4>2, <4>3, AddedEvent
      <3> QED BY <1>1, <3>2, <3>3, <3>5, <3>7
    <2>4. CASE Stays /\ ~Adds
      <3>1. ~HearOutput
        <4> SUFFICES ASSUME HearOutput PROVE Adds
          BY <2>4
        <4>1. UNCHANGED <<shown, writer, server>> /\ ~Pc(bridge, "emit") /\ Pc(bridge, "emit")'
          BY DEF HearOutput, Emit, Pc
        <4> QED BY <2>1, <4>1, TypeStep, AddsOne
      <3>2. PICK s : s = Passing
        OBVIOUS
      <3> QED BY <1>1, <2>1, <2>2, <2>4, <3>1, <3>2 DEF Stays
    <2>5. CASE Cuts
      BY <2>5 DEF Cuts
    <2> QED BY <1>3, <2>3, <2>4, <2>5, PassingStep
  <1> QED BY <1>2, <1>3

\* What is held was held before or has just been read.
LEMMA HeldMoves ==
    ASSUME IInv, Next
    PROVE  \A i \in Held' : i \in 1..taken' /\ (i \in Held \/ taken < i)
  <1>0. Held' \subseteq 1..taken' /\ taken \in Nat /\ taken' \in Nat
    BY FramesStep, Bounds, Monotone DEF FramesInv, FramesOrdered
  <1> SUFFICES ASSUME NEW i \in Held' PROVE i \in Held \/ taken < i
    BY <1>0
  <1>1. CASE FirstFrame \/ FirstMissing \/ FirstMalformed
    <2>1. taken = 0
      BY <1>1 DEF IInv, Started, FirstFrame, FirstMissing, FirstMalformed
    <2> QED BY <1>0, <2>1
  <1>2. CASE ReadFrame
    <2>1. i \in Held \/ i = taken + 1
      BY <1>2 DEF Held, ReadFrame, ReaderTo, Busy, Pc
    <2> QED BY <1>0, <2>1
  <1>3. CASE Forward
    <2>1. Range(client') \subseteq Range(client) \cup {reader.msg}
      <3>1. PICK T : T = 1..MaxSent
        OBVIOUS
      <3>2. client \in Seq(T) /\ reader.msg \in T
        BY <1>3, <3>1, Bounds DEF Forward, IInv, TypeOK
      <3>3. Range(Append(client, reader.msg)) = Range(client) \cup {reader.msg}
        BY ONLY <3>2, AppendIs
      <3> QED BY <1>3, <3>3 DEF Forward
    <2> QED BY <1>3, <2>1 DEF Held, Forward, ReaderTo, Busy, Pc
  <1>4. CASE TakeMessage
    <2>1. Range(client) = {Head(client)} \cup Range(client')
      <3>1. PICK T : T = 1..MaxSent
        OBVIOUS
      <3>2. client \in Seq(T) /\ client # <<>> /\ client' = Tail(client)
        BY <1>4, <3>1 DEF TakeMessage, IInv, TypeOK
      <3>3. Range(client) = {Head(client)} \cup Range(Tail(client))
        BY ONLY <3>2, TailIs
      <3> QED BY <3>2, <3>3
    <2>2. bridge'.msg = Head(client) /\ reader' = reader
      BY <1>4 DEF TakeMessage, BridgeTo
    <2> QED BY <2>1, <2>2 DEF Held, Pc
  <1>5. CASE ReadClose \/ Join
    BY <1>5 DEF ReadClose, Join, ReaderTo, Held, Busy, Pc
  <1>6. CASE WriterStep \/ WriterSends \/ Ends
    <2>1. UNCHANGED <<client, reader, bridge>>
      BY <1>6 DEF WriterStep, WriterSends, WriterTakes, WriterEnds, WriterFails,
         Ends, ClientSends, ClientGoes, ShellPrints, ShellReads, ShellExits, SessionLost
    <2> QED BY <2>1 DEF Held, Busy, Pc
  <1>7. CASE (BridgeStep /\ ~TakeMessage) \/ UploadEnds
    <2>1. UNCHANGED <<client, reader>> /\ ~Busy'
      BY <1>7 DEF BridgeStep, Connect, HearOutput, HearEnd, ClientClosed, WriteInput, WriteFails,
         Deliver, UploadEnds, Finish, Emit, BridgeTo, Busy, Pc
    <2> QED BY <2>1 DEF Held, Pc
  <1> QED BY <1>1, <1>2, <1>3, <1>4, <1>5, <1>6, <1>7 DEF Next, HandlerStep

\* An answer is to an older frame than any that is still held.
LEMMA AnswersOlderStep == ASSUME IInv, Next PROVE AnswersOlder'
  <1>1. ASSUME NEW s, Passing' = s,
               \A n \in Numbers(s, Len(s), Stream!Answers), i \in Held' : n < i
        PROVE  AnswersOlder'
    BY <1>1 DEF AnswersOlder, Numbers, Stream!Answers
  <1>2. ASSUME NEW n \in Numbers(Passing, Len(Passing), Stream!Answers), NEW i \in Held'
        PROVE  n < i
    <2>1. PICK k \in 1..Len(Passing) : Passing[k].type \in Stream!Answers /\ n = Passing[k].n
      BY DEF Numbers
    <2>2. n \in 1..taken
      BY <2>1 DEF IInv, EventsFit, Fits
    <2>3. i \in Held => n < i
      BY <1>2 DEF IInv, AnswersOlder
    <2> QED BY <2>2, <2>3, HeldMoves, Monotone, Bounds
  <1>3. CASE FirstFrame \/ FirstMissing \/ FirstMalformed
    <2>1. PICK s : s = Passing'
      OBVIOUS
    <2>2. s = <<>> \/ \E type \in {"error", "opened"} : s = <<Event(type, 0)>>
      BY <1>3, <2>1, FirstPassing
    <2>3. \A k \in 1..Len(s) : s[k].type \notin Stream!Answers
      <3>1. CASE s = <<>>
        BY <3>1
      <3>2. CASE \E type \in {"error", "opened"} : s = <<Event(type, 0)>>
        <4>1. Len(s) = 1 /\ s[1].type \in {"error", "opened"}
          BY <3>2 DEF Event
        <4> QED BY <4>1 DEF Stream!Answers
      <3> QED BY <2>2, <3>1, <3>2
    <2>4. Numbers(s, Len(s), Stream!Answers) = {}
      BY <2>3 DEF Numbers
    <2> QED BY <1>1, <2>1, <2>4
  <1>4. CASE Stays
    <2>1. PICK s : s = Passing
      OBVIOUS
    <2> QED BY <1>1, <1>2, <1>4, <2>1 DEF Stays
  <1>5. CASE Cuts
    <2>1. PICK s : s = Passing'
      OBVIOUS
    <2>2. Len(s) <= Len(Passing) /\ Len(Passing) \in Nat /\ \A k \in 1..Len(s) : s[k] = Passing[k]
      BY <1>5, <2>1, PassingIs DEF Cuts, Begins
    <2>3. Len(s) \in Nat
      <3>1. Passing' = shown' /\ shown' \in Seq(TerminalStreamEvent)
        BY <1>5, TypeStep DEF Cuts, Passing, TypeOK
      <3> QED BY <2>1, <3>1
    <2>4. \A k \in 1..Len(s) : k \in 1..Len(Passing)
      BY <2>2, <2>3
    <2>5. Numbers(s, Len(s), Stream!Answers) \subseteq Numbers(Passing, Len(Passing), Stream!Answers)
      BY <2>2, <2>4 DEF Numbers
    <2> QED BY <1>1, <1>2, <2>1, <2>5
  <1>6. CASE Adds
    <2>1. PICK e, s, p : e = bridge'.event /\ p = Passing /\ s = Append(p, e)
      OBVIOUS
    <2>2. Passing' = s /\ Pc(bridge, "emit")' /\ e \in TerminalStreamEvent
      BY <1>6, <2>1, TypeStep DEF TypeOK, Adds, Bridge, Pc
    <2>3. p \in Seq(TerminalStreamEvent)
      BY <2>1, PassingIs
    <2>4. Len(s) = Len(p) + 1
      BY <2>1, <2>2, <2>3, AppendIs
    <2>5. Numbers(s, Len(s), Stream!Answers)
            = Numbers(p, Len(p), Stream!Answers)
              \cup (IF e.type \in Stream!Answers THEN {e.n} ELSE {})
      BY <2>1, <2>2, <2>3, <2>4, NumbersAppend
    <2>6. ASSUME e.type \in Stream!Answers, NEW i \in Held' PROVE e.n < i
      <3>1. /\ Pc(bridge, "upload") /\ UNCHANGED <<client, reader>>
            /\ e.n = bridge.msg
        BY <1>6, <2>1, <2>6, AddedEvent DEF Event, Finals, Stream!Answers
      <3>2. Busy /\ ~Busy'
        BY <2>2, <3>1 DEF Busy, Pc
      <3>3. i \in Range(client) \/ (Pc(reader, "send") /\ i = reader.msg)
        BY <3>1, <3>2 DEF Held, Pc
      <3> QED BY <3>1, <3>2, <3>3 DEF IInv, FramesOrdered
    <2> QED BY <1>1, <1>2, <2>1, <2>2, <2>5, <2>6
  <1> QED BY <1>3, <1>4, <1>5, <1>6, PassingStep

\* An event that ends the session is the last on its way, and the bridge is
\* over when it is shown.
LEMMA LastShown ==
    ASSUME IInv, WriterSends, writer.event.type \in Finals
    PROVE  Pc(bridge, "done")
  <1>1. Pc(writer, "send") /\ ~Pc(writer, "none") /\ ~Pc(writer, "done")
    BY DEF WriterSends, Pc
  <1>2. /\ Len(shown) + 1 \in 1..Len(Passing)
        /\ Passing[Len(shown) + 1] = writer.event
        /\ Pc(bridge, "emit") => Len(shown) + 1 < Len(Passing)
    BY <1>1, NextEvent
  <1>3. ~Serving
    BY <1>1, <1>2 DEF IInv, EventsOpen
  <1>4. ~Pc(bridge, "emit")
    <2>1. Len(shown) + 1 = Len(Passing)
      BY <1>2 DEF IInv, EventsFit, Fits
    <2> QED BY <1>2, <2>1
  <1>5. ~Pc(bridge, "none") /\ bridge \in Bridge
    BY <1>1 DEF IInv, Started, TypeOK
  <1> QED BY <1>3, <1>4, <1>5 DEF Bridge, Serving, Busy, Pc

\* The last event shown ends the session.
LEMMA FinalIs == Stream!Final <=> shown # <<>> /\ shown[Len(shown)].type \in Finals
  BY DEF Stream!Final, Stream!Last, Finals

\* The bridge is over when the end is shown, and does not start again.
LEMMA EndIsLastStep == ASSUME IInv, Next PROVE EndIsLast'
  <1> SUFFICES ASSUME Stream!Final' PROVE bridge'.pc \in {"none", "done"}
    BY DEF EndIsLast
  <1>1. CASE FirstMalformed
    BY <1>1 DEF FirstMalformed, IInv, Started, Pc
  <1>2. CASE WriterSends
    <2>1. shown' = Append(shown, writer.event) /\ bridge' = bridge
          /\ writer.event \in TerminalStreamEvent
      BY <1>2 DEF WriterSends, IInv, TypeOK, Writer, Pc
    <2>2. shown'[Len(shown')] = writer.event
      BY <2>1, PassingIs, AppendIs
    <2>3. writer.event.type \in Finals
      BY <2>2 DEF Stream!Final, Stream!Last, Finals
    <2> QED BY <1>2, <2>1, <2>3, LastShown DEF Pc
  <1>3. CASE ~FirstMalformed /\ ~WriterSends
    <2>1. shown' = shown
      BY <1>3 DEF Next, HandlerStep, FirstFrame, FirstMissing, ReadFrame, ReadClose, Forward,
         Join, WriterStep, WriterTakes, WriterEnds, WriterFails, BridgeStep, UploadEnds,
         Connect, HearOutput, HearEnd, TakeMessage, ClientClosed, WriteInput, WriteFails,
         Deliver, Ends, ClientSends, ClientGoes, ShellPrints, ShellReads, ShellExits, SessionLost
    <2>2. Stream!Final /\ shown # <<>>
      BY <2>1 DEF Stream!Final, Stream!Last
    <2>3. bridge.pc \in {"none", "done"} /\ ~Pc(reader, "first")
      BY <2>2 DEF IInv, EndIsLast, Started
    <2>4. bridge' = bridge
      BY <1>3, <2>3 DEF Next, HandlerStep, FirstFrame, FirstMissing, ReadFrame, ReadClose,
         Forward, Join, WriterStep, WriterTakes, WriterEnds, WriterFails, BridgeStep, UploadEnds,
         Connect, HearOutput, HearEnd, TakeMessage, ClientClosed, WriteInput, WriteFails,
         Deliver, Ends, ClientSends, ClientGoes, ShellPrints, ShellReads, ShellExits,
         SessionLost, Pc
    <2> QED BY <2>3, <2>4
  <1> QED BY <1>1, <1>2, <1>3

-----------------------------------------------------------------------------
(***************************************************************************)
(* The invariant.                                                          *)
(***************************************************************************)
LEMMA InitIInv == ASSUME Init PROVE IInv
  <1> USE DEF Init
  <1>1. TypeOK
    <2>1. /\ Capacity \in Nat /\ MaxSent \in Nat /\ MaxPrinted \in Nat
      BY BridgeAssumption
    <2>2. reader \in Reader /\ bridge \in Bridge /\ writer \in Writer
      BY <2>1 DEF Reader, Bridge, Writer, Idx
    <2>3. \A T : <<>> \in Seq(T)
      OBVIOUS
    <2>4. Len(<<>>) = 0 /\ 0 \in 0..0
      OBVIOUS
    <2>5. /\ sent \in Seq(Kinds) /\ shown \in Seq(TerminalStreamEvent)
          /\ client \in Seq(1..MaxSent) /\ server \in Seq(TerminalStreamEvent)
          /\ typed \in Seq(1..MaxSent)
      BY <2>3
    <2>6. /\ Len(sent) <= MaxSent /\ Len(client) <= Capacity /\ Len(server) <= Capacity
          /\ taken \in 0..Len(sent) /\ consumed \in 0..Len(typed)
          /\ printed \in 0..MaxPrinted /\ heard \in 0..printed
      BY <2>1, <2>4
    <2>7. ssh \in {"none", "up", "ended", "lost"} /\ gone \in BOOLEAN
      OBVIOUS
    <2> QED BY ONLY <2>2, <2>5, <2>6, <2>7 DEF TypeOK
  <1>2. ~Busy /\ ~Serving /\ ~Pc(reader, "send") /\ Held = {} /\ Range(typed) = {}
    BY Singles DEF Busy, Serving, Held, Pc
  <1>3. Started
    BY <1>2 DEF Started, Pc
  <1>4. FramesOrdered /\ FramesKnown /\ NoGap
    <2>1. Range(client) = {}
      BY Singles
    <2>2. DOMAIN client = {}
      OBVIOUS
    <2>3. FramesOrdered
      BY <1>2, <2>1, <2>2 DEF FramesOrdered
    <2> QED BY <1>2, <2>3 DEF FramesKnown, NoGap, Pc
  <1>5. Passing = <<>>
    <2>1. Passing = <<>> \o <<>> \o <<>> \o <<>>
      BY DEF Passing, InWriter, InBridge, Pc
    <2> QED BY <2>1
  <1>6. Numbers(Passing, Len(Passing), Stream!Answers) = {}
    BY <1>5 DEF Numbers
  <1>7. EventsFit /\ EventsOpen /\ AnswersOlder
    BY <1>2, <1>5, <1>6 DEF EventsFit, EventsOpen, AnswersOlder
  <1>8. EndIsLast
    BY DEF EndIsLast
  <1> QED BY <1>1, <1>3, <1>4, <1>7, <1>8 DEF IInv

\* A step that changes nothing keeps the invariant.
LEMMA StutterIInv == ASSUME IInv, UNCHANGED vars PROVE IInv'
  <1>1. /\ UNCHANGED <<sent, shown, gone, taken, reader, client, bridge, server>>
        /\ UNCHANGED <<writer, ssh, typed, consumed, printed, heard>>
    BY DEF vars, ends, link
  <1>2. TypeOK'
    BY <1>1 DEF IInv, TypeOK
  <1>3. (Busy' <=> Busy) /\ (Serving' <=> Serving) /\ Held' = Held
    BY <1>1 DEF Busy, Serving, Held, Pc
  <1>4. Started'
    BY <1>1, <1>3 DEF IInv, Started, Pc
  <1>5. FramesInv'
    BY <1>1, <1>3, QuietFrames DEF Pc
  <1>6. Passing' = Passing /\ (Pc(writer, "done")' <=> Pc(writer, "done"))
    BY <1>1 DEF Passing, InWriter, InBridge, Pc
  <1>7. EventsFit'
    <2>1. PICK s : s = Passing
      OBVIOUS
    <2>2. \A k \in 1..Len(s) : Fits(s, k)
      BY <2>1 DEF IInv, EventsFit
    <2>3. ASSUME NEW k \in 1..Len(s) PROVE Fits(s, k)'
      BY <1>1, <2>2 DEF Fits, Stream!ForShell, Stream!TypedBefore
    <2>4. Passing' = s
      BY <1>6, <2>1
    <2> QED BY <2>3, <2>4 DEF EventsFit, Fits
  <1>8. EventsOpen' /\ AnswersOlder'
    BY <1>1, <1>3, <1>6 DEF IInv, EventsOpen, AnswersOlder, Numbers
  <1>9. EndIsLast'
    BY <1>1 DEF IInv, EndIsLast, Stream!Final, Stream!Last
  <1> QED BY <1>2, <1>4, <1>5, <1>7, <1>8, <1>9 DEF IInv, FramesInv

\* Every step keeps the invariant.
LEMMA StepIInv == ASSUME IInv, [Next]_vars PROVE IInv'
  BY TypeStep, StartedStep, FramesStep, EventsFitStep, EventsOpenStep, AnswersOlderStep,
     EndIsLastStep, StutterIInv DEF IInv, FramesInv

\* No interleaving of the three tasks breaks the order, the place and the
\* completeness of what is between the WebSocket and the shell.
THEOREM InductiveInvariant == Spec => []IInv
  BY InitIInv, StepIInv, PTL DEF Spec

\* The channels stay within their capacity, and every task is at one of its steps.
THEOREM TypeCorrect == Spec => []TypeOK
  <1>1. IInv => TypeOK
    BY DEF IInv
  <1> QED BY <1>1, InductiveInvariant, PTL

-----------------------------------------------------------------------------
(***************************************************************************)
(* The session is a TerminalStream.                                        *)
(***************************************************************************)

\* The events shown are the first ones on the way, and none of them is the end
\* as long as another is to follow.
LEMMA ShownNumbers ==
    ASSUME IInv, NEW types
    PROVE  Numbers(Passing, Len(shown), types) = {e.n : e \in Stream!Of(types)}
  <1>1. DOMAIN shown = 1..Len(shown) /\ \A k \in 1..Len(shown) : Passing[k] = shown[k]
    BY PassingIs
  <1>2. Numbers(Passing, Len(shown), types) = {shown[k].n : k \in {k \in DOMAIN shown : shown[k].type \in types}}
    BY <1>1 DEF Numbers
  <1>3. Stream!Of(types) = {e \in Range(shown) : e.type \in types}
    BY SameRange DEF Stream!Of
  <1>4. Range(shown) = {shown[k] : k \in DOMAIN shown}
    BY DEF Range
  <1> QED BY <1>2, <1>3, <1>4

\* What the writer shows is what the stream may show next.
LEMMA ShowMaps ==
    ASSUME IInv, WriterSends
    PROVE  Stream!Next
  <1>1. PICK e : e = writer.event
    OBVIOUS
  <1>2. /\ shown' = Append(shown, e) /\ UNCHANGED <<sent, typed, printed>>
        /\ e \in TerminalStreamEvent /\ Pc(writer, "send")
    BY <1>1 DEF WriterSends, IInv, TypeOK, Writer, Pc, ends, link
  <1>3. e.type \in EventTypes /\ e = [type |-> e.type, n |-> e.n]
    BY <1>2 DEF TerminalStreamEvent
  <1>4. PICK k : k = Len(shown) + 1
    OBVIOUS
  <1>5. /\ k \in 1..Len(Passing) /\ Passing[k] = e /\ Len(shown) \in Nat /\ k - 1 = Len(shown)
    BY <1>1, <1>2, <1>4, NextEvent, PassingIs
  <1>6. ~Stream!Final
    <2> SUFFICES ASSUME Stream!Final PROVE FALSE
      OBVIOUS
    <2>1. shown # <<>> /\ shown[Len(shown)].type \in Finals
      BY FinalIs
    <2>2. Len(shown) \in 1..Len(shown) /\ Len(shown) \in 1..Len(Passing)
      <3>1. Len(shown) # 0
        BY <2>1, PassingIs
      <3> QED BY <1>5, <3>1, PassingIs
    <2>3. Passing[Len(shown)].type \in Finals
      BY <2>1, <2>2, PassingIs
    <2>4. Len(shown) = Len(Passing)
      BY <2>2, <2>3 DEF IInv, EventsFit, Fits
    <2> QED BY <1>4, <1>5, <2>4
  <1>7. Stream!Show(e)
    BY <1>2, <1>6 DEF Stream!Show
  <1>8. Fits(Passing, k)
    BY <1>5 DEF IInv, EventsFit
  <1>9. \A types : Numbers(Passing, k - 1, types) = {d.n : d \in Stream!Of(types)}
    BY <1>5, ShownNumbers
  <1>10. CASE e.type = "opened"
    <2>1. e.n = 0 /\ shown = <<>>
      <3>1. k = 1 /\ e.n = 0
        BY <1>5, <1>8, <1>10 DEF Fits
      <3>2. Len(shown) = 0
        BY <1>5, <3>1
      <3> QED BY <3>1, <3>2, PassingIs
    <2> QED BY <1>3, <1>7, <1>10, <2>1 DEF Stream!Next
  <1>11. CASE e.type = "output"
    <2>1. k > 1 /\ e.n \in 1..printed /\ Numbers(Passing, k - 1, {"output"}) = 1..(e.n - 1)
      BY <1>5, <1>8, <1>11 DEF Fits
    <2>2. shown # <<>>
      <3>1. Len(shown) # 0
        BY <1>5, <2>1
      <3> QED BY <3>1
    <2>3. e.n <= printed
      BY <2>1, Bounds
    <2>4. Stream!Output(e.n)
      BY <1>3, <1>7, <1>9, <1>11, <2>1, <2>2, <2>3 DEF Stream!Output
    <2> QED BY <2>1, <2>4 DEF Stream!Next
  <1>12. CASE e.type \in Stream!Answers
    <2>1. /\ e.n \in 1..taken /\ sent[e.n] = "upload" /\ Stream!TypedBefore(e.n)
          /\ \A n \in Numbers(Passing, k - 1, Stream!Answers) : n < e.n
      BY <1>5, <1>8, <1>12 DEF Fits
    <2>2. \A d \in Stream!Of(Stream!Answers) : d.n < e.n
      BY <1>9, <2>1
    <2>3. Stream!Answer(e.n)
      BY <1>3, <1>7, <1>12, <2>1, <2>2 DEF Stream!Answer
    <2>4. e.n \in 1..Len(sent)
      BY <2>1, Bounds
    <2> QED BY <2>3, <2>4 DEF Stream!Next
  <1>13. CASE e.type \in Finals
    <2>1. e.n = 0
      BY <1>5, <1>8, <1>13 DEF Fits
    <2> QED BY <1>3, <1>7, <1>13, <2>1 DEF Stream!Next, Finals
  <1> QED BY <1>3, <1>10, <1>11, <1>12, <1>13 DEF EventTypes, Finals, Stream!Answers

\* What the bridge writes is what the stream may type next.
LEMMA TypeMaps ==
    ASSUME IInv, WriteInput
    PROVE  Stream!Next
  <1>1. /\ Pc(bridge, "data") /\ typed' = Append(typed, bridge.msg)
        /\ UNCHANGED <<sent, printed, shown>>
    BY DEF WriteInput, ends, link
  <1>2. Busy
    BY <1>1 DEF Busy, Pc
  <1>3. /\ bridge.msg \in 1..Len(sent) /\ Stream!TypedBefore(bridge.msg)
        /\ bridge.msg \notin Stream!Range(typed)
    BY <1>2, BusyInTurn, SameRange
  <1>4. Stream!ForShell(bridge.msg)
    BY <1>1 DEF IInv, FramesKnown, ForShell
  <1>5. ~Stream!Final
    BY <1>1 DEF IInv, EndIsLast, Pc
  <1>6. Stream!Type(bridge.msg)
    BY <1>1, <1>3, <1>4, <1>5 DEF Stream!Type
  <1> QED BY <1>3, <1>6 DEF Stream!Next

\* Every step is one of the stream, or none.
LEMMA StepMaps ==
    ASSUME IInv, [Next]_vars
    PROVE  [Stream!Next]_<<sent, typed, printed, shown>>
  <1>1. CASE ClientSends
    <2>1. Stream!Send
      BY <1>1, BridgeAssumption DEF ClientSends, Stream!Send, link
    <2> QED BY <2>1 DEF Stream!Next
  <1>2. CASE ShellPrints
    <2>1. Stream!Prints
      BY <1>2 DEF ShellPrints, Stream!Prints, ends
    <2> QED BY <2>1 DEF Stream!Next
  <1>3. CASE FirstMalformed
    <2>1. shown = <<>> /\ UNCHANGED <<sent, typed, printed>>
      BY <1>3 DEF FirstMalformed, IInv, Started, ends, link
    <2>2. CASE shown' = Append(shown, Event("error", 0))
      <3>1. ~Stream!Final
        BY <2>1, FinalIs
      <3>2. Stream!Show([type |-> "error", n |-> 0])
        BY <2>1, <2>2, <3>1 DEF Stream!Show, Event
      <3> QED BY <3>2 DEF Stream!Next
    <2>3. CASE shown' = shown
      BY <2>1, <2>3
    <2> QED BY <1>3, <2>2, <2>3 DEF FirstMalformed
  <1>4. CASE UNCHANGED vars
    BY <1>4 DEF vars, ends, link
  <1>5. CASE Next /\ ~ClientSends /\ ~ShellPrints /\ ~FirstMalformed /\ ~WriterSends /\ ~WriteInput
    <2>1. UNCHANGED <<sent, typed, printed, shown>>
      BY <1>5 DEF Next, HandlerStep, FirstFrame, FirstMissing, ReadFrame, ReadClose, Forward,
         Join, WriterStep, WriterTakes, WriterEnds, WriterFails, BridgeStep, UploadEnds,
         Connect, HearOutput, HearEnd, TakeMessage, ClientClosed, WriteFails, Deliver, Ends,
         ClientGoes, ShellReads, ShellExits, SessionLost, ends, link
    <2> QED BY <2>1
  <1> QED BY <1>1, <1>2, <1>3, <1>4, <1>5, ShowMaps, TypeMaps

\* Typed input reaches the shell in order and whole, output the client, an
\* upload is answered once and after what was typed before it, and nothing is
\* shown after the end, whatever blocks, fails or goes away (handle_terminal,
\* open_session and bridge).
THEOREM ImplementsStream == Spec => StreamKept
  <1>1. Init => Stream!Init
    BY DEF Init, Stream!Init
  <1> QED BY <1>1, InductiveInvariant, StepMaps, PTL DEF Spec, StreamKept, Stream!Spec

=============================================================================
