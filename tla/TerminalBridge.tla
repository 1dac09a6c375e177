--------------------------- MODULE TerminalBridge ---------------------------
(***************************************************************************)
(* A terminal session (api/handlers/stream.rs, handle_terminal, and        *)
(* services/terminal_service.rs, open_session and bridge): the handler     *)
(* reads the WebSocket, a writer task writes it, and a bridge task, which  *)
(* is busy with one message of either side at a time, connects them over   *)
(* two bounded channels with the shell's SSH channel.                      *)
(*                                                                         *)
(* Frames are known by their place in what the client has sent, chunks of  *)
(* output by their number.  Whoever awaits a full channel is a step that   *)
(* is not enabled.                                                         *)
(***************************************************************************)
EXTENDS Integers, Sequences, SequencesExt

CONSTANTS
    Kinds,          \* kinds of frames the client sends
    Capacity,       \* of the two mpsc channels (64)
    Window,         \* what the WebSocket and SSH take before the other side reads
    MaxSent, MaxPrinted     \* bounds on what the two ends say

ASSUME BridgeAssumption ==
    /\ Kinds \subseteq {"input", "binary", "resize", "upload", "garbage"}
    /\ {Capacity, Window} \subseteq Nat \ {0}
    /\ {MaxSent, MaxPrinted} \subseteq Nat

VARIABLES
    sent, shown,    \* history: frames from and events to the client
    gone,           \* the client has closed the WebSocket or is lost
    taken,          \* how many frames the handler has read
    reader,         \* handle_terminal
    client,         \* the channel of TerminalClientMsg
    bridge,         \* the bridge task
    server,         \* the channel of TerminalStreamEvent
    writer,         \* the writer task
    ssh,            \* the SSH session
    typed, consumed,    \* frames handed to SSH for the shell, how many it has read
    printed, heard      \* chunks the shell has printed, how many were waited for

ends == <<sent, gone>>
link == <<ssh, consumed, printed>>
vars == <<sent, shown, gone, taken, reader, client, bridge, server, writer, ssh,
          typed, consumed, printed, heard>>

Stream == INSTANCE TerminalStream

-----------------------------------------------------------------------------
Idx == 0..MaxSent
EventTypes == {"opened", "output", "closed", "error", "file_uploaded", "file_upload_error"}
TerminalStreamEvent == [type : EventTypes, n : 0..(MaxSent + MaxPrinted)]
Event(type, n) == [type |-> type, n |-> n]

Reader == [pc : {"first", "loop", "send", "join", "done"}, msg : Idx]
Bridge == [pc : {"none", "connect", "select", "data", "upload", "done"}, msg : Idx]
          \cup [pc : {"emit"}, event : TerminalStreamEvent]
Writer == [pc : {"none", "recv", "done"}] \cup [pc : {"send"}, event : TerminalStreamEvent]

TypeOK ==
    /\ sent \in Seq(Kinds) /\ Len(sent) <= MaxSent
    /\ shown \in Seq(TerminalStreamEvent)
    /\ gone \in BOOLEAN
    /\ taken \in 0..Len(sent)
    /\ reader \in Reader /\ bridge \in Bridge /\ writer \in Writer
    /\ client \in Seq(1..MaxSent) /\ Len(client) <= Capacity
    /\ server \in Seq(TerminalStreamEvent) /\ Len(server) <= Capacity
    /\ ssh \in {"none", "up", "ended", "lost"}
    /\ typed \in Seq(1..MaxSent) /\ consumed \in 0..Len(typed)
    /\ printed \in 0..MaxPrinted /\ heard \in 0..printed

Init ==
    /\ sent = <<>> /\ shown = <<>> /\ gone = FALSE
    /\ taken = 0
    /\ reader = [pc |-> "first", msg |-> 0]
    /\ client = <<>> /\ server = <<>>
    /\ bridge = [pc |-> "none", msg |-> 0]
    /\ writer = [pc |-> "none"]
    /\ ssh = "none"
    /\ typed = <<>> /\ consumed = 0
    /\ printed = 0 /\ heard = 0

Pc(task, step) == task.pc = step
BridgeTo(step, i) == bridge' = [pc |-> step, msg |-> i]
Emit(e) == bridge' = [pc |-> "emit", event |-> e]

\* The receivers live as long as the tasks that own them, the senders too:
\* client_tx until the handler leaves its loop, server_tx and its clone
\* error_tx until the bridge task is over.
ClientTxDropped == reader.pc \in {"join", "done"}
ClientRxDropped == Pc(bridge, "done") \/ (Pc(bridge, "emit") /\ ssh = "none")
ServerTxDropped == Pc(bridge, "done")
ServerRxDropped == Pc(writer, "done")

-----------------------------------------------------------------------------
(***************************************************************************)
(* handle_terminal.                                                        *)
(***************************************************************************)
ReaderTo(step, i) == reader' = [pc |-> step, msg |-> i]

Spawn ==
    /\ server' = <<Event("opened", 0)>>
    /\ BridgeTo("connect", 0)
    /\ writer' = [pc |-> "recv"]

\* A resize sets the dimensions.  Any other text message is passed on; a
\* binary frame is used up for the defaults.
FirstFrame ==
    /\ Pc(reader, "first") /\ taken < Len(sent)
    /\ sent[taken + 1] # "garbage"
    /\ taken' = taken + 1
    /\ client' = IF sent[taken + 1] \in {"input", "upload"} THEN <<taken + 1>> ELSE <<>>
    /\ ReaderTo("loop", 0)
    /\ Spawn
    /\ UNCHANGED <<ends, shown, link, typed, heard>>

\* Closed or broken before a frame has come: the session is opened all the same.
FirstMissing ==
    /\ Pc(reader, "first") /\ gone
    /\ taken' = Len(sent)
    /\ ReaderTo("loop", 0)
    /\ Spawn
    /\ UNCHANGED <<ends, shown, client, link, typed, heard>>

FirstMalformed ==
    /\ Pc(reader, "first") /\ taken < Len(sent)
    /\ sent[taken + 1] = "garbage"
    /\ taken' = taken + 1
    /\ \/ shown' = Append(shown, Event("error", 0))
       \/ gone /\ UNCHANGED shown
    /\ ReaderTo("done", 0)
    /\ UNCHANGED <<ends, client, bridge, server, writer, link, typed, heard>>

ReadFrame ==
    /\ Pc(reader, "loop") /\ taken < Len(sent)
    /\ taken' = taken + 1
    /\ IF sent[taken + 1] = "garbage" THEN UNCHANGED reader ELSE ReaderTo("send", taken + 1)
    /\ UNCHANGED <<ends, shown, client, bridge, server, writer, link, typed, heard>>

\* A close frame comes after all others, an error at any time.
ReadClose ==
    /\ Pc(reader, "loop") /\ gone
    /\ ReaderTo("join", 0)
    /\ UNCHANGED <<ends, shown, taken, client, bridge, server, writer, link, typed, heard>>

\* Mutation: try_send, which drops what finds the channel full.
Forward_Try ==
    /\ Pc(reader, "send")
    /\ IF ClientRxDropped THEN ReaderTo("join", 0) /\ UNCHANGED client
       ELSE /\ client' = IF Len(client) < Capacity THEN Append(client, reader.msg) ELSE client
            /\ ReaderTo("loop", 0)
    /\ UNCHANGED <<ends, shown, taken, bridge, server, writer, link, typed, heard>>

Forward ==
    /\ Pc(reader, "send")
    /\ IF ClientRxDropped THEN ReaderTo("join", 0) /\ UNCHANGED client
       ELSE /\ Len(client) < Capacity
            /\ client' = Append(client, reader.msg)
            /\ ReaderTo("loop", 0)
    /\ UNCHANGED <<ends, shown, taken, bridge, server, writer, link, typed, heard>>

Join ==
    /\ Pc(reader, "join") /\ Pc(bridge, "done") /\ Pc(writer, "done")
    /\ ReaderTo("done", 0)
    /\ UNCHANGED <<ends, shown, taken, client, bridge, server, writer, link, typed, heard>>

-----------------------------------------------------------------------------
(***************************************************************************)
(* The writer task.                                                        *)
(***************************************************************************)
WriterTakes ==
    /\ Pc(writer, "recv") /\ server # <<>>
    /\ writer' = [pc |-> "send", event |-> Head(server)]
    /\ server' = Tail(server)
    /\ UNCHANGED <<ends, shown, taken, reader, client, bridge, link, typed, heard>>

\* Mutation: the handler keeps its server_tx until it returns.
WriterEnds_Kept ==
    /\ Pc(writer, "recv") /\ server = <<>> /\ ServerTxDropped /\ Pc(reader, "done")
    /\ writer' = [pc |-> "done"]
    /\ UNCHANGED <<ends, shown, taken, reader, client, bridge, server, link, typed, heard>>

WriterEnds ==
    /\ Pc(writer, "recv") /\ server = <<>> /\ ServerTxDropped
    /\ writer' = [pc |-> "done"]
    /\ UNCHANGED <<ends, shown, taken, reader, client, bridge, server, link, typed, heard>>

\* Waits until the client reads.
WriterSends ==
    /\ Pc(writer, "send") /\ ~gone
    /\ shown' = Append(shown, writer.event)
    /\ writer' = [pc |-> IF writer.event.type = "closed" THEN "done" ELSE "recv"]
    /\ UNCHANGED <<ends, taken, reader, client, bridge, server, link, typed, heard>>

WriterFails ==
    /\ Pc(writer, "send") /\ gone
    /\ writer' = [pc |-> "done"]
    /\ UNCHANGED <<ends, shown, taken, reader, client, bridge, server, link, typed, heard>>

-----------------------------------------------------------------------------
(***************************************************************************)
(* open_session, bridge and upload_file.                                   *)
(***************************************************************************)
Connect ==
    /\ Pc(bridge, "connect")
    /\ \/ ssh' = "up" /\ BridgeTo("select", 0)
       \/ ssh' = "none" /\ Emit(Event("error", 0))
    /\ UNCHANGED <<ends, shown, taken, reader, client, server, writer, typed, consumed,
                   printed, heard>>

\* channel.wait: output, or the end of the shell or of the session.  The exit
\* status may come before the rest of the output.
HearOutput ==
    /\ Pc(bridge, "select") /\ heard < printed
    /\ heard' = heard + 1
    /\ Emit(Event("output", heard + 1))
    /\ UNCHANGED <<ends, shown, taken, reader, client, server, writer, link, typed>>

HearEnd ==
    /\ Pc(bridge, "select") /\ ssh \in {"ended", "lost"}
    /\ Emit(Event("closed", 0))
    /\ UNCHANGED <<ends, shown, taken, reader, client, server, writer, link, typed, heard>>

\* client_rx.recv.  A window change that fails is only logged.
TakeMessage ==
    /\ Pc(bridge, "select") /\ client # <<>>
    /\ client' = Tail(client)
    /\ LET kind == sent[Head(client)] IN
       BridgeTo(CASE kind = "upload" -> "upload" [] kind = "resize" -> "select"
                  [] OTHER -> "data", Head(client))
    /\ UNCHANGED <<ends, shown, taken, reader, server, writer, link, typed, heard>>

Finish == BridgeTo("done", 0) /\ ssh' = IF ssh = "none" THEN ssh ELSE "lost"

\* The handler has left its loop: EOF to the shell.
ClientClosed ==
    /\ Pc(bridge, "select") /\ client = <<>> /\ ClientTxDropped
    /\ Finish
    /\ UNCHANGED <<ends, shown, taken, reader, client, server, writer, typed, consumed,
                   printed, heard>>

\* channel.data waits for the shell's window; what a shell that has ended is
\* sent may be accepted or refused.
WriteInput ==
    /\ Pc(bridge, "data")
    /\ ssh = "ended" \/ (ssh = "up" /\ Len(typed) - consumed < Window)
    /\ typed' = Append(typed, bridge.msg)
    /\ BridgeTo("select", 0)
    /\ UNCHANGED <<ends, shown, taken, reader, client, server, writer, link, heard>>

WriteFails ==
    /\ Pc(bridge, "data") /\ ssh \in {"ended", "lost"}
    /\ Emit(Event("error", 0))
    /\ UNCHANGED <<ends, shown, taken, reader, client, server, writer, link, typed, heard>>

\* upload_file refuses the path or the data, or cat ends; without an exit
\* status it counts as done.  On a lost session the status does not come.
UploadEnds ==
    /\ Pc(bridge, "upload")
    /\ \E type \in {"file_uploaded", "file_upload_error"} : Emit(Event(type, bridge.msg))
    /\ UNCHANGED <<ends, shown, taken, reader, client, server, writer, link, typed, heard>>

\* Mutation: the loop is not left after closed.
Deliver_Continues ==
    /\ Pc(bridge, "emit")
    /\ ServerRxDropped \/ Len(server) < Capacity
    /\ server' = IF ServerRxDropped THEN server ELSE Append(server, bridge.event)
    /\ IF bridge.event.type \in {"file_uploaded", "file_upload_error", "closed"}
          \/ (bridge.event.type = "output" /\ ~ServerRxDropped)
       THEN BridgeTo("select", 0) /\ UNCHANGED ssh
       ELSE Finish
    /\ UNCHANGED <<ends, shown, taken, reader, client, writer, typed, consumed, printed, heard>>

\* server_tx.send.  Output that nobody receives ends the loop, an answer does
\* not; after closed, a write error or a failed connection it is over anyway.
Deliver ==
    /\ Pc(bridge, "emit")
    /\ ServerRxDropped \/ Len(server) < Capacity
    /\ server' = IF ServerRxDropped THEN server ELSE Append(server, bridge.event)
    /\ IF bridge.event.type \in {"file_uploaded", "file_upload_error"}
          \/ (bridge.event.type = "output" /\ ~ServerRxDropped)
       THEN BridgeTo("select", 0) /\ UNCHANGED ssh
       ELSE Finish
    /\ UNCHANGED <<ends, shown, taken, reader, client, writer, typed, consumed, printed, heard>>

-----------------------------------------------------------------------------
(***************************************************************************)
(* The two ends.                                                           *)
(***************************************************************************)
ClientSends ==
    /\ ~gone /\ Len(sent) < MaxSent /\ Len(sent) - taken < Window
    /\ \E kind \in Kinds : sent' = Append(sent, kind)
    /\ UNCHANGED <<gone, shown, taken, reader, client, bridge, server, writer, link, typed, heard>>

ClientGoes ==
    /\ ~gone
    /\ gone' = TRUE
    /\ UNCHANGED <<sent, shown, taken, reader, client, bridge, server, writer, link, typed, heard>>

ShellPrints ==
    /\ ssh = "up" /\ printed < MaxPrinted /\ printed - heard < Window
    /\ printed' = printed + 1
    /\ UNCHANGED <<ends, shown, taken, reader, client, bridge, server, writer, ssh, typed,
                   consumed, heard>>

ShellReads ==
    /\ ssh = "up" /\ consumed < Len(typed)
    /\ consumed' = consumed + 1
    /\ UNCHANGED <<ends, shown, taken, reader, client, bridge, server, writer, ssh, typed,
                   printed, heard>>

ShellExits ==
    /\ ssh = "up"
    /\ ssh' = "ended"
    /\ UNCHANGED <<ends, shown, taken, reader, client, bridge, server, writer, typed, consumed,
                   printed, heard>>

\* The connection breaks or is silent for inactivity_timeout.
SessionLost ==
    /\ ssh \in {"up", "ended"}
    /\ ssh' = "lost"
    /\ UNCHANGED <<ends, shown, taken, reader, client, bridge, server, writer, typed, consumed,
                   printed, heard>>

HandlerStep == FirstFrame \/ FirstMissing \/ FirstMalformed \/ ReadFrame \/ ReadClose
               \/ Forward \/ Join
WriterStep == WriterTakes \/ WriterEnds \/ WriterFails
BridgeStep == Connect \/ HearOutput \/ HearEnd \/ TakeMessage \/ ClientClosed
              \/ WriteInput \/ WriteFails \/ Deliver
Ends == ClientSends \/ ClientGoes \/ ShellPrints \/ ShellReads \/ ShellExits \/ SessionLost

Next == HandlerStep \/ WriterStep \/ WriterSends \/ BridgeStep \/ UploadEnds \/ Ends

Spec == Init /\ [][Next]_vars

\* tokio polls the three tasks.  Neither the client nor the shell has to read,
\* print or answer; but while the bridge waits for the shell nothing reads
\* what it prints, so that the connection falls silent and times out.
FairSpec ==
    /\ Spec
    /\ WF_vars(HandlerStep) /\ WF_vars(WriterStep) /\ WF_vars(BridgeStep)
    /\ WF_vars(SessionLost /\ bridge.pc \in {"data", "upload"})
    /\ WF_vars(UploadEnds /\ ssh = "lost")

-----------------------------------------------------------------------------
(***************************************************************************)
(* Properties.                                                             *)
(***************************************************************************)

\* Through three tasks, two channels and every failure, the session behaves as
\* TerminalStream says: order is kept on each way and between typing and
\* uploads, and nothing comes after the end.
StreamKept == Stream!Spec

\* Whatever is full, blocked or under way, once the client is gone all three
\* tasks end and the SSH session is given up.
SessionEnds == gone ~> Pc(reader, "done") /\ bridge.pc \in {"none", "done"} /\ ssh \in {"none", "lost"}

-----------------------------------------------------------------------------
(***************************************************************************)
(* The inductive invariant behind StreamKept.                              *)
(***************************************************************************)
Finals == {"closed", "error"}
ForShell(i) == Stream!ForShell(i)

\* The bridge is at work, and may still read input and produce events.
Busy == bridge.pc \in {"data", "upload"}
Serving == \/ bridge.pc \in {"connect", "select"} \/ Busy
           \/ Pc(bridge, "emit") /\ bridge.event.type \notin Finals

\* Nothing is under way before the first frame; if none has come, none will.
Started ==
    /\ Pc(reader, "first") => Pc(bridge, "none") /\ taken = 0 /\ shown = <<>>
    /\ reader.pc \in {"loop", "send"} => taken >= 1 \/ (gone /\ taken = Len(sent))
    /\ Pc(bridge, "none") <=> Pc(writer, "none")
    /\ Pc(bridge, "none") => /\ reader.pc \in {"first", "done"}
                             /\ client = <<>> /\ server = <<>> /\ typed = <<>>
                             /\ heard = 0 /\ ssh = "none"
    /\ (Serving /\ bridge.pc # "connect") => ssh # "none"

\* The frames between the WebSocket and the shell.
Held == (IF Busy THEN {bridge.msg} ELSE {}) \cup Range(client)
        \cup (IF Pc(reader, "send") THEN {reader.msg} ELSE {})

\* They are in the order in which they were read, and behind what is typed.
FramesOrdered ==
    /\ Range(typed) \cup Held \subseteq 1..taken
    /\ Busy => \A i \in Range(client) : bridge.msg < i
    /\ \A a, b \in DOMAIN client : a < b => client[a] < client[b]
    /\ Pc(reader, "send") => /\ reader.msg = taken
                             /\ Busy => bridge.msg < taken
                             /\ \A i \in Range(client) : i < taken
    /\ \A j \in Range(typed), i \in Held : j < i

\* They are of a kind that is passed on, and the bridge treats them by kind.
FramesKnown ==
    /\ \A i \in Held : sent[i] # "garbage" /\ (i = 1 => sent[i] \in {"input", "upload"})
    /\ Pc(bridge, "data") => ForShell(bridge.msg)
    /\ Pc(bridge, "upload") => sent[bridge.msg] = "upload"

\* As long as it matters to anything still to be written, no input is missing.
Placed(i) == i \in Range(typed) \cup Held
NoGap ==
    Serving => /\ (taken < Len(sent) \/ ~gone) =>
                     \A j \in 1..taken : ForShell(j) => Placed(j)
               /\ \A i \in Held : \A j \in 1..(i - 1) : ForShell(j) => Placed(j)

\* The events from the first one shown to the one about to be sent, as the
\* client is going to see them; when the writer is gone, there are no more.
InWriter == IF Pc(writer, "send") THEN <<writer.event>> ELSE <<>>
InBridge == IF Pc(bridge, "emit") THEN <<bridge.event>> ELSE <<>>
Passing == IF Pc(writer, "done") THEN shown
           ELSE shown \o InWriter \o server \o InBridge

\* Each has its place among those before it.
Numbers(s, k, types) == {s[j].n : j \in {j \in 1..k : s[j].type \in types}}
Fits(s, k) ==
    LET e == s[k]
    IN  /\ e.type = "opened" => k = 1 /\ e.n = 0
        /\ e.type = "output" => /\ k > 1 /\ e.n \in 1..printed
                                /\ Numbers(s, k - 1, {"output"}) = 1..(e.n - 1)
        /\ e.type \in Stream!Answers => /\ e.n \in 1..taken /\ sent[e.n] = "upload"
                                        /\ Stream!TypedBefore(e.n)
                                        /\ \A n \in Numbers(s, k - 1, Stream!Answers) : n < e.n
        /\ e.type \in Finals => k = Len(s) /\ e.n = 0
EventsFit == \A k \in 1..Len(Passing) : Fits(Passing, k)

\* While the bridge serves a client that is still written to, nothing has
\* ended, and all that was heard is on its way; answers are older than what is
\* held; after the end the bridge does nothing.
EventsOpen ==
    (Serving /\ ~Pc(writer, "done")) =>
        /\ Passing # <<>>
        /\ \A k \in 1..Len(Passing) : Passing[k].type \notin Finals
        /\ Numbers(Passing, Len(Passing), {"output"}) = 1..heard
AnswersOlder ==
    \A n \in Numbers(Passing, Len(Passing), Stream!Answers), i \in Held : n < i
EndIsLast == Stream!Final => bridge.pc \in {"none", "done"}

IInv ==
    /\ TypeOK /\ Started
    /\ FramesOrdered /\ FramesKnown /\ NoGap
    /\ EventsFit /\ EventsOpen /\ AnswersOlder /\ EndIsLast
=============================================================================
