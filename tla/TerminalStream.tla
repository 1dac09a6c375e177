--------------------------- MODULE TerminalStream ---------------------------
(***************************************************************************)
(* What a terminal session promises the two ends it connects, whatever     *)
(* blocks, fails or goes away in between: what the client types reaches    *)
(* the shell in order and without a gap, what the shell prints reaches the *)
(* client in order and without a gap, an upload is answered once and after *)
(* everything that was typed before it has been written, and nothing comes *)
(* after "closed" or "error" (jobs/terminal.rs, handlers/stream.rs).       *)
(***************************************************************************)
EXTENDS Integers, Sequences, SequencesExt

VARIABLES
    sent,           \* the frames the client has sent: their kinds
    typed,          \* the frames written to the shell: indices of sent
    printed,        \* how many chunks the shell has printed
    shown           \* the events the client has received

Final == shown # <<>> /\ Last(shown).type \in {"closed", "error"}
Answers == {"file_uploaded", "file_upload_error"}
Of(types) == {e \in Range(shown) : e.type \in types}

\* The first frame is for the dimensions: a binary one is not taken as input.
ForShell(i) == sent[i] = "input" \/ (sent[i] = "binary" /\ i > 1)
TypedBefore(i) == \A j \in 1..(i - 1) : ForShell(j) => j \in Range(typed)

Send == \E kind \in {"input", "binary", "resize", "upload", "garbage"} :
            sent' = Append(sent, kind) /\ UNCHANGED <<typed, printed, shown>>

Type(i) ==
    /\ ~Final
    /\ ForShell(i) /\ TypedBefore(i) /\ i \notin Range(typed)
    /\ typed' = Append(typed, i)
    /\ UNCHANGED <<sent, printed, shown>>

Prints == printed' = printed + 1 /\ UNCHANGED <<sent, typed, shown>>

Show(e) ==
    /\ ~Final
    /\ shown' = Append(shown, e)
    /\ UNCHANGED <<sent, typed, printed>>

Output(n) ==
    /\ shown # <<>> /\ {e.n : e \in Of({"output"})} = 1..(n - 1) /\ n <= printed
    /\ Show([type |-> "output", n |-> n])

Answer(i) ==
    /\ sent[i] = "upload" /\ TypedBefore(i)
    /\ \A e \in Of(Answers) : e.n < i
    /\ \E type \in Answers : Show([type |-> type, n |-> i])

Init == sent = <<>> /\ typed = <<>> /\ printed = 0 /\ shown = <<>>

Next ==
    \/ Send
    \/ \E i \in 1..Len(sent) : Type(i) \/ Answer(i)
    \/ Prints
    \/ \E n \in 1..printed : Output(n)
    \/ shown = <<>> /\ Show([type |-> "opened", n |-> 0])
    \/ \E type \in {"closed", "error"} : Show([type |-> type, n |-> 0])

Spec == Init /\ [][Next]_<<sent, typed, printed, shown>>
=============================================================================
