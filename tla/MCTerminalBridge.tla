-------------------------- MODULE MCTerminalBridge --------------------------
(***************************************************************************)
(* A small instance of TerminalBridge: channels and windows of one place,  *)
(* so that each of them is full sooner or later.                           *)
(***************************************************************************)
EXTENDS TerminalBridge

\* A resize is used up like a binary frame if it comes first and changes nothing
\* that is modelled if it comes later.
MCKinds == {"input", "binary", "upload", "garbage"}
=============================================================================
