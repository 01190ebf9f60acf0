-------------------------- MODULE CommandChannel --------------------------
(***************************************************************************)
(* What the transport of the TSS promises an application: a command is     *)
(* executed at most once, and a call returns an error or the response to   *)
(* its own command.  After an error something of the command may still be  *)
(* under way (`residue`); until the connection is opened anew nothing is   *)
(* promised about which response a call returns.                           *)
(***************************************************************************)
EXTENDS Naturals

CONSTANTS
  Commands, \* the commands, each sent once
  NoCall,   \* no call is in progress
  Error,    \* the answer of a call that failed
  Garbled   \* an answer pieced together from bytes of several responses

VARIABLES
  submitted, \* commands handed to the transport
  call,      \* the command whose call is in progress, or NoCall
  executed,  \* commands the TPM has executed
  answer,    \* the answer of the last call
  residue    \* something of an earlier command may be on the connection

vars == <<submitted, call, executed, answer, residue>>

Init ==
  /\ submitted = {}
  /\ call = NoCall
  /\ executed = {}
  /\ answer = Error
  /\ residue = FALSE

Submit(c) ==
  /\ call = NoCall
  /\ c \notin submitted
  /\ submitted' = submitted \union {c}
  /\ call' = c
  /\ UNCHANGED <<executed, answer, residue>>

Execute(c) ==
  /\ c \in submitted \ executed
  /\ executed' = executed \union {c}
  /\ UNCHANGED <<submitted, call, answer, residue>>

Return ==
  /\ call \in executed
  /\ answer' = call
  /\ call' = NoCall
  /\ UNCHANGED <<submitted, executed, residue>>

ReturnAnother ==
  /\ call # NoCall
  /\ residue
  /\ answer' \in executed \union {Garbled}
  /\ call' = NoCall
  /\ UNCHANGED <<submitted, executed, residue>>

Fail ==
  /\ call # NoCall
  /\ answer' = Error
  /\ call' = NoCall
  /\ residue' \in {residue, TRUE}
  /\ UNCHANGED <<submitted, executed>>

\* A call that cannot even start.
Refuse(c) ==
  /\ call = NoCall
  /\ c \notin submitted
  /\ submitted' = submitted \union {c}
  /\ answer' = Error
  /\ UNCHANGED <<call, executed, residue>>

\* The connection is closed, or the process ends.
Reset ==
  /\ call' = NoCall
  /\ answer' \in {answer, Error}
  /\ residue' = FALSE
  /\ UNCHANGED <<submitted, executed>>

Next ==
  \/ \E c \in Commands : Submit(c) \/ Execute(c) \/ Refuse(c)
  \/ Return
  \/ ReturnAnother
  \/ Fail
  \/ Reset

Spec == Init /\ [][Next]_vars
=============================================================================
