----------------------------- MODULE TssSession -----------------------------
(***************************************************************************)
(* Authorization sessions of the TSS: src/utils/tss.c.                     *)
(*                                                                         *)
(* A session lives twice.  The TPM holds one copy (`tpm`); the TSS keeps   *)
(* the other in h<handle>.bin (`file`), because the utilities are separate *)
(* processes.  Both must roll in step: the nonces, the bind entity and the *)
(* policy flags enter the HMAC of the next command.  One TSS_Execute is    *)
(* split at the points where it can fail or its process can die:           *)
(*                                                                         *)
(*   Begin            TSS_Execute_valist steps 1-7                         *)
(*   TpmExecute       step 8 at the TPM, which then rolls its copy         *)
(*   ReceiveResponse  steps 9-11                                           *)
(*   ContinueSession  step 12, once per session                            *)
(*   PostProcess      step 13, unmarshal, TSS_Response_PostProcessor       *)
(*                                                                         *)
(* The TPM is outside the repository: what it does is modelled from how    *)
(* tss.c mirrors it.                                                       *)
(***************************************************************************)
EXTENDS Naturals, FiniteSets

CONSTANTS
  Handles,     \* session handles the TPM can assign
  NoHandle,    \* the command has no session handle parameter
  Entities,    \* objects, hierarchies and NV indexes a session authorizes
  NoEntity,    \* TPM_RH_NULL as a bind handle; AUTH_NONE
  AuthValues,  \* authValues of the entities
  EmptyAuth,   \* the zero length authValue
  NoSession,   \* no TPM session; no session file
  Torn,        \* a session file that a failed write left truncated
  NoCommand,   \* TSS_Execute is not running
  MaxSessions, \* MAX_SESSION_NUM
  Templates,   \* the sessions that applications start
  MaxNonce     \* bound on the commands for which the TPM issues nonces

\* TSS_HMAC_CONTEXT as it is marshaled; keyed says that sessionKey is not empty.
Session ==
  [ sessionType : {"HMAC", "POLICY"}, keyed : BOOLEAN,
    bind : Entities \union {NoEntity}, nonceTPM : Nat,
    isPasswordNeeded : BOOLEAN, isAuthValueNeeded : BOOLEAN ]

\* The commands whose post processor writes or deletes the session file of their target.
Stores == {"startAuthSession", "flushContext", "policyAuthValue", "policyPassword"}

Kinds == Stores \union {"authorize", "changeAuth", "policyRestart"}

\* What TSS_PO_StartAuthSession can store: a bound session has a session key.
NewSessions ==
  { s \in [ sessionType : {"HMAC", "POLICY"}, keyed : BOOLEAN,
            bind : Entities \union {NoEntity}, nonceTPM : {0},
            isPasswordNeeded : {FALSE}, isAuthValueNeeded : {FALSE} ] :
      s.bind # NoEntity => s.keyed }

\* use: the sessions of the command; of these, cont and audit have the attribute set, and
\* authorizes and password give the entity each one authorizes and the password passed for it.
Command ==
  [ kind : Kinds, target : Handles \union {NoHandle},
    new : NewSessions \union {NoSession}, newAuth : AuthValues,
    use : SUBSET Handles, cont : SUBSET Handles, audit : SUBSET Handles,
    authorizes : [Handles -> Entities \union {NoEntity}],
    password : [Handles -> AuthValues] ]

ASSUME ConstantsAssumption ==
  /\ NoHandle \notin Handles
  /\ NoEntity \notin Entities
  /\ EmptyAuth \in AuthValues
  /\ MaxSessions \in Nat
  /\ MaxNonce \in Nat
  /\ Templates \subseteq NewSessions
  /\ NoSession \notin Session
  /\ Torn \notin Session
  /\ Torn # NoSession
  /\ NoCommand \notin Command

VARIABLES
  file,      \* h<handle>.bin in TPM_DATA_DIR
  tpm,       \* the sessions in the TPM
  authValue, \* the authValue of each entity
  nonces,    \* how many nonces the TPM has issued; the last one is the newest
  pc,        \* where TSS_Execute is
  cmd,       \* its parameters
  mem,       \* its session[] contexts
  reply,     \* the authValue in the key of each response HMAC, as the TPM computed it
  todo,      \* the sessions step 12 has not processed yet
  lost,      \* auxiliary: sessions a fault hit after the TPM had executed
  restarted  \* auxiliary: policy sessions TPM2_PolicyRestart was the last to touch

vars == <<file, tpm, authValue, nonces, pc, cmd, mem, reply, todo, lost, restarted>>

-----------------------------------------------------------------------------
(* HMAC keys and authorization areas                                       *)

NoFlags(s) == [s EXCEPT !.isPasswordNeeded = FALSE, !.isAuthValueNeeded = FALSE]

\* Mutant: the bind entity is not looked at.
SetHmacKeyIgnoresBind(s, e, password) ==
  IF e # NoEntity /\ (s.sessionType = "HMAC" \/ s.isAuthValueNeeded)
    THEN password
    ELSE EmptyAuth

\* The authValue part of hmacKey; the other part is sessionKey.
SetHmacKey(s, e, password) ==
  IF /\ e # NoEntity
     /\ \/ s.sessionType = "HMAC" /\ s.bind # e
        \/ s.sessionType = "POLICY" /\ s.isAuthValueNeeded
    THEN password
    ELSE EmptyAuth

\* What one session puts in the hmac field of its authorization area.
SetHMAC(s, e, password) ==
  IF s.isPasswordNeeded
    THEN [kind |-> "password", key |-> password, nonceTPM |-> 0]
    ELSE LET key == SetHmacKey(s, e, password)
         IN  IF \/ s.sessionType = "HMAC"
                \/ s.isAuthValueNeeded
                \/ s.keyed \/ key # EmptyAuth
               THEN [kind |-> "hmac", key |-> key, nonceTPM |-> s.nonceTPM]
               ELSE [kind |-> "empty", key |-> EmptyAuth, nonceTPM |-> 0]

\* The password an application passes for entity e.
Password(e) == IF e = NoEntity THEN EmptyAuth ELSE authValue[e]

\* External: the authValue the TPM puts in the key of its session s on entity e.
TpmKey(s, e, auth) ==
  IF e # NoEntity /\ (IF s.sessionType = "HMAC" THEN s.bind # e ELSE s.isAuthValueNeeded)
    THEN auth[e]
    ELSE EmptyAuth

\* External: the authorization the TPM expects of its session s on entity e.
TpmExpects(s, e) ==
  LET key == TpmKey(s, e, authValue)
  IN  IF s.isPasswordNeeded
        THEN [kind |-> "password", key |-> Password(e), nonceTPM |-> 0]
        ELSE IF s.sessionType = "HMAC" \/ s.isAuthValueNeeded \/ s.keyed \/ key # EmptyAuth
               THEN [kind |-> "hmac", key |-> key, nonceTPM |-> s.nonceTPM]
               ELSE [kind |-> "empty", key |-> EmptyAuth, nonceTPM |-> 0]

\* Mutant: an audit response writes the wrong null value.
AfterResponseBindsNull(s, n, audit) ==
  [s EXCEPT !.nonceTPM = n, !.bind = IF audit THEN NoHandle ELSE @]

\* Mutant: nonceTPM of the response is not kept.
AfterResponseKeepsNonce(s, n, audit) ==
  [s EXCEPT !.bind = IF audit THEN NoEntity ELSE @]

\* Steps 10 and 11 for one session: nonceTPM is copied, an audit response unbinds.
AfterResponse(s, n, audit) ==
  [s EXCEPT !.nonceTPM = n, !.bind = IF audit THEN NoEntity ELSE @]

\* External: the TPM's copy of s after a command that used it with continueSession set.
TpmAfterUse(s, n, audit) ==
  [s EXCEPT !.nonceTPM = n, !.bind = IF audit THEN NoEntity ELSE @,
            !.isPasswordNeeded = FALSE, !.isAuthValueNeeded = FALSE]

-----------------------------------------------------------------------------
(* TSS_Execute                                                             *)

\* The sessions whose two copies part if the command in flight goes no further.
Pending ==
  IF pc \in {"answered", "continue"}
    THEN todo \union (IF cmd.kind \in Stores THEN {cmd.target} ELSE {})
    ELSE {}

NoMem == [h \in Handles |-> NoSession]

Init ==
  /\ file = NoMem
  /\ tpm = NoMem
  /\ authValue = [e \in Entities |-> EmptyAuth]
  /\ nonces = 0
  /\ pc = "idle"
  /\ cmd = NoCommand
  /\ mem = NoMem
  /\ reply = [h \in Handles |-> EmptyAuth]
  /\ todo = {}
  /\ lost = {}
  /\ restarted = {}

\* TSS_Execute returns, with success or not: the session contexts are freed.
Return ==
  /\ pc' = "idle"
  /\ cmd' = NoCommand
  /\ mem' = NoMem
  /\ reply' = [h \in Handles |-> EmptyAuth]
  /\ todo' = {}

\* Steps 1 to 7.  A session whose file is missing or torn fails here: nothing changes.
Send(kind, target, new, newAuth, use, cont, audit, entity) ==
  LET entityOf(h) == IF h \in use THEN entity[h] ELSE NoEntity
  IN  /\ pc = "idle"
      /\ Cardinality(use) <= MaxSessions
      /\ target \notin use
      /\ Cardinality(audit) <= 1
      /\ \A h \in use :
           /\ file[h] \in Session
           /\ file[h].isPasswordNeeded \/ file[h].isAuthValueNeeded => entity[h] # NoEntity
      /\ pc' = "sent"
      /\ cmd' = [ kind |-> kind, target |-> target, new |-> new, newAuth |-> newAuth,
                  use |-> use, cont |-> cont, audit |-> audit,
                  authorizes |-> [h \in Handles |-> entityOf(h)],
                  password |-> [h \in Handles |-> Password(entityOf(h))] ]
      /\ mem' = [h \in Handles |-> IF h \in use THEN file[h] ELSE NoSession]
      /\ todo' = use
      /\ UNCHANGED <<file, tpm, authValue, nonces, reply, lost, restarted>>

\* A command that only authorizes, encrypts or audits with its sessions.
BeginAuthorize ==
  \E use \in SUBSET Handles \ {{}} :
    \E cont \in SUBSET use, audit \in SUBSET use, entity \in [use -> Entities \union {NoEntity}] :
      Send("authorize", NoHandle, NoSession, EmptyAuth, use, cont, audit, entity)

\* TPM2_HierarchyChangeAuth and TPM2_NV_ChangeAuth: session h authorizes entity e.
BeginChangeAuth ==
  \E use \in SUBSET Handles \ {{}}, e \in Entities, newAuth \in AuthValues :
    \E h \in use, cont \in SUBSET use, audit \in SUBSET use :
      /\ newAuth # authValue[e]
      /\ Send("changeAuth", NoHandle, NoSession, newAuth, use, cont, audit,
              [u \in use |-> IF u = h THEN e ELSE NoEntity])

\* TPM2_StartAuthSession: target is the handle the TPM is going to assign.
BeginStartAuthSession ==
  \E target \in Handles, new \in Templates :
    /\ tpm[target] = NoSession
    /\ Send("startAuthSession", target, new, EmptyAuth, {}, {}, {}, <<>>)

BeginFlushContext ==
  \E target \in Handles :
    Send("flushContext", target, NoSession, EmptyAuth, {}, {}, {}, <<>>)

\* The policy commands that touch the flags; another session can audit them.
BeginPolicy ==
  \E kind \in {"policyAuthValue", "policyPassword", "policyRestart"}, target \in Handles,
     use \in SUBSET Handles :
    \E cont \in SUBSET use :
      Send(kind, target, NoSession, EmptyAuth, use, cont, use, [u \in use |-> NoEntity])

Begin ==
  \/ BeginAuthorize
  \/ BeginChangeAuth
  \/ BeginStartAuthSession
  \/ BeginFlushContext
  \/ BeginPolicy

\* External: the TPM accepts every authorization of the command.
Authorized ==
  \A h \in cmd.use :
    /\ tpm[h] # NoSession
    /\ SetHMAC(mem[h], cmd.authorizes[h], cmd.password[h])
         = TpmExpects(tpm[h], cmd.authorizes[h])

\* External: the TPM's copy of the target after a command.
TpmTarget(s) ==
  CASE cmd.kind = "startAuthSession" -> [cmd.new EXCEPT !.nonceTPM = nonces + 1]
    [] cmd.kind = "flushContext"     -> NoSession
    [] cmd.kind = "policyAuthValue"  ->
         [s EXCEPT !.isPasswordNeeded = FALSE, !.isAuthValueNeeded = TRUE]
    [] cmd.kind = "policyPassword"   ->
         [s EXCEPT !.isPasswordNeeded = TRUE, !.isAuthValueNeeded = FALSE]
    [] OTHER                         -> NoFlags(s)

\* External, step 8: the TPM executes the command and answers.
TpmExecute ==
  /\ pc = "sent"
  /\ nonces < MaxNonce
  /\ Authorized
  /\ CASE cmd.target = NoHandle            -> TRUE
       [] cmd.kind = "startAuthSession"    -> tpm[cmd.target] = NoSession
       [] cmd.kind = "flushContext"        -> tpm[cmd.target] # NoSession
       [] OTHER -> tpm[cmd.target] # NoSession /\ tpm[cmd.target].sessionType = "POLICY"
  /\ pc' = "answered"
  /\ nonces' = IF cmd.use # {} \/ cmd.kind = "startAuthSession" THEN nonces + 1 ELSE nonces
  /\ authValue' =
       [e \in Entities |->
          IF cmd.kind = "changeAuth" /\ \E h \in cmd.use : cmd.authorizes[h] = e
            THEN cmd.newAuth ELSE authValue[e]]
  /\ reply' = [h \in Handles |->
                 IF h \in cmd.use
                   THEN TpmKey(tpm[h], cmd.authorizes[h], authValue') ELSE EmptyAuth]
  /\ tpm' = [h \in Handles |->
               CASE h \in cmd.use \intersect cmd.cont ->
                      TpmAfterUse(tpm[h], nonces + 1, h \in cmd.audit)
                 [] h \in cmd.use \ cmd.cont -> NoSession
                 [] h = cmd.target           -> TpmTarget(tpm[h])
                 [] OTHER                    -> tpm[h]]
  /\ lost' = IF cmd.kind \in {"startAuthSession", "flushContext"}
               THEN lost \ {cmd.target} ELSE lost
  /\ restarted' = IF cmd.kind = "policyRestart"
                    THEN restarted \union {cmd.target} ELSE restarted
  /\ UNCHANGED <<file, cmd, mem, todo>>

\* The TPM returns an error, or the process dies first: the files are as they were.
TpmReject ==
  /\ pc = "sent"
  /\ Return
  /\ UNCHANGED <<file, tpm, authValue, nonces, lost, restarted>>

\* Mutant: no change authorization processor.
ResponseKeyOldPassword(h) == SetHmacKey(mem[h], cmd.authorizes[h], cmd.password[h])

\* Steps 9 and 10: the key of the response HMAC, after the change authorization processor.
ResponseKey(h) ==
  SetHmacKey(mem[h], cmd.authorizes[h],
             IF cmd.kind = "changeAuth" THEN cmd.newAuth ELSE cmd.password[h])

\* Step 10: TSS_HmacSession_Verify, where a response HMAC is checked at all.
ResponseVerifies ==
  \A h \in cmd.use :
    mem[h].sessionType = "HMAC" \/ mem[h].isAuthValueNeeded => ResponseKey(h) = reply[h]

\* Steps 9 to 11 for all sessions.
ReceiveResponse ==
  /\ pc = "answered"
  /\ ResponseVerifies
  /\ pc' = "continue"
  /\ mem' = [h \in Handles |->
               IF h \in cmd.use THEN AfterResponse(mem[h], nonces, h \in cmd.audit)
                                ELSE mem[h]]
  /\ UNCHANGED <<file, tpm, authValue, nonces, cmd, reply, todo, lost, restarted>>

\* The response is lost, malformed or does not verify, or the process dies.
ResponseFails ==
  /\ pc = "answered"
  /\ lost' = lost \union Pending
  /\ Return
  /\ UNCHANGED <<file, tpm, authValue, nonces, restarted>>

\* Step 12 for one session: TSS_HmacSession_Continue saves it or deletes it.
ContinueSession(h) ==
  /\ pc = "continue"
  /\ h \in todo
  /\ file' = [file EXCEPT ![h] = IF h \in cmd.cont THEN NoFlags(mem[h]) ELSE NoSession]
  /\ todo' = todo \ {h}
  /\ restarted' = restarted \ {h}
  /\ UNCHANGED <<tpm, authValue, nonces, pc, cmd, mem, reply, lost>>

\* Mutant: TSS_PO_PolicyAuthValue leaves isPasswordNeeded as it was.
PostTargetKeepsPassword ==
  LET s == file[cmd.target]
  IN  CASE cmd.kind = "startAuthSession" -> [cmd.new EXCEPT !.nonceTPM = nonces]
        [] cmd.kind = "flushContext"     -> NoSession
        [] cmd.kind = "policyAuthValue" /\ s \in Session ->
             [s EXCEPT !.isAuthValueNeeded = TRUE]
        [] cmd.kind = "policyPassword" /\ s \in Session ->
             [s EXCEPT !.isPasswordNeeded = TRUE, !.isAuthValueNeeded = FALSE]
        [] OTHER -> s

\* The session file of the target after the post processor; one it cannot load stays.
PostTarget ==
  LET s == file[cmd.target]
  IN  CASE cmd.kind = "startAuthSession" -> [cmd.new EXCEPT !.nonceTPM = nonces]
        [] cmd.kind = "flushContext"     -> NoSession
        [] cmd.kind = "policyAuthValue" /\ s \in Session ->
             [s EXCEPT !.isPasswordNeeded = FALSE, !.isAuthValueNeeded = TRUE]
        [] cmd.kind = "policyPassword" /\ s \in Session ->
             [s EXCEPT !.isPasswordNeeded = TRUE, !.isAuthValueNeeded = FALSE]
        [] OTHER -> s

\* Step 13, the response unmarshal and the post processor.
PostProcess ==
  /\ pc = "continue"
  /\ todo = {}
  /\ IF cmd.kind \in Stores
       THEN /\ file' = [file EXCEPT ![cmd.target] = PostTarget]
            /\ restarted' = restarted \ {cmd.target}
       ELSE UNCHANGED <<file, restarted>>
  /\ Return
  /\ UNCHANGED <<tpm, authValue, nonces, lost>>

\* The session files that may be in the middle of a write: one of step 12, then the target.
Writes ==
  IF todo # {}
    THEN todo \intersect cmd.cont
    ELSE IF cmd.kind \in Stores /\ PostTarget \in Session THEN {cmd.target} ELSE {}

\* A store fails or the process dies while it is due: what was due is not written, or torn.
StoreFails ==
  /\ pc = "continue"
  /\ \/ UNCHANGED file
     \/ \E h \in Writes : file' = [file EXCEPT ![h] = Torn]
  /\ lost' = lost \union Pending
  /\ Return
  /\ UNCHANGED <<tpm, authValue, nonces, restarted>>

\* External: a reboot, or a resource manager that closes the connection, drops all sessions.
TpmReset ==
  /\ tpm # NoMem
  /\ tpm' = NoMem
  /\ lost' = lost \union {h \in Handles : tpm[h] # NoSession \/ file[h] # NoSession}
  /\ UNCHANGED <<file, authValue, nonces, pc, cmd, mem, reply, todo, restarted>>

Next ==
  \/ Begin
  \/ TpmExecute
  \/ TpmReject
  \/ ReceiveResponse
  \/ ResponseFails
  \/ \E h \in Handles : ContinueSession(h)
  \/ PostProcess
  \/ StoreFails
  \/ TpmReset

Spec == Init /\ [][Next]_vars

-----------------------------------------------------------------------------
(* Properties                                                              *)

TypeOK ==
  /\ file \in [Handles -> Session \union {NoSession, Torn}]
  /\ tpm \in [Handles -> Session \union {NoSession}]
  /\ authValue \in [Entities -> AuthValues]
  /\ nonces \in Nat
  /\ pc \in {"idle", "sent", "answered", "continue"}
  /\ cmd \in Command \union {NoCommand}
  /\ mem \in [Handles -> Session \union {NoSession}]
  /\ reply \in [Handles -> AuthValues]
  /\ todo \in SUBSET Handles
  /\ lost \in SUBSET Handles
  /\ restarted \in SUBSET Handles

\* The two copies of h are the same session, whatever their policy flags.
SameSession(h) ==
  IF tpm[h] = NoSession
    THEN file[h] = NoSession
    ELSE file[h] \in Session /\ NoFlags(file[h]) = NoFlags(tpm[h])

SameFlags(h) ==
  file[h] \in Session /\ tpm[h] \in Session =>
    /\ file[h].isPasswordNeeded = tpm[h].isPasswordNeeded
    /\ file[h].isAuthValueNeeded = tpm[h].isAuthValueNeeded

\* Every session the TSS has saved is the TPM's: key, bind entity and newest nonce, and a file
\* exists exactly when the TPM has the session.  The exceptions are the sessions the command in
\* flight is about to save and those a fault hit between the TPM's execution and the save: an
\* error from the TPM, or a command that fails before it is sent, never costs a session.
SavedSessionAgrees == \A h \in Handles \ (lost \union Pending) : SameSession(h)

\* The saved policy flags are the TPM's, except after TPM2_PolicyRestart; even then the TSS
\* never forgets a flag the TPM still holds.
SavedFlagsAgree ==
  \A h \in Handles \ (lost \union Pending) :
    /\ h \notin restarted => SameFlags(h)
    /\ file[h] \in Session /\ tpm[h] \in Session =>
         /\ tpm[h].isPasswordNeeded => file[h].isPasswordNeeded \/ file[h].isAuthValueNeeded
         /\ tpm[h].isAuthValueNeeded => file[h].isAuthValueNeeded \/ file[h].isPasswordNeeded

\* The authorization TSS_HmacSession_SetHMAC computes from the saved sessions and the right
\* password is the one the TPM expects: no command is refused for its HMAC.
SentCommandIsAuthorized ==
  pc = "sent" /\ cmd.use \intersect (lost \union restarted) = {} => Authorized

\* The response of a command the TPM executed passes TSS_HmacSession_Verify, also when the
\* command has changed the authValue that keys the response HMAC.
GenuineResponseVerifies ==
  pc = "answered" /\ cmd.use \intersect (lost \union restarted) = {} => ResponseVerifies

\* The flags are "set by policy password" and "policy authvalue" (tss.c:102-103) and policy
\* restart sets the session "back to zero" (regtests/testunseal.sh:164).
PolicyFlagsAgree == \A h \in Handles \ (lost \union Pending) : SameFlags(h)
=============================================================================
