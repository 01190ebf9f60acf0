-------------------------- MODULE TssSession_proofs --------------------------
(***************************************************************************)
(* The invariants of TssSession, for every number of sessions, entities,   *)
(* authValues and nonces.                                                  *)
(*                                                                         *)
(* SavedSessionAgrees alone is not inductive: the step that saves a session *)
(* makes it true again for that session only because the context in memory *)
(* is, all the way from TpmExecute, what the TPM has.  IInv says so for     *)
(* each value of pc.  RollInv is the invariant of the action property that *)
(* a save never takes a session file back.  LostInv says how the saved     *)
(* copy of a session that a fault hit differs from the TPM's, so that it   *)
(* stays refused.                                                          *)
(***************************************************************************)
EXTENDS TssSession, TLAPS

-----------------------------------------------------------------------------
(* The inductive invariant                                                 *)

\* The command in flight is well formed.
CommandInv ==
  /\ pc = "idle" <=> cmd = NoCommand
  /\ pc # "idle" =>
       /\ cmd.cont \subseteq cmd.use
       /\ IF pc = "continue" THEN todo \subseteq cmd.use ELSE todo = cmd.use
       /\ cmd.target \notin cmd.use
       /\ cmd.target \in Handles <=> cmd.kind \notin {"authorize", "changeAuth"}
       /\ cmd.kind = "startAuthSession" => cmd.new \in NewSessions
       /\ \A h \in cmd.use : mem[h] \in Session

\* A command is sent with the sessions as they are saved, and the right passwords.
SentInv ==
  pc = "sent" =>
    \A h \in cmd.use : mem[h] = file[h] /\ cmd.password[h] = Password(cmd.authorizes[h])

\* A session the TPM has rolled is the one the response is going to leave in memory.
AnsweredInv ==
  pc = "answered" =>
    /\ \A h \in todo \ lost :
         tpm[h] = IF h \in cmd.cont
                    THEN NoFlags(AfterResponse(mem[h], nonces, h \in cmd.audit))
                    ELSE NoSession
    /\ \A h \in cmd.use \ (lost \union restarted) : reply[h] = ResponseKey(h)

\* A session that is not saved yet is the TPM's in memory.
ContinueInv ==
  pc = "continue" =>
    \A h \in todo \ lost : tpm[h] = IF h \in cmd.cont THEN NoFlags(mem[h]) ELSE NoSession

\* What the post processor is going to save is the TPM's.
TargetInv ==
  pc \in {"answered", "continue"} /\ cmd.kind \in Stores /\ cmd.target \notin lost =>
    /\ tpm[cmd.target] = PostTarget
    /\ cmd.kind \in {"policyAuthValue", "policyPassword"} => file[cmd.target] \in Session

IInv ==
  /\ TypeOK
  /\ CommandInv
  /\ SentInv
  /\ AnsweredInv
  /\ ContinueInv
  /\ TargetInv
  /\ SavedSessionAgrees
  /\ SavedFlagsAgree

-----------------------------------------------------------------------------
(* The operators on sessions                                               *)

\* AfterResponse, NoFlags and TpmAfterUse return sessions, and clearing the flags of the
\* session the response left (TSS_HmacSession_Continue) gives what the TPM keeps.
LEMMA SessionOperators ==
  ASSUME NEW s \in Session, NEW n \in Nat, NEW a \in BOOLEAN
  PROVE  /\ NoFlags(s) \in Session
         /\ AfterResponse(s, n, a) \in Session
         /\ TpmAfterUse(s, n, a) \in Session
         /\ TpmAfterUse(s, n, a) = NoFlags(AfterResponse(s, n, a))
         /\ NoFlags(NoFlags(s)) = NoFlags(s)
         /\ NoFlags(s).isPasswordNeeded = FALSE
         /\ NoFlags(s).isAuthValueNeeded = FALSE
BY DEF Session, NoFlags, AfterResponse, TpmAfterUse

\* The use of a session gives the same whichever copy it is applied to, if the two agree up to
\* their flags: what the TPM keeps is what the response leaves in memory.
LEMMA UseAgrees ==
  ASSUME NEW s \in Session, NEW t \in Session, NoFlags(s) = NoFlags(t),
         NEW n \in Nat, NEW a \in BOOLEAN
  PROVE  TpmAfterUse(s, n, a) = NoFlags(AfterResponse(t, n, a))
<1>1. TpmAfterUse(s, n, a) = TpmAfterUse(NoFlags(s), n, a)
  BY DEF TpmAfterUse, NoFlags, Session
<1>2. TpmAfterUse(t, n, a) = TpmAfterUse(NoFlags(t), n, a)
  BY DEF TpmAfterUse, NoFlags, Session
<1>3. TpmAfterUse(t, n, a) = NoFlags(AfterResponse(t, n, a))
  BY SessionOperators
<1> QED BY <1>1, <1>2, <1>3

\* Sessions that agree up to their flags, and on their flags, are equal.
LEMMA SessionEquality ==
  ASSUME NEW s \in Session, NEW t \in Session, NoFlags(s) = NoFlags(t),
         s.isPasswordNeeded = t.isPasswordNeeded, s.isAuthValueNeeded = t.isAuthValueNeeded
  PROVE  s = t
<1>1. /\ NoFlags(s).sessionType = s.sessionType
      /\ NoFlags(s).keyed = s.keyed
      /\ NoFlags(s).bind = s.bind
      /\ NoFlags(s).nonceTPM = s.nonceTPM
  BY DEF NoFlags, Session
<1>2. /\ NoFlags(t).sessionType = t.sessionType
      /\ NoFlags(t).keyed = t.keyed
      /\ NoFlags(t).bind = t.bind
      /\ NoFlags(t).nonceTPM = t.nonceTPM
  BY DEF NoFlags, Session
<1> QED BY <1>1, <1>2 DEF Session

\* A new session is a session whatever nonce it starts with.
LEMMA NewSessionIsSession ==
  ASSUME NEW s \in NewSessions, NEW n \in Nat
  PROVE  [s EXCEPT !.nonceTPM = n] \in Session
BY DEF NewSessions, Session

-----------------------------------------------------------------------------
(* IInv holds initially and is preserved by every step                     *)

LEMMA InitIInv == Init => IInv
<1> SUFFICES ASSUME Init PROVE IInv
  OBVIOUS
<1> USE ConstantsAssumption DEF Init, NoMem
<1>1. TypeOK
  BY DEF TypeOK
<1>2. CommandInv /\ SentInv /\ AnsweredInv /\ ContinueInv /\ TargetInv
  BY DEF CommandInv, SentInv, AnsweredInv, ContinueInv, TargetInv
<1>3. SavedSessionAgrees
  BY DEF SavedSessionAgrees, SameSession
<1>4. SavedFlagsAgree
  BY DEF SavedFlagsAgree, SameFlags
<1> QED BY <1>1, <1>2, <1>3, <1>4 DEF IInv

\* Before a command is sent nothing that is saved changes.
LEMMA SendIInv ==
  ASSUME IInv,
         NEW kind \in Kinds, NEW target \in Handles \union {NoHandle},
         NEW new \in NewSessions \union {NoSession}, NEW newAuth \in AuthValues,
         NEW use \in SUBSET Handles, NEW cont \in SUBSET use, NEW audit \in SUBSET use,
         NEW entity, \A h \in use : entity[h] \in Entities \union {NoEntity},
         target \in Handles <=> kind \notin {"authorize", "changeAuth"},
         kind = "startAuthSession" => new \in NewSessions,
         Send(kind, target, new, newAuth, use, cont, audit, entity)
  PROVE  IInv'
<1> DEFINE entityOf(h) == IF h \in use THEN entity[h] ELSE NoEntity
<1> USE ConstantsAssumption DEF IInv
<1>1. \A h \in Handles : /\ entityOf(h) \in Entities \union {NoEntity}
                         /\ Password(entityOf(h)) \in AuthValues
  BY DEF Password, TypeOK
<1>2. /\ pc = "idle" /\ pc' = "sent"
      /\ target \notin use
      /\ \A h \in use : file[h] \in Session
      /\ cmd' = [ kind |-> kind, target |-> target, new |-> new, newAuth |-> newAuth,
                  use |-> use, cont |-> cont, audit |-> audit,
                  authorizes |-> [h \in Handles |-> entityOf(h)],
                  password |-> [h \in Handles |-> Password(entityOf(h))] ]
      /\ mem' = [h \in Handles |-> IF h \in use THEN file[h] ELSE NoSession]
      /\ todo' = use
      /\ UNCHANGED <<file, tpm, authValue, nonces, reply, lost, restarted>>
  BY DEF Send
<1> HIDE DEF entityOf
<1>3. cmd' \in Command
  BY <1>1, <1>2 DEF Command
<1>4. TypeOK'
  BY <1>2, <1>3 DEF TypeOK
<1>5. CommandInv'
  BY <1>2, <1>3 DEF CommandInv
<1>6. SentInv'
  BY <1>2 DEF SentInv, Password
<1>7. AnsweredInv' /\ ContinueInv' /\ TargetInv'
  BY <1>2 DEF AnsweredInv, ContinueInv, TargetInv
<1>8. Pending = {} /\ Pending' = {}
  BY <1>2 DEF Pending
<1>9. SavedSessionAgrees'
  BY <1>2, <1>8 DEF SavedSessionAgrees, SameSession
<1>10. SavedFlagsAgree'
  BY <1>2, <1>8 DEF SavedFlagsAgree, SameFlags
<1> QED BY <1>4, <1>5, <1>6, <1>7, <1>9, <1>10

LEMMA BeginIInv ==
  ASSUME IInv, Begin
  PROVE  IInv'
<1> USE ConstantsAssumption DEF Kinds, Stores
<1>1. CASE BeginAuthorize
  BY <1>1, SendIInv DEF BeginAuthorize
<1>2. CASE BeginChangeAuth
  BY <1>2, SendIInv DEF BeginChangeAuth
<1>3. CASE BeginStartAuthSession
  BY <1>3, SendIInv DEF BeginStartAuthSession
<1>4. CASE BeginFlushContext
  BY <1>4, SendIInv DEF BeginFlushContext
<1>5. CASE BeginPolicy
  BY <1>5, SendIInv DEF BeginPolicy
<1> QED BY <1>1, <1>2, <1>3, <1>4, <1>5 DEF Begin

\* A session that is saved, and that no fault has hit, is the TPM's session when it is sent.
LEMMA SentSessionIsTpms ==
  ASSUME IInv, pc = "sent", NEW h \in cmd.use
  PROVE  /\ h \in Handles
         /\ mem[h] \in Session
         /\ mem[h] = file[h]
         /\ h \notin lost => tpm[h] \in Session /\ NoFlags(tpm[h]) = NoFlags(mem[h])
         /\ h \notin lost \union restarted => tpm[h] = mem[h]
<1> USE ConstantsAssumption DEF IInv
<1>1. cmd \in Command /\ h \in Handles /\ mem[h] \in Session /\ mem[h] = file[h]
  BY DEF CommandInv, SentInv, TypeOK, Command
<1>2. Pending = {}
  BY DEF Pending
<1>3. ASSUME h \notin lost
      PROVE  tpm[h] \in Session /\ NoFlags(tpm[h]) = NoFlags(mem[h])
  BY <1>1, <1>2, <1>3 DEF SavedSessionAgrees, SameSession, TypeOK
<1>4. ASSUME h \notin lost \union restarted
      PROVE  tpm[h] = mem[h]
  <2>1. /\ file[h].isPasswordNeeded = tpm[h].isPasswordNeeded
        /\ file[h].isAuthValueNeeded = tpm[h].isAuthValueNeeded
    BY <1>1, <1>2, <1>3, <1>4 DEF SavedFlagsAgree, SameFlags
  <2> QED BY <2>1, <1>1, <1>3, <1>4, SessionEquality
<1> QED BY <1>1, <1>3, <1>4

\* The key TSS_HmacSession_SetHmacKey computes is the one the TPM uses for the same session.
LEMMA KeysAgree ==
  ASSUME NEW s \in Session, NEW e, NEW auth, NEW password,
         e # NoEntity => password = auth[e]
  PROVE  SetHmacKey(s, e, password) = TpmKey(s, e, auth)
BY DEF SetHmacKey, TpmKey, Session

LEMMA TpmExecuteIInv ==
  ASSUME IInv, TpmExecute
  PROVE  IInv'
<1> USE ConstantsAssumption DEF IInv
<1>1. /\ pc = "sent" /\ pc' = "answered"
      /\ cmd \in Command
      /\ cmd.use \subseteq Handles
      /\ cmd.cont \subseteq cmd.use
      /\ cmd.target \notin cmd.use
      /\ todo = cmd.use
      /\ UNCHANGED <<file, cmd, mem, todo>>
  BY DEF TpmExecute, CommandInv, TypeOK, Command
<1>2. /\ nonces \in Nat
      /\ nonces' \in Nat
      /\ cmd.use # {} \/ cmd.kind = "startAuthSession" => nonces' = nonces + 1
  BY DEF TpmExecute, TypeOK
<1>3. /\ cmd.kind \in {"startAuthSession", "flushContext"} => lost' = lost \ {cmd.target}
      /\ cmd.kind \notin {"startAuthSession", "flushContext"} => lost' = lost
      /\ \A h \in cmd.use : h \in lost' <=> h \in lost
  BY <1>1 DEF TpmExecute
<1>4. /\ restarted' \in SUBSET Handles
      /\ \A h \in Handles : h \in restarted' <=>
                              h \in restarted \/ (cmd.kind = "policyRestart" /\ h = cmd.target)
  <2>1. cmd.kind = "policyRestart" => cmd.target \in Handles
    BY DEF CommandInv, TpmExecute
  <2> QED BY <2>1 DEF TpmExecute, TypeOK
<1>5. ASSUME NEW h \in cmd.use
      PROVE  /\ h \in Handles
             /\ tpm[h] \in Session
             /\ tpm'[h] = IF h \in cmd.cont THEN TpmAfterUse(tpm[h], nonces', h \in cmd.audit)
                                           ELSE NoSession
  <2>1. h \in Handles /\ tpm[h] \in Session
    BY <1>1 DEF TpmExecute, Authorized, TypeOK
  <2>2. nonces' = nonces + 1
    BY <1>2
  <2> QED BY <2>1, <2>2, <1>1 DEF TpmExecute
<1>6. ASSUME cmd.target \in Handles
      PROVE  tpm'[cmd.target] = TpmTarget(tpm[cmd.target])
  BY <1>1, <1>6 DEF TpmExecute
<1>7. ASSUME NEW h \in Handles \ cmd.use, h # cmd.target
      PROVE  tpm'[h] = tpm[h]
  BY <1>1, <1>7 DEF TpmExecute
<1>8. \A h \in cmd.use : h \notin lost \union restarted => tpm[h] = mem[h]
  BY <1>1, SentSessionIsTpms
<1>9. \A h \in cmd.use : h \notin lost => NoFlags(tpm[h]) = NoFlags(mem[h])
  BY <1>1, SentSessionIsTpms
<1>10. \A h \in cmd.use : mem[h] \in Session
  BY <1>1, SentSessionIsTpms
<1>11. ASSUME cmd.target \in Handles
       PROVE  /\ TpmTarget(tpm[cmd.target]) \in Session \union {NoSession}
              /\ cmd.kind \notin {"startAuthSession", "flushContext"} =>
                   tpm[cmd.target] \in Session
  <2>1. cmd.kind \notin {"startAuthSession", "flushContext"} => tpm[cmd.target] \in Session
    BY <1>11, <1>1 DEF TpmExecute, TypeOK, CommandInv
  <2>2. CASE cmd.kind = "startAuthSession"
    BY <2>1, <2>2, <1>1, <1>2, NewSessionIsSession DEF TpmTarget, CommandInv
  <2>3. CASE cmd.kind = "flushContext"
    BY <2>1, <2>3 DEF TpmTarget
  <2>4. CASE cmd.kind \notin {"startAuthSession", "flushContext"}
    BY <2>1, <2>4 DEF TpmTarget, NoFlags, Session
  <2> QED BY <2>1, <2>2, <2>3, <2>4
<1>12. TypeOK'
  <2>1. \A h \in Handles : tpm'[h] \in Session \union {NoSession}
    <3>1. ASSUME NEW h \in Handles
          PROVE  tpm'[h] \in Session \union {NoSession}
      <4>1. CASE h \in cmd.use
        <5>1. (h \in cmd.audit) \in BOOLEAN
          OBVIOUS
        <5>2. TpmAfterUse(tpm[h], nonces', h \in cmd.audit) \in Session
          BY <4>1, <5>1, <1>2, <1>5, SessionOperators
        <5> QED BY <4>1, <5>2, <1>5
      <4>2. CASE h = cmd.target
        BY <4>2, <1>6, <1>11
      <4>3. CASE h \notin cmd.use /\ h # cmd.target
        BY <4>3, <1>7 DEF TypeOK
      <4> QED BY <4>1, <4>2, <4>3
    <3> QED BY <3>1
  <2>2. tpm' \in [Handles -> Session \union {NoSession}]
    BY <2>1 DEF TpmExecute
  <2>3. authValue' \in [Entities -> AuthValues]
    BY <1>1 DEF TpmExecute, TypeOK, Command
  <2>4. reply' \in [Handles -> AuthValues]
    <3>1. \A h \in cmd.use : cmd.authorizes[h] \in Entities \union {NoEntity}
      BY <1>1 DEF Command
    <3>2. \A h \in cmd.use : TpmKey(tpm[h], cmd.authorizes[h], authValue') \in AuthValues
      BY <2>3, <3>1 DEF TpmKey
    <3> QED BY <3>2 DEF TpmExecute
  <2>5. lost' \in SUBSET Handles
    BY DEF TpmExecute, TypeOK
  <2> QED BY <2>2, <2>3, <2>4, <2>5, <1>1, <1>2, <1>4 DEF TypeOK
<1>13. CommandInv' /\ SentInv' /\ ContinueInv'
  BY <1>1 DEF CommandInv, SentInv, ContinueInv
<1>14. AnsweredInv'
  <2>1. ASSUME NEW h \in todo', h \notin lost'
        PROVE  tpm'[h] = IF h \in cmd.cont
                           THEN NoFlags(AfterResponse(mem[h], nonces', h \in cmd.audit))
                           ELSE NoSession
    <3>1. h \in cmd.use /\ h \notin lost
      BY <2>1, <1>1, <1>3
    <3>2. TpmAfterUse(tpm[h], nonces', h \in cmd.audit)
            = NoFlags(AfterResponse(mem[h], nonces', h \in cmd.audit))
      <4>1. tpm[h] \in Session /\ mem[h] \in Session /\ NoFlags(tpm[h]) = NoFlags(mem[h])
        BY <3>1, <1>5, <1>9, <1>10
      <4>2. (h \in cmd.audit) \in BOOLEAN /\ nonces' \in Nat
        BY <1>2
      <4> QED BY <4>1, <4>2, UseAgrees
    <3> QED BY <3>1, <3>2, <1>5
  <2>2. ASSUME NEW h \in cmd.use, h \notin lost' \union restarted'
        PROVE  reply'[h] = ResponseKey(h)'
    <3>1. tpm[h] = mem[h] /\ h \in Handles
      BY <2>2, <1>1, <1>3, <1>4, <1>8
    <3>2. reply'[h] = TpmKey(mem[h], cmd.authorizes[h], authValue')
      BY <3>1, <2>2 DEF TpmExecute
    <3>3. cmd.authorizes[h] \in Entities \union {NoEntity}
      BY <1>1, <3>1 DEF Command
    <3>4. cmd.authorizes[h] # NoEntity =>
            (IF cmd.kind = "changeAuth" THEN cmd.newAuth ELSE cmd.password[h])
              = authValue'[cmd.authorizes[h]]
      BY <1>1, <2>2, <3>1, <3>3 DEF TpmExecute, SentInv, Password, TypeOK
    <3> QED BY <3>2, <3>4, <1>1, <1>10, KeysAgree DEF ResponseKey
  <2> QED BY <2>1, <2>2, <1>1 DEF AnsweredInv
<1>15. Pending = {}
       /\ Pending' = cmd.use \union (IF cmd.kind \in Stores THEN {cmd.target} ELSE {})
  BY <1>1 DEF Pending
<1>16. ASSUME NEW h \in Handles \ (lost' \union Pending')
       PROVE  h \notin cmd.use /\ h \notin lost /\ (h = cmd.target => cmd.kind = "policyRestart")
  BY <1>15, <1>3, <1>1, <1>16 DEF Stores, CommandInv, Command, Kinds
<1>17. ASSUME cmd.target \in Handles, cmd.kind = "policyRestart"
       PROVE  tpm'[cmd.target] = NoFlags(tpm[cmd.target]) /\ tpm[cmd.target] \in Session
  BY <1>17, <1>6, <1>11 DEF TpmTarget
<1>18. SavedSessionAgrees'
  <2>1. ASSUME NEW h \in Handles \ (lost' \union Pending')
        PROVE  SameSession(h)'
    <3>1. SameSession(h)
      BY <2>1, <1>15, <1>16 DEF SavedSessionAgrees
    <3>2. CASE h # cmd.target
      BY <3>1, <3>2, <2>1, <1>1, <1>7, <1>16 DEF SameSession
    <3>3. CASE h = cmd.target
      BY <3>1, <3>3, <2>1, <1>1, <1>16, <1>17, SessionOperators DEF SameSession
    <3> QED BY <3>2, <3>3
  <2> QED BY <2>1 DEF SavedSessionAgrees
<1>19. SavedFlagsAgree'
  <2>1. ASSUME NEW h \in Handles \ (lost' \union Pending')
        PROVE  /\ h \notin restarted' => SameFlags(h)'
               /\ (file[h] \in Session /\ tpm[h] \in Session =>
                    /\ tpm[h].isPasswordNeeded =>
                         file[h].isPasswordNeeded \/ file[h].isAuthValueNeeded
                    /\ tpm[h].isAuthValueNeeded =>
                         file[h].isAuthValueNeeded \/ file[h].isPasswordNeeded)'
    <3>1. CASE h # cmd.target
      BY <3>1, <2>1, <1>1, <1>4, <1>7, <1>15, <1>16 DEF SavedFlagsAgree, SameFlags
    <3>2. CASE h = cmd.target
      BY <3>2, <2>1, <1>1, <1>4, <1>16, <1>17, SessionOperators DEF SameFlags
    <3> QED BY <3>1, <3>2
  <2> QED BY <2>1 DEF SavedFlagsAgree
<1>20. TargetInv'
  <2> SUFFICES ASSUME cmd.kind \in Stores, cmd.target \notin lost'
               PROVE  /\ tpm'[cmd.target] = PostTarget'
                      /\ cmd.kind \in {"policyAuthValue", "policyPassword"} =>
                           file[cmd.target] \in Session
    BY <1>1 DEF TargetInv
  <2>1. cmd.target \in Handles /\ tpm'[cmd.target] = TpmTarget(tpm[cmd.target])
    BY <1>6 DEF CommandInv, Stores, TpmExecute
  <2>2. CASE cmd.kind \in {"startAuthSession", "flushContext"}
    BY <2>1, <2>2, <1>1, <1>2 DEF TpmTarget, PostTarget
  <2>3. CASE cmd.kind \in {"policyAuthValue", "policyPassword"}
    <3>1. tpm[cmd.target] \in Session /\ file[cmd.target] \in Session
          /\ NoFlags(tpm[cmd.target]) = NoFlags(file[cmd.target])
      BY <2>1, <2>3, <1>3, <1>11, <1>15 DEF SavedSessionAgrees, SameSession
    <3>2. /\ TpmTarget(tpm[cmd.target]) \in Session /\ PostTarget' \in Session
          /\ NoFlags(TpmTarget(tpm[cmd.target])) = NoFlags(PostTarget')
          /\ TpmTarget(tpm[cmd.target]).isPasswordNeeded = PostTarget'.isPasswordNeeded
          /\ TpmTarget(tpm[cmd.target]).isAuthValueNeeded = PostTarget'.isAuthValueNeeded
      <4> DEFINE p == cmd.kind = "policyPassword"
                 flagged(s) == [s EXCEPT !.isPasswordNeeded = p, !.isAuthValueNeeded = ~p]
      <4>1. /\ TpmTarget(tpm[cmd.target]) = flagged(tpm[cmd.target])
            /\ PostTarget' = flagged(file[cmd.target])
        <5>1. CASE cmd.kind = "policyAuthValue"
          BY <3>1, <5>1, <1>1 DEF TpmTarget, PostTarget
        <5>2. CASE cmd.kind = "policyPassword"
          BY <3>1, <5>2, <1>1 DEF TpmTarget, PostTarget
        <5> QED BY <2>3, <5>1, <5>2
      <4>2. p \in BOOLEAN
        OBVIOUS
      <4>3. ASSUME NEW s \in Session
            PROVE  /\ flagged(s) \in Session /\ NoFlags(flagged(s)) = NoFlags(s)
                   /\ flagged(s).isPasswordNeeded = p /\ flagged(s).isAuthValueNeeded = ~p
        <5> HIDE DEF p
        <5>1. flagged(s) \in Session /\ flagged(s).isPasswordNeeded = p
              /\ flagged(s).isAuthValueNeeded = ~p
          BY <4>2 DEF Session
        <5>2. NoFlags(flagged(s)) = NoFlags(s)
          BY <4>2 DEF Session, NoFlags
        <5> QED BY <5>1, <5>2
      <4> HIDE DEF p, flagged
      <4>4. /\ flagged(tpm[cmd.target]) \in Session /\ flagged(file[cmd.target]) \in Session
            /\ NoFlags(flagged(tpm[cmd.target])) = NoFlags(flagged(file[cmd.target]))
        BY <3>1, <4>3
      <4>5. /\ flagged(tpm[cmd.target]).isPasswordNeeded = flagged(file[cmd.target]).isPasswordNeeded
            /\ flagged(tpm[cmd.target]).isAuthValueNeeded = flagged(file[cmd.target]).isAuthValueNeeded
        BY <3>1, <4>3
      <4> QED BY <4>1, <4>4, <4>5
    <3> QED BY <3>1, <3>2, <2>1, SessionEquality
  <2> QED BY <2>2, <2>3 DEF Stores
<1> QED BY <1>12, <1>13, <1>14, <1>18, <1>19, <1>20

\* TSS_Execute returns: there is no command in flight.
LEMMA ReturnFacts ==
  ASSUME Return, TypeOK
  PROVE  /\ pc' = "idle" /\ cmd' = NoCommand
         /\ mem' \in [Handles -> Session \union {NoSession}]
         /\ reply' \in [Handles -> AuthValues]
         /\ todo' = {} /\ Pending' = {}
         /\ CommandInv' /\ SentInv' /\ AnsweredInv' /\ ContinueInv' /\ TargetInv'
BY ConstantsAssumption
   DEF Return, NoMem, Pending, CommandInv, SentInv, AnsweredInv, ContinueInv, TargetInv

LEMMA TpmRejectIInv ==
  ASSUME IInv, TpmReject
  PROVE  IInv'
<1> USE ConstantsAssumption DEF IInv
<1>1. /\ Return /\ pc = "sent"
      /\ UNCHANGED <<file, tpm, authValue, nonces, lost, restarted>>
  BY DEF TpmReject
<1>2. Pending = {}
  BY <1>1 DEF Pending
<1>3. TypeOK'
  BY <1>1, ReturnFacts DEF TypeOK
<1>4. SavedSessionAgrees'
  BY <1>1, <1>2, ReturnFacts DEF SavedSessionAgrees, SameSession
<1>5. SavedFlagsAgree'
  BY <1>1, <1>2, ReturnFacts DEF SavedFlagsAgree, SameFlags
<1> QED BY <1>1, <1>3, <1>4, <1>5, ReturnFacts

LEMMA ReceiveResponseIInv ==
  ASSUME IInv, ReceiveResponse
  PROVE  IInv'
<1> USE ConstantsAssumption DEF IInv
<1>1. /\ pc = "answered" /\ pc' = "continue"
      /\ cmd \in Command
      /\ cmd.use \subseteq Handles
      /\ todo = cmd.use
      /\ UNCHANGED <<file, tpm, authValue, nonces, cmd, reply, todo, lost, restarted>>
  BY DEF ReceiveResponse, CommandInv, TypeOK, Command
<1>2. \A h \in cmd.use : /\ mem[h] \in Session
                         /\ mem'[h] = AfterResponse(mem[h], nonces, h \in cmd.audit)
  BY <1>1 DEF ReceiveResponse, CommandInv
<1>3. \A h \in cmd.use : mem'[h] \in Session
  <2>1. ASSUME NEW h \in cmd.use
        PROVE  mem'[h] \in Session
    <3>1. (h \in cmd.audit) \in BOOLEAN /\ nonces \in Nat
      BY DEF TypeOK
    <3>2. AfterResponse(mem[h], nonces, h \in cmd.audit) \in Session
      BY <3>1, <1>2, SessionOperators
    <3> QED BY <3>2, <1>2
  <2> QED BY <2>1
<1>4. TypeOK'
  <2>1. mem' \in [Handles -> Session \union {NoSession}]
    BY <1>1, <1>3 DEF ReceiveResponse, TypeOK
  <2> QED BY <1>1, <2>1 DEF TypeOK
<1>5. CommandInv' /\ SentInv' /\ AnsweredInv'
  BY <1>1, <1>3 DEF CommandInv, SentInv, AnsweredInv
<1>6. ContinueInv'
  BY <1>1, <1>2 DEF ContinueInv, AnsweredInv
<1>7. TargetInv'
  BY <1>1 DEF TargetInv, PostTarget
<1>8. Pending' = Pending
  BY <1>1 DEF Pending
<1>9. SavedSessionAgrees'
  BY <1>1, <1>8 DEF SavedSessionAgrees, SameSession
<1>10. SavedFlagsAgree'
  BY <1>1, <1>8 DEF SavedFlagsAgree, SameFlags
<1> QED BY <1>4, <1>5, <1>6, <1>7, <1>9, <1>10

LEMMA ResponseFailsIInv ==
  ASSUME IInv, ResponseFails
  PROVE  IInv'
<1> USE ConstantsAssumption DEF IInv
<1>1. /\ Return /\ lost' = lost \union Pending
      /\ UNCHANGED <<file, tpm, authValue, nonces, restarted>>
  BY DEF ResponseFails
<1>2. Pending \subseteq Handles
  BY DEF Pending, TypeOK, CommandInv, Stores
<1>3. TypeOK'
  BY <1>1, <1>2, ReturnFacts DEF TypeOK
<1>4. SavedSessionAgrees'
  BY <1>1, ReturnFacts DEF SavedSessionAgrees, SameSession
<1>5. SavedFlagsAgree'
  BY <1>1, ReturnFacts DEF SavedFlagsAgree, SameFlags
<1> QED BY <1>1, <1>3, <1>4, <1>5, ReturnFacts

LEMMA StoreFailsIInv ==
  ASSUME IInv, StoreFails
  PROVE  IInv'
<1> USE ConstantsAssumption DEF IInv
<1>0. pc = "continue" => Writes \subseteq Pending
  BY DEF Writes, Pending
<1>1. /\ Return /\ lost' = lost \union Pending
      /\ UNCHANGED <<tpm, authValue, nonces, restarted>>
      /\ file' \in [Handles -> Session \union {NoSession, Torn}]
      /\ \A h \in Handles \ lost' : file'[h] = file[h]
  BY <1>0 DEF StoreFails, TypeOK
<1>2. Pending \subseteq Handles
  BY DEF Pending, TypeOK, CommandInv, Stores
<1>3. TypeOK'
  BY <1>1, <1>2, ReturnFacts DEF TypeOK
<1>4. SavedSessionAgrees'
  BY <1>1, ReturnFacts DEF SavedSessionAgrees, SameSession
<1>5. SavedFlagsAgree'
  BY <1>1, ReturnFacts DEF SavedFlagsAgree, SameFlags
<1> QED BY <1>1, <1>3, <1>4, <1>5, ReturnFacts

LEMMA TpmResetIInv ==
  ASSUME IInv, TpmReset
  PROVE  IInv'
<1> USE ConstantsAssumption DEF IInv
<1>1. /\ tpm' = [h \in Handles |-> NoSession]
      /\ lost' = lost \union {h \in Handles : tpm[h] # NoSession \/ file[h] # NoSession}
      /\ UNCHANGED <<file, authValue, nonces, pc, cmd, mem, reply, todo, restarted>>
  BY DEF TpmReset, NoMem
<1>2. TypeOK' /\ CommandInv' /\ SentInv'
  BY <1>1 DEF TypeOK, CommandInv, SentInv, Password
<1>3. Pending' = Pending
  BY <1>1 DEF Pending
<1>4. AnsweredInv'
  BY <1>1 DEF AnsweredInv, CommandInv, ResponseKey, TypeOK
<1>5. ContinueInv'
  BY <1>1 DEF ContinueInv, CommandInv, TypeOK
<1>6. TargetInv'
  BY <1>1 DEF TargetInv, CommandInv, PostTarget, Stores
<1>7. SavedSessionAgrees'
  BY <1>1, <1>3 DEF SavedSessionAgrees, SameSession
<1>8. SavedFlagsAgree'
  BY <1>1, <1>3 DEF SavedFlagsAgree, SameFlags
<1> QED BY <1>2, <1>4, <1>5, <1>6, <1>7, <1>8

LEMMA ContinueSessionIInv ==
  ASSUME IInv, NEW h \in Handles, ContinueSession(h)
  PROVE  IInv'
<1> USE ConstantsAssumption DEF IInv
<1>1. /\ pc = "continue" /\ pc' = "continue"
      /\ cmd \in Command
      /\ h \in todo /\ h \in cmd.use /\ h # cmd.target
      /\ mem[h] \in Session
      /\ file' = [file EXCEPT ![h] = IF h \in cmd.cont THEN NoFlags(mem[h]) ELSE NoSession]
      /\ todo' = todo \ {h}
      /\ restarted' = restarted \ {h}
      /\ UNCHANGED <<tpm, authValue, nonces, cmd, mem, reply, lost>>
  BY DEF ContinueSession, CommandInv, TypeOK
<1>2. file'[h] = IF h \in cmd.cont THEN NoFlags(mem[h]) ELSE NoSession
  BY <1>1 DEF TypeOK
<1>3. NoFlags(mem[h]) \in Session
  BY <1>1 DEF NoFlags, Session
<1>4. TypeOK'
  BY <1>1, <1>3 DEF TypeOK
<1>5. CommandInv' /\ SentInv' /\ AnsweredInv' /\ ContinueInv'
  BY <1>1 DEF CommandInv, SentInv, AnsweredInv, ContinueInv
<1>6. TargetInv'
  BY <1>1 DEF TargetInv, PostTarget, CommandInv, Stores, TypeOK
<1>7. Pending' = Pending \ {h} /\ h \in Pending
  BY <1>1 DEF Pending
<1>8. h \notin lost => tpm[h] = file'[h]
  BY <1>1, <1>2 DEF ContinueInv
<1>9. SavedSessionAgrees'
  <2>1. ASSUME NEW g \in Handles \ (lost' \union Pending')
        PROVE  SameSession(g)'
    <3>1. CASE g = h
      BY <3>1, <2>1, <1>1, <1>2, <1>3, <1>8 DEF SameSession
    <3>2. CASE g # h
      BY <3>2, <2>1, <1>1, <1>7 DEF SavedSessionAgrees, SameSession, TypeOK
    <3> QED BY <3>1, <3>2
  <2> QED BY <2>1 DEF SavedSessionAgrees
<1>10. SavedFlagsAgree'
  <2>1. ASSUME NEW g \in Handles \ (lost' \union Pending')
        PROVE  /\ g \notin restarted' => SameFlags(g)'
               /\ (file[g] \in Session /\ tpm[g] \in Session =>
                    /\ tpm[g].isPasswordNeeded =>
                         file[g].isPasswordNeeded \/ file[g].isAuthValueNeeded
                    /\ tpm[g].isAuthValueNeeded =>
                         file[g].isAuthValueNeeded \/ file[g].isPasswordNeeded)'
    <3>1. CASE g = h
      BY <3>1, <2>1, <1>1, <1>8 DEF SameFlags
    <3>2. CASE g # h
      BY <3>2, <2>1, <1>1, <1>7 DEF SavedFlagsAgree, SameFlags, TypeOK
    <3> QED BY <3>1, <3>2
  <2> QED BY <2>1 DEF SavedFlagsAgree
<1> QED BY <1>4, <1>5, <1>6, <1>9, <1>10

LEMMA PostProcessIInv ==
  ASSUME IInv, PostProcess
  PROVE  IInv'
<1> USE ConstantsAssumption DEF IInv
<1>1. /\ Return /\ pc = "continue" /\ todo = {}
      /\ cmd \in Command
      /\ UNCHANGED <<tpm, authValue, nonces, lost>>
  BY DEF PostProcess, CommandInv, TypeOK
<1>2. CASE cmd.kind \notin Stores
  <2>1. UNCHANGED <<file, restarted>> /\ Pending = {}
    BY <1>1, <1>2 DEF PostProcess, Pending
  <2>2. TypeOK'
    BY <2>1, <1>1, ReturnFacts DEF TypeOK
  <2>3. SavedSessionAgrees'
    BY <2>1, <1>1, ReturnFacts DEF SavedSessionAgrees, SameSession
  <2>4. SavedFlagsAgree'
    BY <2>1, <1>1, ReturnFacts DEF SavedFlagsAgree, SameFlags
  <2> QED BY <2>2, <2>3, <2>4, <1>1, ReturnFacts
<1>3. CASE cmd.kind \in Stores
  <2>1. /\ cmd.target \in Handles
        /\ file' = [file EXCEPT ![cmd.target] = PostTarget]
        /\ restarted' = restarted \ {cmd.target}
        /\ Pending = {cmd.target}
    BY <1>1, <1>3 DEF PostProcess, Pending, CommandInv, Stores
  <2>2. PostTarget \in Session \union {NoSession, Torn}
    <3>1. file[cmd.target] \in Session \union {NoSession, Torn} /\ nonces \in Nat
      BY <2>1 DEF TypeOK
    <3>2. CASE cmd.kind = "startAuthSession"
      BY <3>1, <3>2, <1>1, NewSessionIsSession DEF PostTarget, CommandInv
    <3>3. CASE cmd.kind = "flushContext"
      BY <3>3 DEF PostTarget
    <3>4. CASE cmd.kind = "policyAuthValue"
      BY <3>1, <3>4 DEF PostTarget, Session
    <3>5. CASE cmd.kind = "policyPassword"
      BY <3>1, <3>5 DEF PostTarget, Session
    <3> QED BY <3>2, <3>3, <3>4, <3>5, <1>3 DEF Stores
  <2>3. TypeOK'
    BY <2>1, <2>2, <1>1, ReturnFacts DEF TypeOK
  <2>4. cmd.target \notin lost => tpm[cmd.target] = file'[cmd.target]
    BY <2>1, <1>1, <1>3 DEF TargetInv, TypeOK
  <2>5. \A h \in Handles : h # cmd.target => file'[h] = file[h]
    BY <2>1 DEF TypeOK
  <2>6. SavedSessionAgrees'
    <3>1. ASSUME NEW h \in Handles \ lost
          PROVE  SameSession(h)'
      <4>1. CASE h = cmd.target
        BY <4>1, <3>1, <2>4, <1>1 DEF SameSession, TypeOK
      <4>2. CASE h # cmd.target
        BY <4>2, <3>1, <2>1, <2>5, <1>1 DEF SavedSessionAgrees, SameSession
      <4> QED BY <4>1, <4>2
    <3> QED BY <3>1, <1>1, ReturnFacts DEF SavedSessionAgrees
  <2>7. SavedFlagsAgree'
    <3>1. ASSUME NEW h \in Handles \ lost
          PROVE  /\ h \notin restarted' => SameFlags(h)'
                 /\ (file[h] \in Session /\ tpm[h] \in Session =>
                      /\ tpm[h].isPasswordNeeded =>
                           file[h].isPasswordNeeded \/ file[h].isAuthValueNeeded
                      /\ tpm[h].isAuthValueNeeded =>
                           file[h].isAuthValueNeeded \/ file[h].isPasswordNeeded)'
      <4>1. CASE h = cmd.target
        BY <4>1, <3>1, <2>4, <1>1 DEF SameFlags
      <4>2. CASE h # cmd.target
        BY <4>2, <3>1, <2>1, <2>5, <1>1 DEF SavedFlagsAgree, SameFlags
      <4> QED BY <4>1, <4>2
    <3> QED BY <3>1, <1>1, ReturnFacts DEF SavedFlagsAgree
  <2> QED BY <2>3, <2>6, <2>7, <1>1, ReturnFacts
<1> QED BY <1>2, <1>3

LEMMA NextIInv == IInv /\ [Next]_vars => IInv'
<1> SUFFICES ASSUME IInv, [Next]_vars PROVE IInv'
  OBVIOUS
<1>1. CASE UNCHANGED vars
  BY <1>1 DEF vars, IInv, TypeOK, CommandInv, SentInv, AnsweredInv, ContinueInv, TargetInv,
              SavedSessionAgrees, SavedFlagsAgree, SameSession, SameFlags, Pending, PostTarget,
              Password, ResponseKey
<1>2. ASSUME NEW h \in Handles, ContinueSession(h)
      PROVE  IInv'
  BY <1>2, ContinueSessionIInv
<1> QED
  BY <1>1, <1>2, BeginIInv, TpmExecuteIInv, TpmRejectIInv, ReceiveResponseIInv,
     ResponseFailsIInv, PostProcessIInv, StoreFailsIInv, TpmResetIInv DEF Next

-----------------------------------------------------------------------------
(* The theorems                                                            *)

\* IInv holds in every reachable state.
THEOREM Invariance == Spec => []IInv
BY InitIInv, NextIInv, PTL DEF Spec

\* The variables have their types: the save path never stores anything but a session or
\* nothing, and only a failed write leaves a torn file.
THEOREM TypeCorrectness == Spec => []TypeOK
<1>1. IInv => TypeOK
  BY DEF IInv
<1> QED BY <1>1, Invariance, PTL

\* The saved nonce, key and bind entity of every session are the TPM's
\* (TSS_Execute_valist, steps 10 to 12, and the post processors).
THEOREM SessionAgreement == Spec => []SavedSessionAgrees
<1>1. IInv => SavedSessionAgrees
  BY DEF IInv
<1> QED BY <1>1, Invariance, PTL

\* The saved policy flags are the TPM's unless TPM2_PolicyRestart was used.
THEOREM FlagAgreement == Spec => []SavedFlagsAgree
<1>1. IInv => SavedFlagsAgree
  BY DEF IInv
<1> QED BY <1>1, Invariance, PTL

\* The TPM accepts the authorization of every command sent with the right passwords.
THEOREM Authorization == Spec => []SentCommandIsAuthorized
<1>1. IInv => SentCommandIsAuthorized
  <2> SUFFICES ASSUME IInv, pc = "sent", cmd.use \intersect (lost \union restarted) = {}
               PROVE  Authorized
    BY DEF SentCommandIsAuthorized
  <2>1. ASSUME NEW h \in cmd.use
        PROVE  /\ tpm[h] # NoSession
               /\ SetHMAC(mem[h], cmd.authorizes[h], cmd.password[h])
                    = TpmExpects(tpm[h], cmd.authorizes[h])
    <3>1. tpm[h] = mem[h] /\ mem[h] \in Session
      BY SentSessionIsTpms
    <3>2. cmd.password[h] = Password(cmd.authorizes[h])
      BY DEF IInv, SentInv
    <3>3. SetHmacKey(mem[h], cmd.authorizes[h], cmd.password[h])
            = TpmKey(mem[h], cmd.authorizes[h], authValue)
      BY <3>1, <3>2, KeysAgree DEF Password
    <3>4. mem[h].sessionType = "HMAC" \/ mem[h].sessionType = "POLICY"
      BY <3>1 DEF Session
    <3> QED BY <3>1, <3>2, <3>3, <3>4, ConstantsAssumption DEF SetHMAC, TpmExpects
  <2> QED BY <2>1 DEF Authorized
<1> QED BY <1>1, Invariance, PTL

\* The response of a command the TPM executed verifies, a changed authValue included
\* (TSS_Command_ChangeAuthProcessor, TSS_HmacSession_Verify).
THEOREM ResponseVerification == Spec => []GenuineResponseVerifies
<1>1. IInv => GenuineResponseVerifies
  BY DEF IInv, AnsweredInv, GenuineResponseVerifies, ResponseVerifies
<1> QED BY <1>1, Invariance, PTL

-----------------------------------------------------------------------------
(* Saves roll forward                                                      *)

\* A session file that is replaced by another session gets a newer nonce, or the same session
\* with other policy flags.
SavesRollForward ==
  \A h \in Handles :
    file[h] \in Session /\ file'[h] \in Session /\ file'[h] # file[h] =>
      \/ file[h].nonceTPM < file'[h].nonceTPM
      \/ NoFlags(file[h]) = NoFlags(file'[h])

\* The files that are going to get the nonce of the response.
Rolling == todo \union (IF cmd.kind = "startAuthSession" THEN {cmd.target} ELSE {})

\* No file is newer than the newest nonce, and those in Rolling are older.
RollInv ==
  /\ \A h \in Handles : file[h] \in Session => file[h].nonceTPM <= nonces
  /\ pc \in {"answered", "continue"} =>
       \A h \in Rolling : file[h] \in Session => file[h].nonceTPM < nonces
  /\ pc = "continue" => \A h \in todo : mem[h].nonceTPM = nonces

LEMMA ClearedNonce ==
  ASSUME NEW s \in Session
  PROVE  NoFlags(s).nonceTPM = s.nonceTPM
BY DEF NoFlags, Session

LEMMA TpmExecuteRolls ==
  ASSUME IInv, RollInv, TpmExecute
  PROVE  RollInv'
<1>1. /\ UNCHANGED <<file, cmd, mem, todo>> /\ pc = "sent" /\ pc' = "answered"
      /\ nonces' = IF cmd.use # {} \/ cmd.kind = "startAuthSession" THEN nonces + 1 ELSE nonces
  BY DEF TpmExecute
<1>2. nonces \in Nat /\ todo = cmd.use
  BY <1>1 DEF IInv, TypeOK, CommandInv
<1>3. \A h \in Handles : file[h] \in Session => file[h].nonceTPM \in Nat
  BY DEF Session
<1>4. Rolling \subseteq Handles
  BY <1>1, ConstantsAssumption DEF Rolling, IInv, TypeOK, CommandInv, Command
<1>5. Rolling # {} => nonces' = nonces + 1
  BY <1>1, <1>2 DEF Rolling
<1>6. \A h \in Rolling : file[h] \in Session => file[h].nonceTPM < nonces'
  BY <1>2, <1>3, <1>4, <1>5 DEF RollInv
<1>7. \A h \in Handles : file[h] \in Session => file[h].nonceTPM <= nonces'
  BY <1>1, <1>2, <1>3 DEF RollInv
<1> QED BY <1>1, <1>6, <1>7 DEF RollInv, Rolling

LEMMA ReceiveResponseRolls ==
  ASSUME IInv, RollInv, ReceiveResponse
  PROVE  RollInv'
<1>1. /\ UNCHANGED <<file, nonces, cmd, todo>> /\ pc = "answered" /\ pc' = "continue"
      /\ mem' = [h \in Handles |->
           IF h \in cmd.use THEN AfterResponse(mem[h], nonces, h \in cmd.audit) ELSE mem[h]]
  BY DEF ReceiveResponse
<1>2. todo = cmd.use /\ todo \subseteq Handles /\ \A h \in todo : mem[h] \in Session
  BY <1>1 DEF IInv, TypeOK, CommandInv
<1>3. \A h \in todo : mem'[h].nonceTPM = nonces
  BY <1>1, <1>2 DEF AfterResponse, Session
<1> QED BY <1>1, <1>3 DEF RollInv, Rolling

LEMMA ContinueSessionRolls ==
  ASSUME IInv, RollInv, NEW h \in Handles, ContinueSession(h)
  PROVE  RollInv' /\ SavesRollForward
<1>1. /\ pc = "continue" /\ h \in todo /\ todo' = todo \ {h}
      /\ UNCHANGED <<pc, nonces, cmd, mem>>
      /\ file' = [file EXCEPT ![h] = IF h \in cmd.cont THEN NoFlags(mem[h]) ELSE NoSession]
  BY DEF ContinueSession
<1>2. /\ h \in cmd.use /\ mem[h] \in Session /\ h # cmd.target
      /\ nonces \in Nat
  BY <1>1 DEF IInv, TypeOK, CommandInv
<1>3. /\ \A g \in Handles \ {h} : file'[g] = file[g]
      /\ file'[h] = IF h \in cmd.cont THEN NoFlags(mem[h]) ELSE NoSession
  BY <1>1 DEF IInv, TypeOK
<1>4. NoFlags(mem[h]).nonceTPM = nonces
  BY <1>1, <1>2, ClearedNonce DEF RollInv
<1>5. file'[h] \in Session => file'[h].nonceTPM = nonces
  BY <1>3, <1>4, ConstantsAssumption
<1>6. Rolling' = Rolling \ {h}
  BY <1>1, <1>2 DEF Rolling
<1>7. Rolling \subseteq Handles
  BY <1>1, ConstantsAssumption DEF Rolling, IInv, TypeOK, CommandInv, Command
<1>8. SavesRollForward
  BY <1>1, <1>3, <1>5 DEF SavesRollForward, RollInv, Rolling
<1>9. \A g \in Handles : file'[g] \in Session => file'[g].nonceTPM <= nonces
  BY <1>2, <1>3, <1>5 DEF RollInv
<1>10. \A g \in Rolling' : file'[g] \in Session => file'[g].nonceTPM < nonces
  BY <1>1, <1>3, <1>6, <1>7 DEF RollInv
<1>11. \A g \in todo' : mem'[g].nonceTPM = nonces
  BY <1>1 DEF RollInv
<1> QED BY <1>1, <1>8, <1>9, <1>10, <1>11 DEF RollInv

LEMMA PostProcessRolls ==
  ASSUME IInv, RollInv, PostProcess
  PROVE  RollInv' /\ SavesRollForward
<1>1. pc = "continue" /\ pc' = "idle" /\ UNCHANGED nonces
  BY DEF PostProcess, Return
<1>2. nonces \in Nat /\ cmd \in Command
  BY <1>1 DEF IInv, TypeOK, CommandInv
<1>3. CASE file' = file
  BY <1>1, <1>3 DEF RollInv, SavesRollForward
<1>4. CASE file' = [file EXCEPT ![cmd.target] = PostTarget] /\ cmd.kind \in Stores
  <2>1. cmd.target \in Handles
    BY <1>1, <1>4 DEF IInv, CommandInv, Stores
  <2>2. /\ \A g \in Handles \ {cmd.target} : file'[g] = file[g]
        /\ file'[cmd.target] = PostTarget
    BY <1>4, <2>1 DEF IInv, TypeOK
  <2>3. CASE cmd.kind = "startAuthSession"
    <3>1. cmd.new \in NewSessions
      BY <1>1, <2>3 DEF IInv, CommandInv
    <3>2. PostTarget.nonceTPM = nonces
      BY <2>3, <3>1 DEF PostTarget, NewSessions
    <3>3. cmd.target \in Rolling
      BY <2>3 DEF Rolling
    <3>4. file[cmd.target] \in Session => file[cmd.target].nonceTPM < nonces
      BY <1>1, <3>3 DEF RollInv
    <3> QED BY <1>1, <1>2, <2>2, <3>2, <3>4 DEF RollInv, SavesRollForward
  <2>4. CASE cmd.kind = "flushContext"
    <3>1. PostTarget = NoSession /\ NoSession \notin Session
      BY <2>4, ConstantsAssumption DEF PostTarget
    <3> QED BY <1>1, <2>2, <3>1 DEF RollInv, SavesRollForward
  <2>5. CASE cmd.kind \in {"policyAuthValue", "policyPassword"}
    <3>1. CASE file[cmd.target] \in Session
      <4>1. NoFlags(PostTarget) = NoFlags(file[cmd.target])
            /\ PostTarget.nonceTPM = file[cmd.target].nonceTPM
        BY <2>5, <3>1 DEF PostTarget, NoFlags, Session
      <4> QED BY <1>1, <2>2, <3>1, <4>1 DEF RollInv, SavesRollForward
    <3>2. CASE file[cmd.target] \notin Session
      <4>1. PostTarget = file[cmd.target]
        BY <2>5, <3>2 DEF PostTarget
      <4> QED BY <1>1, <2>2, <3>2, <4>1 DEF RollInv, SavesRollForward
    <3> QED BY <3>1, <3>2
  <2> QED BY <1>4, <2>3, <2>4, <2>5 DEF Stores
<1> QED BY <1>3, <1>4 DEF PostProcess

LEMMA StoreFailsRolls ==
  ASSUME IInv, RollInv, StoreFails
  PROVE  RollInv' /\ SavesRollForward
<1>1. /\ UNCHANGED nonces /\ pc' = "idle"
      /\ \/ UNCHANGED file
         \/ \E h \in Writes : file' = [file EXCEPT ![h] = Torn]
  BY DEF StoreFails, Return
<1>2. \A h \in Handles : file'[h] = file[h] \/ file'[h] = Torn
  BY <1>1 DEF IInv, TypeOK
<1> QED BY <1>1, <1>2, ConstantsAssumption DEF RollInv, SavesRollForward

LEMMA StepRolls == IInv /\ RollInv /\ [Next]_vars => RollInv' /\ SavesRollForward
<1> SUFFICES ASSUME IInv, RollInv, [Next]_vars PROVE RollInv' /\ SavesRollForward
  OBVIOUS
<1>1. CASE Begin \/ TpmReject \/ ResponseFails
  <2>1. UNCHANGED <<file, nonces>> /\ pc' \in {"idle", "sent"}
    BY <1>1 DEF Begin, BeginAuthorize, BeginChangeAuth, BeginStartAuthSession,
       BeginFlushContext, BeginPolicy, Send, TpmReject, ResponseFails, Return
  <2> QED BY <2>1 DEF RollInv, SavesRollForward
<1>2. CASE TpmExecute
  <2>1. file' = file
    BY <1>2 DEF TpmExecute
  <2> QED BY <1>2, <2>1, TpmExecuteRolls DEF SavesRollForward
<1>3. CASE ReceiveResponse
  <2>1. file' = file
    BY <1>3 DEF ReceiveResponse
  <2> QED BY <1>3, <2>1, ReceiveResponseRolls DEF SavesRollForward
<1>4. ASSUME NEW h \in Handles, ContinueSession(h) PROVE RollInv' /\ SavesRollForward
  BY <1>4, ContinueSessionRolls
<1>5. CASE TpmReset \/ UNCHANGED vars
  <2>1. UNCHANGED <<file, nonces, pc, cmd, mem, todo>>
    BY <1>5 DEF TpmReset, vars
  <2> QED BY <2>1 DEF RollInv, Rolling, SavesRollForward
<1> QED BY <1>1, <1>2, <1>3, <1>4, <1>5, PostProcessRolls, StoreFailsRolls DEF Next

\* A save never takes a session back: whatever failed before, a file that is rewritten gets a
\* nonce the TPM issued after the one it had, or other policy flags only.  This holds of the
\* sessions a fault hit as well, of a handle that the TPM has given to another session, and
\* of several sessions of one command that are saved one after the other.
THEOREM SavesAreNewer == Spec => [][SavesRollForward]_vars
<1>1. Init => RollInv
  BY ConstantsAssumption DEF Init, NoMem, RollInv
<1> QED BY <1>1, StepRolls, Invariance, PTL DEF Spec
-----------------------------------------------------------------------------
(* Sessions that a fault hit                                               *)

\* The TPM has an HMAC session at handle h.
InHmacSession(h) == tpm[h] \in Session /\ tpm[h].sessionType = "HMAC"

\* A session that a fault hit is behind the TPM, whatever was saved since.  The sessions that
\* are due for the nonce of the response are not among them, and the policy commands have no
\* HMAC session to change.
LostInv ==
  /\ \A h \in Handles : InHmacSession(h) =>
       /\ ~tpm[h].isPasswordNeeded
       /\ h \in lost /\ file[h] \in Session => file[h].nonceTPM < tpm[h].nonceTPM
  /\ pc \in {"answered", "continue"} =>
       /\ \A h \in Rolling : InHmacSession(h) => tpm[h].nonceTPM = nonces /\ h \notin lost
       /\ cmd.kind \in Stores \ {"startAuthSession"} => ~InHmacSession(cmd.target)

\* What the TPM accepts of an HMAC session was computed from its own session: the nonce is
\* part of the key, so that a session a fault hit is refused, for good, and never half works.
LostSessionsAreRefused ==
  pc = "sent" /\ Authorized =>
    \A h \in cmd.use :
      tpm[h].sessionType = "HMAC" => h \notin lost /\ NoFlags(mem[h]) = NoFlags(tpm[h])

LEMMA LostRefused == IInv /\ LostInv => LostSessionsAreRefused
<1> SUFFICES ASSUME IInv, LostInv, pc = "sent", Authorized,
                    NEW h \in cmd.use, tpm[h].sessionType = "HMAC"
             PROVE  h \notin lost /\ NoFlags(mem[h]) = NoFlags(tpm[h])
  BY DEF LostSessionsAreRefused
<1>1. /\ h \in Handles /\ mem[h] \in Session /\ mem[h] = file[h]
      /\ h \notin lost => NoFlags(tpm[h]) = NoFlags(mem[h])
  BY SentSessionIsTpms
<1>2. tpm[h] \in Session
  BY <1>1 DEF Authorized, IInv, TypeOK
<1>3. InHmacSession(h) /\ ~tpm[h].isPasswordNeeded
  BY <1>1, <1>2 DEF InHmacSession, LostInv
<1>4. /\ TpmExpects(tpm[h], cmd.authorizes[h]).kind = "hmac"
      /\ TpmExpects(tpm[h], cmd.authorizes[h]).nonceTPM = tpm[h].nonceTPM
  BY <1>3 DEF TpmExpects
<1>5. SetHMAC(mem[h], cmd.authorizes[h], cmd.password[h]).kind = "hmac" =>
        SetHMAC(mem[h], cmd.authorizes[h], cmd.password[h]).nonceTPM = mem[h].nonceTPM
  BY DEF SetHMAC
<1>6. mem[h].nonceTPM = tpm[h].nonceTPM
  BY <1>4, <1>5 DEF Authorized
<1>7. file[h].nonceTPM \in Nat
  BY <1>1 DEF Session
<1>8. h \notin lost
  BY <1>1, <1>3, <1>6, <1>7 DEF LostInv
<1> QED BY <1>1, <1>8

LEMMA TpmExecuteLost ==
  ASSUME IInv, RollInv, LostInv, TpmExecute
  PROVE  LostInv'
<1>1. /\ pc = "sent" /\ pc' = "answered" /\ UNCHANGED <<file, cmd, mem, todo>>
      /\ Authorized
      /\ nonces' = IF cmd.use # {} \/ cmd.kind = "startAuthSession" THEN nonces + 1 ELSE nonces
      /\ lost' = IF cmd.kind \in {"startAuthSession", "flushContext"}
                   THEN lost \ {cmd.target} ELSE lost
      /\ \A h \in Handles :
           tpm'[h] = CASE h \in cmd.use \intersect cmd.cont ->
                            TpmAfterUse(tpm[h], nonces + 1, h \in cmd.audit)
                       [] h \in cmd.use \ cmd.cont -> NoSession
                       [] h = cmd.target           -> TpmTarget(tpm[h])
                       [] OTHER                    -> tpm[h]
  BY DEF TpmExecute
<1>2. /\ nonces \in Nat /\ cmd \in Command /\ todo = cmd.use /\ cmd.use \subseteq Handles
      /\ cmd.target \notin cmd.use
      /\ cmd.target \in Handles <=> cmd.kind \notin {"authorize", "changeAuth"}
      /\ cmd.kind = "startAuthSession" => cmd.new \in NewSessions
  BY <1>1 DEF IInv, TypeOK, CommandInv, Command
<1>3. \A h \in Handles : file[h] \in Session => file[h].nonceTPM \in Nat
  BY DEF Session
<1>4. ASSUME NEW h \in cmd.use, InHmacSession(h)'
      PROVE  /\ ~tpm'[h].isPasswordNeeded /\ tpm'[h].nonceTPM = nonces' /\ h \notin lost'
             /\ file[h] \in Session => file[h].nonceTPM < tpm'[h].nonceTPM
  <2>1. tpm'[h] = TpmAfterUse(tpm[h], nonces + 1, h \in cmd.audit)
    BY <1>1, <1>2, <1>4, ConstantsAssumption DEF InHmacSession
  <2>2. tpm[h] \in Session
    BY <1>1, <1>2 DEF Authorized, IInv, TypeOK
  <2>3. /\ tpm'[h].sessionType = tpm[h].sessionType /\ tpm'[h].nonceTPM = nonces + 1
        /\ ~tpm'[h].isPasswordNeeded
    BY <2>1, <2>2 DEF TpmAfterUse, Session
  <2>4. h \notin lost
    BY <1>1, <1>4, <2>3, LostRefused DEF LostSessionsAreRefused, InHmacSession
  <2> QED BY <1>1, <1>2, <1>3, <2>3, <2>4 DEF RollInv
<1>5. ASSUME NEW h \in Handles, h = cmd.target, InHmacSession(h)'
      PROVE  /\ cmd.kind = "startAuthSession" /\ h \notin lost'
             /\ ~tpm'[h].isPasswordNeeded /\ tpm'[h].nonceTPM = nonces'
             /\ file[h] \in Session => file[h].nonceTPM < tpm'[h].nonceTPM
  <2>1. tpm'[h] = TpmTarget(tpm[h])
    BY <1>1, <1>2, <1>5
  <2>2. CASE cmd.kind = "startAuthSession"
    <3>1. tpm'[h].nonceTPM = nonces + 1 /\ ~tpm'[h].isPasswordNeeded
      BY <1>2, <2>1, <2>2 DEF TpmTarget, NewSessions
    <3> QED BY <1>1, <1>2, <1>3, <1>5, <2>2, <3>1 DEF RollInv
  <2>3. CASE cmd.kind = "flushContext"
    BY <1>5, <2>1, <2>3, ConstantsAssumption DEF TpmTarget, InHmacSession
  <2>4. CASE cmd.kind \notin {"startAuthSession", "flushContext"}
    <3>1. tpm[h] \in Session /\ tpm[h].sessionType = "POLICY"
      BY <1>5, <2>4, ConstantsAssumption DEF TpmExecute, IInv, TypeOK
    <3>2. tpm'[h].sessionType = "POLICY"
      BY <2>1, <2>4, <3>1 DEF TpmTarget, NoFlags, Session
    <3> QED BY <1>5, <3>2 DEF InHmacSession
  <2> QED BY <2>2, <2>3, <2>4
<1>6. ASSUME NEW h \in Handles, h \notin cmd.use, h # cmd.target
      PROVE  tpm'[h] = tpm[h] /\ (h \in lost' <=> h \in lost)
  BY <1>1, <1>6
<1>7. ASSUME NEW h \in Handles, InHmacSession(h)'
      PROVE  /\ ~tpm'[h].isPasswordNeeded
             /\ h \in lost' /\ file[h] \in Session => file[h].nonceTPM < tpm'[h].nonceTPM
  <2>1. CASE h \in cmd.use
    BY <1>4, <1>7, <2>1
  <2>2. CASE h = cmd.target
    BY <1>5, <1>7, <2>2
  <2>3. CASE h \notin cmd.use /\ h # cmd.target
    BY <1>6, <1>7, <2>3 DEF LostInv, InHmacSession
  <2> QED BY <2>1, <2>2, <2>3
<1>8. ASSUME NEW h \in Rolling', InHmacSession(h)'
      PROVE  tpm'[h].nonceTPM = nonces' /\ h \notin lost'
  <2>1. h \in cmd.use \/ (cmd.kind = "startAuthSession" /\ h = cmd.target)
    BY <1>1, <1>2 DEF Rolling
  <2> QED BY <1>2, <1>4, <1>5, <1>8, <2>1
<1>9. cmd.kind \in Stores \ {"startAuthSession"} => ~InHmacSession(cmd.target)'
  BY <1>1, <1>2, <1>5 DEF Stores, InHmacSession
<1> QED BY <1>1, <1>7, <1>8, <1>9 DEF LostInv

\* A fault adds the sessions that are due, of which the HMAC sessions are behind the TPM.
LEMMA FaultLost ==
  ASSUME IInv, RollInv, LostInv, ResponseFails \/ StoreFails
  PROVE  LostInv'
<1>1. /\ pc \in {"answered", "continue"} /\ pc' = "idle" /\ UNCHANGED <<tpm, nonces>>
      /\ lost' = lost \union Pending
      /\ \/ UNCHANGED file
         \/ \E h \in Handles : file' = [file EXCEPT ![h] = Torn]
  <2>1. CASE ResponseFails
    BY <2>1 DEF ResponseFails, Return
  <2>2. CASE StoreFails
    <3>1. cmd.kind \in Stores => cmd.target \in Handles
      BY <2>2 DEF StoreFails, IInv, CommandInv, Stores
    <3>2. Writes \subseteq Handles
      BY <3>1 DEF Writes, IInv, TypeOK
    <3> QED BY <2>2, <3>2 DEF StoreFails, Return
  <2> QED BY <2>1, <2>2
<1>2. \A h \in Handles : file'[h] \in Session => file'[h] = file[h]
  BY <1>1, ConstantsAssumption DEF IInv, TypeOK
<1>3. ASSUME NEW h \in Handles, InHmacSession(h), h \in Pending, file[h] \in Session
      PROVE  file[h].nonceTPM < tpm[h].nonceTPM
  <2>1. h \in Rolling
    BY <1>1, <1>3 DEF Pending, Rolling, LostInv
  <2> QED BY <1>1, <1>3, <2>1 DEF LostInv, RollInv
<1>4. \A h \in Handles : InHmacSession(h) =>
        /\ ~tpm[h].isPasswordNeeded
        /\ h \in lost' /\ file'[h] \in Session => file'[h].nonceTPM < tpm[h].nonceTPM
  BY <1>1, <1>2, <1>3 DEF LostInv
<1> QED BY <1>1, <1>4 DEF LostInv, InHmacSession

\* A save may only bring a session up to date that no fault has hit, or change its flags.
LEMMA ContinueSessionLost ==
  ASSUME IInv, LostInv, NEW h \in Handles, ContinueSession(h)
  PROVE  LostInv'
<1>1. /\ pc = "continue" /\ h \in todo /\ todo' = todo \ {h}
      /\ UNCHANGED <<tpm, pc, nonces, cmd, lost>>
      /\ \A g \in Handles \ {h} : file'[g] = file[g]
  BY DEF ContinueSession, IInv, TypeOK
<1>2. Rolling' \subseteq Rolling /\ h \in Rolling
  BY <1>1 DEF Rolling
<1>3. InHmacSession(h) => h \notin lost
  BY <1>1, <1>2 DEF LostInv
<1> QED BY <1>1, <1>2, <1>3 DEF LostInv, InHmacSession

LEMMA PostProcessLost ==
  ASSUME IInv, LostInv, PostProcess
  PROVE  LostInv'
<1>1. /\ pc = "continue" /\ pc' = "idle" /\ UNCHANGED <<tpm, nonces, lost>>
      /\ \/ UNCHANGED file
         \/ /\ cmd.kind \in Stores /\ cmd.target \in Handles
            /\ \A g \in Handles \ {cmd.target} : file'[g] = file[g]
  BY DEF PostProcess, Return, IInv, TypeOK, CommandInv, Stores
<1>2. cmd.kind \in Stores => ~(InHmacSession(cmd.target) /\ cmd.target \in lost)
  BY <1>1 DEF LostInv, Rolling
<1> QED BY <1>1, <1>2 DEF LostInv, InHmacSession

LEMMA StepLost == IInv /\ RollInv /\ LostInv /\ [Next]_vars => LostInv'
<1> SUFFICES ASSUME IInv, RollInv, LostInv, [Next]_vars PROVE LostInv'
  OBVIOUS
<1>1. CASE Begin \/ TpmReject
  <2>1. UNCHANGED <<file, tpm, lost>> /\ pc' \in {"idle", "sent"}
    BY <1>1 DEF Begin, BeginAuthorize, BeginChangeAuth, BeginStartAuthSession,
       BeginFlushContext, BeginPolicy, Send, TpmReject, Return
  <2> QED BY <2>1 DEF LostInv, InHmacSession
<1>2. CASE ReceiveResponse \/ UNCHANGED vars
  <2>1. /\ UNCHANGED <<file, tpm, nonces, cmd, todo, lost>>
        /\ pc' = pc \/ pc = "answered"
    BY <1>2 DEF ReceiveResponse, vars
  <2> QED BY <2>1 DEF LostInv, InHmacSession, Rolling
<1>3. CASE TpmReset
  <2>1. /\ UNCHANGED <<pc, cmd, todo>>
        /\ \A h \in Handles : tpm'[h] \notin Session
    BY <1>3, ConstantsAssumption DEF TpmReset, NoMem
  <2>2. /\ pc \in {"answered", "continue"} => Rolling \subseteq Handles
        /\ pc \in {"answered", "continue"} /\ cmd.kind \in Stores => cmd.target \in Handles
    BY DEF Rolling, IInv, TypeOK, CommandInv, Stores
  <2> QED BY <2>1, <2>2 DEF LostInv, InHmacSession, Rolling
<1>4. ASSUME NEW h \in Handles, ContinueSession(h) PROVE LostInv'
  BY <1>4, ContinueSessionLost
<1> QED BY <1>1, <1>2, <1>3, <1>4, TpmExecuteLost, FaultLost, PostProcessLost DEF Next

\* The converse of Authorization.  A fault between the TPM's execution and the save leaves the
\* application with an old session; the TPM refuses every command with it, and no save, of this
\* or of another session, nor a change of its policy flags on file makes it look right again.
\* An accepted HMAC session is the TPM's in all that enters the keys, so that no command is
\* executed whose parameters were encrypted with another key than the TPM decrypts with.
THEOREM LostSessionsStayRefused == Spec => []LostSessionsAreRefused
<1>1. Init => RollInv /\ LostInv
  BY ConstantsAssumption DEF Init, NoMem, RollInv, LostInv, InHmacSession
<1>2. IInv /\ RollInv /\ LostInv /\ [Next]_vars => RollInv' /\ LostInv'
  BY StepRolls, StepLost
<1> QED BY <1>1, <1>2, LostRefused, Invariance, PTL DEF Spec
=============================================================================
