------------------------------ MODULE TssUtilities ------------------------------
(***************************************************************************)
(* A run of one of the command line programs, from the options it is       *)
(* given to its exit.                                                      *)
(*                                                                         *)
(* The programs are written in the language of UtilityPrograms.  What the  *)
(* option loop left in a variable is chosen when the program first looks   *)
(* at it, the variables in Deciding when it starts, and forgotten when it  *)
(* no longer will.  Any call may fail: a file cannot be read, TSS_Create,  *)
(* TSS_Execute or TSS_Delete returns an error.  When TSS_Execute does, the *)
(* TPM may have executed the command all the same: checking the response,  *)
(* decrypting it and saving what it says come after.                       *)
(***************************************************************************)
EXTENDS UtilityPrograms, CommandAttributes

CONSTANTS
  Programs,   \* the utilities that are run: for a name the options and the code
  Deciding    \* the variables of the options that are chosen at the start

VARIABLES
  utility,    \* the program, "" before it runs
  at,         \* its next instruction, one more than there are at the end of main()
  pending,    \* the groups of variables that it has not looked at yet
  given,      \* the values of those that it has
  assigned,   \* the fields of the input structure with a value
  selected,   \* the constants in the fields that select the member of a union
  rc,         \* "ok" or "error"
  context,    \* tssContext: "none" or "created"
  commands,   \* the number of commands that were executed, two for more than one
  held,       \* the handle variables of what the program made in the TPM and has not tried to remove
  unremoved,  \* those of what it has tried to remove, and is still there
  lost,       \* those that named, or were to name, what is still there and no variable names
  failed,     \* a call failed whose result the program looks at
  exit        \* "", "usage" (or another exit() of main), "success", "failure" or "crash"

vars ==
  <<utility, at, pending, given, assigned, selected, rc, context, commands, held, unremoved, lost,
    failed, exit>>

\* What is in the TPM, by the variables for its handles.
made == <<held, unremoved, lost>>

NoField == [x \in {} |-> 0]

Init ==
  /\ utility = "" /\ at = 0 /\ pending = {} /\ given = NoField
  /\ assigned = {} /\ selected = NoField
  /\ rc = "ok" /\ context = "none" /\ commands = 0 /\ failed = FALSE /\ exit = ""
  /\ held = {} /\ unremoved = {} /\ lost = {}

-----------------------------------------------------------------------------
(* The programs                                                            *)

Code(name) == Programs[name].code

\* The instructions inside an instruction follow it.
Length(s) == IF s.do \in {"when", "probe", "guarded", "repeat", "jump"} THEN s.length ELSE 0

\* The first instruction after the i-th and those inside it.
Past(code, i) == i + 1 + Length(code[i])

\* What may come at i or later: the loops that i is in begin again.
Ahead(code, i) ==
  {j \in 1..Len(code) + 1 :
     \/ j >= i
     \/ \E b \in DOMAIN code : code[b].do = "back" /\ i <= b /\ b - code[b].length <= j}

VariablesOf(c) == {literal.variable : literal \in UNION (c.holds \union c.fails)}

\* What decides whether the instruction is done, and how.
LooksAt(s) ==
  CASE s.do \in {"refuse", "when"} -> VariablesOf(s.if)
    [] s.do \in {"requires", "writes", "writesEach"} -> s.variables
    [] OTHER -> {}

LooksAtLater(code, i) == UNION {LooksAt(code[j]) : j \in Ahead(code, i) \ {Len(code) + 1}}

\* The variables of the options that are chosen at the start: the groups of those in Deciding.
DecidingGroups(name) ==
  {group \in Programs[name].options : \E g \in group : DOMAIN g \intersect Deciding # {}}

Keys(name) == UNION {DOMAIN g : g \in UNION DecidingGroups(name)}

\* The values the option loop may leave in them.
Valuations(name) ==
  {x \in [Keys(name) -> UNION {Range(g) : g \in UNION DecidingGroups(name)}] :
     \A group \in DecidingGroups(name) : \E g \in group : \A v \in DOMAIN g : x[v] = g[v]}

\* A clause that is satisfied, as far as the values of the variables are known.
Satisfied(clause, values) ==
  \A literal \in clause :
    literal.variable \in DOMAIN values =>
      ((values[literal.variable] \in literal.values) <=> literal.in)

\* A condition may both hold and fail when it also tests something else.
MayHold(c, values) == \E clause \in c.holds : Satisfied(clause, values)

MayFail(c, values) == \E clause \in c.fails : Satisfied(clause, values)

-----------------------------------------------------------------------------
(* The steps                                                               *)

Running == utility # "" /\ exit = ""

Ended == at = Len(Code(utility)) + 1

Instruction == Code(utility)[at]

Begins(do) ==
  /\ Running /\ ~Ended
  /\ Instruction.do = do
  /\ rc = "ok" \/ Unguarded(Instruction)

\* The variables that are looked at now are known.
Known == LooksAt(Instruction) \subseteq DOMAIN given

\* f, and g where it says nothing: f @@ g, of which the provers do not know the definition.
Completed(f, g) ==
  [x \in DOMAIN f \union DOMAIN g |-> IF x \in DOMAIN f THEN f[x] ELSE g[x]]

\* What the program will not look at again is forgotten.
GoTo(i, ok) ==
  LET looksAt == LooksAtLater(Code(utility), i) \union Keys(utility)
  IN  /\ at' = i
      /\ pending' = {group \in pending : \E g \in group : DOMAIN g \intersect looksAt # {}}
      /\ given' = [v \in DOMAIN given \intersect looksAt |-> given[v]]
      /\ rc' = IF ok THEN "ok" ELSE "error"

GoOn(ok) == GoTo(at + 1, ok)

Start ==
  /\ utility = ""
  /\ \E name \in DOMAIN Programs :
       /\ utility' = name
       /\ at' = 1
       /\ pending' = Programs[name].options \ DecidingGroups(name)
       /\ given' \in Valuations(name)
  /\ UNCHANGED <<assigned, selected, rc, context, commands, made, failed, exit>>

\* What the option loop left in a group of variables.
Option ==
  /\ Running /\ ~Ended
  /\ rc = "ok" \/ Unguarded(Instruction)
  /\ ~Known
  /\ LET group == CHOOSE group \in pending :
                    \E g \in group : (DOMAIN g \intersect LooksAt(Instruction)) \ DOMAIN given # {}
     IN  /\ \E g \in group : given' = Completed(given, g)
         /\ pending' = pending \ {group}
  /\ UNCHANGED <<utility, at, assigned, selected, rc, context, commands, made, failed, exit>>

\* if (rc == 0) around an instruction, with what is inside it.
PassBy ==
  /\ Running /\ ~Ended
  /\ rc = "error" /\ ~Unguarded(Instruction)
  /\ GoTo(Past(Code(utility), at), FALSE)
  /\ UNCHANGED <<utility, assigned, selected, context, commands, made, failed, exit>>

\* exit() or a crash.
Stop(how) == exit' = how /\ at' = 0 /\ pending' = {} /\ given' = NoField

printUsage ==
  /\ Stop("usage")
  /\ UNCHANGED <<utility, assigned, selected, rc, context, commands, made, failed>>

Rejected ==
  /\ \/ Begins("refuse") /\ Known /\ MayHold(Instruction.if, given)
     \/ Begins("requires") /\ Known /\ \E v \in Instruction.variables : given[v] = "none"
  /\ printUsage

Accepted ==
  /\ \/ Begins("refuse") /\ Known /\ MayFail(Instruction.if, given)
     \/ Begins("requires") /\ Known /\ \A v \in Instruction.variables : given[v] # "none"
  /\ GoOn(rc = "ok")
  /\ UNCHANGED <<utility, assigned, selected, context, commands, made, failed, exit>>

Branch ==
  /\ \/ /\ Begins("when") /\ Known
        /\ \/ MayHold(Instruction.if, given) /\ GoOn(rc = "ok")
           \/ MayFail(Instruction.if, given) /\ GoTo(at + 1 + Instruction.otherwise, rc = "ok")
     \/ Begins("guarded") /\ GoOn(TRUE)
     \/ Begins("repeat") /\ (GoOn(TRUE) \/ GoTo(Past(Code(utility), at), TRUE))
     \/ Begins("jump") /\ GoTo(Past(Code(utility), at), rc = "ok")
     \/ Begins("back") /\ GoTo(at - Instruction.length, rc = "ok")
  /\ UNCHANGED <<utility, assigned, selected, context, commands, made, failed, exit>>

Assign ==
  /\ \/ /\ Begins("sets")
        /\ assigned' = assigned \union Instruction.fields
        /\ UNCHANGED selected
     \/ /\ Begins("selects")
        /\ assigned' = assigned \union {Instruction.field}
        /\ selected' = Completed([x \in {Instruction.field} |-> Instruction.value], selected)
  /\ GoOn(TRUE)
  /\ UNCHANGED <<utility, context, commands, made, failed, exit>>

CallSucceeds ==
  /\ \/ /\ Begins("try") \/ Begins("anyway")
        /\ assigned' = assigned \union Instruction.fields
     \/ /\ Begins("marshals")
        /\ assigned' = assigned \union {Instruction.to}
     \/ /\ Begins("writes") \/ Begins("writesEach")
        /\ Known
        /\ UNCHANGED assigned
  /\ GoOn(TRUE)
  /\ UNCHANGED <<utility, selected, context, commands, made, failed, exit>>

CallFails ==
  /\ \/ Begins("try") \/ Begins("anyway") \/ Begins("marshals")
     \/ /\ Begins("writes") \/ Begins("writesEach")
        /\ Known
        /\ \E v \in Instruction.variables : given[v] # "none"
  /\ failed' = TRUE
  /\ GoOn(FALSE)
  /\ UNCHANGED <<utility, assigned, selected, context, commands, made, exit>>

\* The error of one file is replaced by the success of another that is written after it.
FailureCovered ==
  /\ Begins("writesEach") /\ Known
  /\ \E v, w \in Instruction.variables : v # w /\ given[v] # "none" /\ given[w] # "none"
  /\ failed' = TRUE
  /\ GoOn(TRUE)
  /\ UNCHANGED <<utility, assigned, selected, context, commands, made, exit>>

\* When it fails TSS_Create has freed the context and left NULL.
CreateContext ==
  /\ Begins("create")
  /\ \E ok \in BOOLEAN :
       /\ context' = IF ok THEN "created" ELSE "none"
       /\ failed' = (failed \/ ~ok)
       /\ GoOn(ok)
  /\ UNCHANGED <<utility, assigned, selected, commands, made, exit>>

OneMore == IF commands = 2 THEN 2 ELSE commands + 1

\* What a command makes and removes.  Those of a program with one command are what it is for.
Making(s) == IF s.do = "call" THEN s.makes ELSE {}

Removing(s) == IF s.do \in {"call", "finally"} THEN s.removes ELSE {}

\* What the program has tried to remove, even if it is still there.
GivenUp(s) == IF s.do = "call" /\ s.command = "FlushContext" THEN s.removes ELSE {}

ExecuteCommand ==
  /\ Begins("execute") \/ Begins("call") \/ Begins("transmit")
  /\ commands' = OneMore
  /\ held' = held \ Removing(Instruction)
  /\ unremoved' = unremoved \ Removing(Instruction)
  /\ GoOn(TRUE)
  /\ UNCHANGED <<utility, assigned, selected, context, lost, failed, exit>>

\* What the variable of a failed call then names: what it named before, what the command has made,
\* or anything else, when it is assigned from an output structure that was perhaps never filled.
Names(s) ==
  CASE Making(s) = {} \/ s.known = "success" -> {"old"}
    [] s.known = "always" -> {"new"}
    [] s.known = "perhaps" -> {"old", "new", "other"}

\* TSS_Execute returns an error, before or after the TPM has executed the command.
CommandFails ==
  /\ Begins("execute") \/ Begins("call") \/ Begins("transmit")
  /\ \E executed \in BOOLEAN, now \in Names(Instruction) :
       LET new == IF executed THEN Making(Instruction) ELSE {}
           gone == IF executed THEN Removing(Instruction) ELSE {}
           named == IF now = "new" THEN new ELSE {}
           overwritten == IF now = "old" THEN {} ELSE Making(Instruction)
       IN  /\ held' = (held \ (gone \union GivenUp(Instruction) \union overwritten)) \union named
           /\ unremoved' =
                (unremoved \union (held \intersect GivenUp(Instruction))) \ (gone \union overwritten)
           /\ lost' =
                lost \union (new \ named) \union ((held \union unremoved) \intersect overwritten)
  /\ failed' = TRUE
  /\ GoOn(FALSE)
  /\ UNCHANGED <<utility, assigned, selected, context, commands, exit>>

\* The failure of a probe is forgiven: the program goes on another way, with rc set to 0.
ProbeTpm ==
  /\ Begins("probe")
  /\ \/ /\ commands' = OneMore
        /\ GoOn(TRUE)
        /\ UNCHANGED failed
     \/ /\ GoTo(at + 1 + Instruction.otherwise, TRUE)
        /\ UNCHANGED <<commands, failed>>
     \/ /\ Instruction.forgiven = "perhaps"
        /\ failed' = TRUE
        /\ GoTo(Past(Code(utility), at), FALSE)
        /\ UNCHANGED commands
  /\ UNCHANGED <<utility, assigned, selected, context, made, exit>>

\* TSS_Execute reads the context before it looks at anything else.  Whether it failed, and what it
\* was to remove is still there, the program does not ask: rc is what it was.
CleanUp ==
  /\ Begins("finally")
  /\ \/ /\ context = "none"
        /\ Stop("crash")
        /\ UNCHANGED <<made, rc>>
     \/ /\ context = "created"
        /\ held' = held \ Removing(Instruction)
        /\ \E remains \in SUBSET ((held \union unremoved) \intersect Removing(Instruction)) :
             unremoved' = (unremoved \ Removing(Instruction)) \union remains
        /\ GoOn(rc = "ok")
        /\ UNCHANGED <<lost, exit>>
  /\ UNCHANGED <<utility, assigned, selected, context, commands, failed>>

\* What the variable named before, if it is still in the TPM, has no name any more.
KeepHandle ==
  /\ Begins("keeps")
  /\ LET handle == {Instruction.handle}
     IN  /\ held' = held \union handle
         /\ unremoved' = unremoved \ handle
         /\ lost' = lost \union ((held \union unremoved) \intersect handle)
  /\ GoOn(TRUE)
  /\ UNCHANGED <<utility, assigned, selected, context, commands, failed, exit>>

\* Without a context there is nothing to delete and nothing to fail.
DeleteContext ==
  /\ Begins("delete")
  /\ context' = "none"
  /\ \E ok \in BOOLEAN :
       /\ ~ok => context = "created"
       /\ failed' = (failed \/ ~ok)
       /\ GoOn(rc = "ok" /\ ok)
  /\ UNCHANGED <<utility, assigned, selected, commands, made, exit>>

\* A mutant: the response code itself is the exit status.
Return_ResponseCode ==
  /\ Running /\ Ended
  /\ exit' = rc
  /\ UNCHANGED <<utility, at, pending, given, assigned, selected, rc, context, commands, made, failed>>

\* createek returns rc itself, of which the exit status is the low byte: 0 for TPM_RC_INITIALIZE.
Statuses ==
  IF rc = "ok" THEN {"success"}
  ELSE IF utility = "createek" THEN {"failure", "success"} ELSE {"failure"}

\* The message, and EXIT_FAILURE for whatever the error is.
Return ==
  /\ Running /\ Ended
  /\ exit' \in Statuses
  /\ UNCHANGED <<utility, at, pending, given, assigned, selected, rc, context, commands, made, failed>>

Exited == exit # "" /\ UNCHANGED vars

Next ==
  \/ Start \/ Option \/ PassBy \/ Rejected \/ Accepted \/ Branch \/ Assign \/ CallSucceeds
  \/ CallFails \/ FailureCovered \/ CreateContext \/ ExecuteCommand \/ CommandFails \/ ProbeTpm
  \/ CleanUp \/ KeepHandle \/ DeleteContext \/ Return \/ Exited

Spec == Init /\ [][Next]_vars

-----------------------------------------------------------------------------
(* Properties                                                              *)

TypeOK ==
  /\ utility \in DOMAIN Programs \union {""}
  /\ utility = "" => at = 0 /\ exit = ""
  /\ Running => at \in 1..Len(Code(utility)) + 1
  /\ DOMAIN selected \subseteq assigned
  /\ rc \in {"ok", "error"}
  /\ context \in {"none", "created"}
  /\ commands \in 0..2
  /\ failed \in BOOLEAN
  /\ exit \in {"", "usage", "success", "failure", "crash"}

\* The instructions that send a command with an input structure of their own.
Called(s) == s.do \in {"call", "probe", "finally"}

\* Without any session option a command gets a session for each handle that the command table
\* of the TSS wants an authorization for, in the order of the handles, and no session besides.
\* A session or an object that a command of a longer program uses was made by it and has
\* neither been flushed nor, with the command that did not continue the session, gone.
HandlesFit ==
  Begins("execute") \/ Begins("call") \/ Begins("probe") \/ Begins("finally") =>
    LET s == Instruction
    IN  /\ \A i \in DOMAIN s.sessions :
             /\ s.sessions[i] # "TPM_RH_NULL" <=> getCommandAuthRole(s.command, i - 1) # "AUTH_NONE"
             /\ s.sessions[i] \in {"TPM_RH_NULL", "TPM_RS_PW"} \union held
        /\ Called(s) => s.uses \subseteq held

\* The context of a command was created and is not created twice, and on every way out of
\* the program, the usage included, it has been deleted; nor does the program end, whatever
\* failed, before it has tried to remove each session, key or index that it has made and has a
\* handle of, or assign another to the variable with that handle before.  The exception is a
\* program that flushes although TSS_Create has failed: there is nothing to flush, and it ends in
\* TSS_Execute without a context.
EverythingReleased ==
  /\ Begins("execute") \/ Begins("call") \/ Begins("probe") \/ Begins("transmit") => context = "created"
  /\ Begins("create") => context = "none"
  /\ Begins("keeps") => Instruction.handle \notin held
  /\ exit # "" => context = "none" /\ held = {}
  /\ exit = "crash" => utility \in {"signapp", "writeapp"} /\ commands = 0

OfSeveralCommands ==
  {"createek", "eventextend", "imaextend", "powerup", "signapp", "startup", "timepacket", "writeapp"}

\* The programs that may have nothing to send: verifysignature with -ipem alone checks the
\* signature without the TPM, an event log may be empty, and timepacket -l 0 sends nothing.
MayDoNothing == {"verifysignature", "imaextend", "eventextend", "timepacket"}

\* The programs that write a file for each bank of PCRs.
CoverErrors == {"pcrevent", "eventsequencecomplete"}

\* The programs that do not look at the results of flush() and undefineSpace().
IgnoreErrors == {"signapp", "writeapp"}

\* A program that says it succeeded has executed its command, and none of them twice unless it
\* is one of several commands; not one of its calls, of TSS_Delete and for the output files too,
\* has failed, and nothing it was to remove is still in the TPM.  The exceptions are createek,
\* which returns the response code, that may look like success; the two programs that write the
\* digests of several banks without a look at rc; and signapp and writeapp, which throw away the
\* results of their removals and say success with a session, a key or the index left behind, or
\* a session that no variable names since its flush failed.
SuccessMeansDone ==
  exit = "success" /\ utility # "createek" =>
    /\ failed => utility \in CoverErrors
    /\ unremoved \union lost # {} => utility \in IgnoreErrors
    /\ commands > 0 \/ utility \in MayDoNothing
    /\ commands < 2 \/ utility \in OfSeveralCommands

=================================================================================
