-------------------------- MODULE TssUtilities_proofs --------------------------
(***************************************************************************)
(* That a utility that keeps to the discipline of UtilityDiscipline tries  *)
(* to remove what it makes and hides no error but that of a removal whose  *)
(* result it throws away, for any set of programs, any options and any     *)
(* calls that fail, before or after the TPM has executed them.             *)
(*                                                                         *)
(* The invariant is that the assertion of the instruction that is next     *)
(* holds.  A step goes to an instruction that may follow, with nothing     *)
(* failed, with the failure of this one, or with one before (StepMoves);   *)
(* the discipline says that the assertion there follows in each case, and  *)
(* each of its parts is preserved for a reason of its own.                 *)
(* That the assertion keeps an error also bounds what a program does after *)
(* one: FailureStops.                                                      *)
(***************************************************************************)
EXTENDS UtilityDiscipline, TLAPS

USE DEF made

TheCode == Code(utility)

\* The values of the deciding options.
Decided == [k \in Keys(utility) |-> given[k]]

TheReach == Reach(TheCode, Decided)

\* The control is where the values of the options let it be.
InReach ==
  /\ Keys(utility) \subseteq DOMAIN given
  /\ Decided \in Valuations(utility)
  /\ at \in TheReach

ErrorsFollow ==
  /\ rc = "error" => at \in Failed(TheCode, TheReach)
  /\ failed => rc = "error" \/ utility \in CoverErrors
  /\ unremoved \union lost # {} => rc = "error" \/ utility \in IgnoreErrors

ContextFollows ==
  /\ context = "created" => at \in Opened(TheCode)
  /\ rc = "ok" /\ at \in Opened(TheCode) => context = "created"

CommandsFollow ==
  /\ commands > 0 => at \in Sent(TheCode, TheReach)
  /\ utility \notin OfSeveralCommands => commands < 2
  /\ rc = "ok" /\ at \in Done(TheCode, Decided) => commands > 0

HandlesFollow ==
  /\ rc = "error" => held \subseteq WillBeReleased(TheCode, TheReach, at)
  /\ rc = "ok" => /\ held \subseteq MayBeHeld(TheCode, TheReach, at)
                  /\ MustBeHeld(TheCode, Decided, TheReach, at) \subseteq held
  /\ context = "none" =>
       /\ held = {}
       /\ WillBeReleased(TheCode, TheReach, at) # {} => commands = 0

Following == InReach /\ ErrorsFollow /\ ContextFollows /\ CommandsFollow /\ HandlesFollow

Types ==
  /\ utility \in DOMAIN Programs \union {""}
  /\ DOMAIN selected \subseteq assigned
  /\ rc \in {"ok", "error"}
  /\ context \in {"none", "created"}
  /\ commands \in 0..2
  /\ failed \in BOOLEAN
  /\ exit \in {"", "usage", "success", "failure", "crash"}

\* Before it runs.
Waiting ==
  /\ at = 0 /\ rc = "ok" /\ context = "none" /\ commands = 0 /\ held = {} /\ failed = FALSE
  /\ unremoved = {} /\ lost = {} /\ exit = ""

\* After it has run: what the two properties say of it.
AllReleased ==
  /\ context = "none" /\ held = {}
  /\ exit = "crash" => utility \in {"signapp", "writeapp"} /\ commands = 0

IInv ==
  /\ Types
  /\ utility = "" => Waiting
  /\ Running => Following
  /\ exit # "" => utility # "" /\ AllReleased /\ SuccessMeansDone

-----------------------------------------------------------------------------
(* What the step of an instruction does                                    *)

\* The conditions of the discipline for the program that runs and the values it was given.
KeepsToIt ==
  /\ FlowDiscipline(TheCode, Decided, TheReach)
  /\ ErrorDiscipline(utility, TheCode, Decided, TheReach)
  /\ ContextDiscipline(TheCode, Decided, TheReach)
  /\ CommandDiscipline(utility, TheCode, Decided, TheReach)
  /\ HandleDiscipline(utility, TheCode, Decided, TheReach)

\* The program that runs keeps to the discipline, whatever its options.
LEMMA DisciplineHere ==
  ASSUME Disciplined, utility \in DOMAIN Programs, Decided \in Valuations(utility)
  PROVE  KeepsToIt /\ Len(TheCode) \in Nat
BY Zenon DEF Disciplined, KeepsDiscipline, KeepsToIt, TheCode, TheReach

\* What is known of the options decides a condition as the values of the deciding ones do,
\* or leaves open less.
LEMMA KnownDecided ==
  ASSUME NEW c, Keys(utility) \subseteq DOMAIN given
  PROVE  /\ MayHold(c, given) => MayHold(c, Decided)
         /\ MayFail(c, given) => MayFail(c, Decided)
<1>1. ASSUME NEW clause, Satisfied(clause, given) PROVE Satisfied(clause, Decided)
  BY <1>1 DEF Satisfied, Decided
<1>2. QED
  BY <1>1 DEF MayHold, MayFail

\* Going on keeps the values of the deciding options.
LEMMA GoToKeeps ==
  ASSUME NEW i, NEW ok \in BOOLEAN, Keys(utility) \subseteq DOMAIN given, utility' = utility,
         GoTo(i, ok)
  PROVE  /\ at' = i /\ rc' = (IF ok THEN "ok" ELSE "error")
         /\ Keys(utility') \subseteq DOMAIN given'
         /\ Decided' = Decided
<1>1. PICK looksAt : /\ Keys(utility) \subseteq looksAt
                     /\ given' = [v \in DOMAIN given \intersect looksAt |-> given[v]]
  BY DEF GoTo
<1>2. DOMAIN given' = DOMAIN given \intersect looksAt
  BY <1>1
<1>3. \A k \in Keys(utility) : k \in DOMAIN given \intersect looksAt /\ given'[k] = given[k]
  BY <1>1
<1>4. Decided' = Decided
  BY <1>3 DEF Decided
<1>5. QED
  BY <1>1, <1>2, <1>4 DEF GoTo

\* Where the step leads.
Direction ==
  \/ rc = "ok" /\ rc' = "ok" /\ at' \in Continues(TheCode, Decided, at)
  \/ rc = "ok" /\ rc' = "error" /\ at' \in Fails(TheCode, at)
  \/ rc = "error" /\ rc' = "error" /\ at' \in Passes(TheCode, Decided, at)
  \/ rc = "error" /\ Instruction.do = "anyway"

FailureEffect == failed' => failed \/ rc' = "error" \/ (rc = "ok" /\ Instruction.do = "writesEach")

ContextEffect ==
  /\ context' \in {"none", "created"}
  /\ Instruction.do = "create" /\ rc = "ok" => (context' = "created" <=> rc' = "ok")
  /\ Instruction.do = "delete" => context' = "none"
  /\ Instruction.do # "delete" /\ ~(Instruction.do = "create" /\ rc = "ok") => context' = context

CommandEffect ==
  /\ commands' \in {commands, OneMore}
  /\ Instruction.do \notin Commands \/ rc = "error" => commands' = commands
  /\ Instruction.do \in {"execute", "call", "transmit"} /\ rc = "ok" /\ rc' = "ok" =>
       commands' = OneMore

HandleEffect ==
  /\ rc = "ok" /\ rc' = "ok" => held' = Leaves(Instruction, held)
  /\ rc = "ok" /\ rc' = "error" =>
       held' \subseteq (held \ GivenUp(Instruction)) \union MayName(Instruction)
  /\ rc = "error" =>
       held' = IF Instruction.do = "finally" THEN held \ Removing(Instruction) ELSE held
  /\ Instruction.do \notin {"call", "keeps"} => held' \subseteq held

\* Without an error nothing is left, but by a removal whose result is thrown away, or one before it.
LeftEffect ==
  /\ rc = "ok" /\ rc' = "ok" =>
       \/ unremoved' \union lost' \subseteq unremoved \union lost
       \/ Instruction.do = "finally"
       \/ Instruction.do = "keeps" /\ Instruction.handle \in held
  /\ rc = "error" => lost' = lost

Effects == FailureEffect /\ ContextEffect /\ CommandEffect /\ HandleEffect /\ LeftEffect

Moves == Direction /\ Effects /\ Keys(utility') \subseteq DOMAIN given' /\ Decided' = Decided

\* An instruction that makes and removes nothing, or is passed by.
LEMMA NothingMade ==
  ASSUME Types, UNCHANGED made,
         \/ Instruction.do \notin {"call", "keeps", "finally"}
         \/ rc = "error" /\ Instruction.do # "finally"
  PROVE  HandleEffect /\ LeftEffect
<1>1. CASE Instruction.do \notin {"call", "keeps", "finally"}
  <2>1. Removing(Instruction) = {} /\ GivenUp(Instruction) = {}
    BY <1>1 DEF Removing, GivenUp
  <2>2. QED
    BY <1>1, <2>1 DEF HandleEffect, LeftEffect, Leaves
<1>2. CASE rc = "error" /\ Instruction.do # "finally"
  BY <1>2 DEF HandleEffect, LeftEffect
<1>3. QED
  BY <1>1, <1>2

\* Going on to the next instruction with the same rc, or past this one.
LEMMA GoOnDirection ==
  ASSUME Types, at \in Nat, Keys(utility) \subseteq DOMAIN given, utility' = utility,
         NEW ok \in BOOLEAN, GoOn(ok),
         Instruction.do \notin {"when", "refuse", "requires", "jump", "back"},
         ok => rc = "ok",
         rc = "error" => Unguarded(Instruction),
         ok \/ rc = "error" \/ Fallible(Instruction),
         ok \/ Length(Instruction) = 0
  PROVE  Direction /\ Keys(utility') \subseteq DOMAIN given' /\ Decided' = Decided
<1>1. /\ at' = at + 1 /\ rc' = (IF ok THEN "ok" ELSE "error")
      /\ Keys(utility') \subseteq DOMAIN given' /\ Decided' = Decided
  BY GoToKeeps DEF GoOn
<1>2. at + 1 \in Continues(TheCode, Decided, at)
  BY DEF Continues, Instruction, TheCode
<1>3. ASSUME rc = "ok", ok PROVE Direction
  BY <1>1, <1>2, <1>3 DEF Direction
<1>4. ASSUME rc = "ok", ~ok PROVE Direction
  <2>1. at + 1 = Past(TheCode, at) /\ Fallible(TheCode[at])
    BY <1>4 DEF Past, Instruction, TheCode
  <2>2. QED
    BY <1>1, <1>4, <2>1 DEF Direction, Fails
<1>5. ASSUME rc = "error", ~ok PROVE Direction
  BY <1>1, <1>2, <1>5 DEF Direction, Passes, TheCode, Instruction
<1>6. QED
  BY <1>1, <1>3, <1>4, <1>5 DEF Types

\* Of what was held a failed call keeps no more than it has not given up and has named.
LEMMA FailedCallKeeps ==
  ASSUME CommandFails
  PROVE  held' \subseteq (held \ GivenUp(Instruction)) \union MayName(Instruction)
<1>1. PICK executed \in BOOLEAN, now \in Names(Instruction) :
        LET new == IF executed THEN Making(Instruction) ELSE {}
            gone == IF executed THEN Removing(Instruction) ELSE {}
            named == IF now = "new" THEN new ELSE {}
            overwritten == IF now = "old" THEN {} ELSE Making(Instruction)
        IN  held' = (held \ (gone \union GivenUp(Instruction) \union overwritten)) \union named
  BY DEF CommandFails
<1>2. now = "new" => MayName(Instruction) = Making(Instruction)
  BY DEF MayName
<1>3. QED
  BY <1>1, <1>2

\* A step that leaves the program running is the choice of options, or goes along the text.
LEMMA StepMoves ==
  ASSUME Types, Running, InReach, at \in Nat, Next, exit' = ""
  PROVE  /\ utility' = utility
         /\ \/ /\ UNCHANGED <<at, rc, context, commands, made, failed>>
               /\ Keys(utility') \subseteq DOMAIN given' /\ Decided' = Decided
            \/ ~Ended /\ Moves
<1> DEFINE s == Instruction
<1> USE DEF InReach
<1>1. CASE Option
  <2>1. PICK g : given' = Completed(given, g)
    BY <1>1 DEF Option
  <2>2. /\ DOMAIN given \subseteq DOMAIN given'
        /\ \A k \in DOMAIN given : given'[k] = given[k]
    BY <2>1 DEF Completed
  <2>3. utility' = utility /\ UNCHANGED <<at, rc, context, commands, made, failed>>
    BY <1>1 DEF Option
  <2>4. Decided' = Decided
    BY <2>2, <2>3 DEF Decided
  <2>5. QED
    BY <2>2, <2>3, <2>4
<1>2. CASE PassBy
  <2>1. /\ rc = "error" /\ ~Unguarded(s) /\ GoTo(Past(TheCode, at), FALSE) /\ ~Ended
        /\ UNCHANGED <<utility, context, commands, made, failed>>
    BY <1>2 DEF PassBy, TheCode
  <2>2. s.do # "finally" /\ s.do # "delete"
    BY <2>1 DEF Unguarded
  <2>3. Direction /\ Keys(utility') \subseteq DOMAIN given' /\ Decided' = Decided
    BY <2>1, GoToKeeps DEF Direction, Passes, TheCode, Instruction
  <2>4. Effects
    BY <2>1, <2>2, NothingMade DEF Effects, FailureEffect, ContextEffect, CommandEffect, Types, Commands
  <2>5. QED
    BY <2>1, <2>3, <2>4 DEF Moves
<1>3. CASE Accepted
  <2>1. /\ s.do \in {"refuse", "requires"} /\ GoTo(at + 1, rc = "ok") /\ ~Ended
        /\ UNCHANGED <<utility, context, commands, made, failed>>
    BY <1>3 DEF Accepted, Begins, GoOn
  <2>2. Lets(s, Decided)
    BY <1>3, KnownDecided DEF Accepted, Begins, Lets, Decided
  <2>3. at + 1 \in Continues(TheCode, Decided, at) /\ Unguarded(s)
    BY <2>1, <2>2 DEF Continues, Instruction, TheCode, Unguarded
  <2>4. /\ at' = at + 1 /\ rc' = rc
        /\ Keys(utility') \subseteq DOMAIN given' /\ Decided' = Decided
    BY <2>1, GoToKeeps DEF Types
  <2>5. Direction
    BY <2>3, <2>4 DEF Direction, Passes, TheCode, Instruction, Types
  <2>6. Effects
    BY <2>1, <2>4, NothingMade DEF Effects, FailureEffect, ContextEffect, CommandEffect, Types, Commands
  <2>7. QED
    BY <2>1, <2>4, <2>5, <2>6 DEF Moves
<1>4. CASE Branch
  <2>1. /\ s.do \in {"when", "guarded", "repeat", "jump", "back"} /\ ~Ended
        /\ rc = "ok" \/ Unguarded(s)
        /\ UNCHANGED <<utility, context, commands, made, failed>>
    BY <1>4 DEF Branch, Begins
  <2>2. rc = "error" => s.do \in {"when", "jump", "back"}
    BY <2>1 DEF Unguarded
  <2>3. PICK i \in Continues(TheCode, Decided, at) : GoTo(i, rc = "ok")
    <3>1. CASE s.do = "when"
      BY <1>4, <3>1, KnownDecided DEF Branch, Begins, GoOn, Continues, TheCode, Instruction
    <3>2. CASE s.do = "guarded"
      BY <1>4, <2>2, <3>2 DEF Branch, Begins, GoOn, Continues, TheCode, Instruction, Types
    <3>3. CASE s.do = "repeat"
      BY <1>4, <2>2, <3>3 DEF Branch, Begins, GoOn, Continues, TheCode, Instruction, Types
    <3>4. CASE s.do = "jump"
      BY <1>4, <3>4 DEF Branch, Begins, Continues, TheCode, Instruction
    <3>5. CASE s.do = "back"
      BY <1>4, <3>5 DEF Branch, Begins, Continues, TheCode, Instruction
    <3>6. QED
      BY <2>1, <3>1, <3>2, <3>3, <3>4, <3>5
  <2>4. /\ at' = i /\ rc' = rc
        /\ Keys(utility') \subseteq DOMAIN given' /\ Decided' = Decided
    BY <2>1, <2>3, GoToKeeps DEF Types
  <2>5. Direction
    BY <2>1, <2>3, <2>4 DEF Direction, Passes, TheCode, Instruction, Types
  <2>6. Effects
    BY <2>1, <2>4, NothingMade DEF Effects, FailureEffect, ContextEffect, CommandEffect, Types, Commands
  <2>7. QED
    BY <2>1, <2>4, <2>5, <2>6 DEF Moves
<1>5. CASE Assign
  <2>1. /\ s.do \in {"sets", "selects"} /\ rc = "ok" /\ GoOn(TRUE) /\ ~Ended
        /\ UNCHANGED <<utility, context, commands, made, failed>>
    BY <1>5 DEF Assign, Begins, Unguarded
  <2>2. Direction /\ Keys(utility') \subseteq DOMAIN given' /\ Decided' = Decided
    BY <2>1, GoOnDirection
  <2>3. Effects
    BY <2>1, NothingMade DEF Effects, FailureEffect, ContextEffect, CommandEffect, Types, Commands
  <2>4. QED
    BY <2>1, <2>2, <2>3 DEF Moves
<1>6. CASE CallSucceeds
  <2>1. /\ s.do \in {"try", "anyway", "marshals", "writes", "writesEach"} /\ GoOn(TRUE) /\ ~Ended
        /\ rc = "ok" \/ s.do = "anyway"
        /\ UNCHANGED <<utility, context, commands, made, failed>>
    BY <1>6 DEF CallSucceeds, Begins, Unguarded
  <2>2. Direction /\ Keys(utility') \subseteq DOMAIN given' /\ Decided' = Decided
    <3>1. CASE rc = "ok"
      BY <2>1, <3>1, GoOnDirection
    <3>2. CASE rc # "ok"
      BY <2>1, <3>2, GoToKeeps DEF GoOn, Direction, Types
    <3>3. QED
      BY <3>1, <3>2
  <2>3. Effects
    BY <2>1, NothingMade DEF Effects, FailureEffect, ContextEffect, CommandEffect, Types, Commands
  <2>4. QED
    BY <2>1, <2>2, <2>3 DEF Moves
<1>7. CASE CallFails
  <2>1. /\ s.do \in {"try", "anyway", "marshals", "writes", "writesEach"} /\ GoOn(FALSE) /\ ~Ended
        /\ rc = "ok" \/ s.do = "anyway"
        /\ UNCHANGED <<utility, context, commands, made>>
    BY <1>7 DEF CallFails, Begins, Unguarded
  <2>2. Direction /\ Keys(utility') \subseteq DOMAIN given' /\ Decided' = Decided /\ rc' = "error"
    BY <2>1, GoOnDirection, GoToKeeps DEF GoOn, Unguarded, Fallible, Length
  <2>3. Effects
    BY <2>1, <2>2, NothingMade DEF Effects, FailureEffect, ContextEffect, CommandEffect, Types, Commands
  <2>4. QED
    BY <2>1, <2>2, <2>3 DEF Moves
<1>8. CASE FailureCovered
  <2>1. /\ s.do = "writesEach" /\ rc = "ok" /\ GoOn(TRUE) /\ ~Ended
        /\ UNCHANGED <<utility, context, commands, made>>
    BY <1>8 DEF FailureCovered, Begins, Unguarded
  <2>2. Direction /\ Keys(utility') \subseteq DOMAIN given' /\ Decided' = Decided
    BY <2>1, GoOnDirection
  <2>3. Effects
    BY <2>1, NothingMade DEF Effects, FailureEffect, ContextEffect, CommandEffect, Types, Commands
  <2>4. QED
    BY <2>1, <2>2, <2>3 DEF Moves
<1>9. CASE CreateContext
  <2>1. PICK ok \in BOOLEAN :
          /\ context' = (IF ok THEN "created" ELSE "none") /\ failed' = (failed \/ ~ok)
          /\ GoOn(ok)
    BY <1>9 DEF CreateContext
  <2>2. s.do = "create" /\ rc = "ok" /\ ~Ended /\ UNCHANGED <<utility, commands, made>>
    BY <1>9 DEF CreateContext, Begins, Unguarded
  <2>3. /\ Direction /\ Keys(utility') \subseteq DOMAIN given' /\ Decided' = Decided
        /\ rc' = (IF ok THEN "ok" ELSE "error")
    BY <2>1, <2>2, GoOnDirection, GoToKeeps DEF GoOn, Fallible, Length
  <2>4. Effects
    BY <2>1, <2>2, <2>3, NothingMade DEF Effects, FailureEffect, ContextEffect, CommandEffect, Types, Commands
  <2>5. QED
    BY <2>2, <2>3, <2>4 DEF Moves
<1>10. CASE ExecuteCommand
  <2>1. /\ s.do \in {"execute", "call", "transmit"} /\ rc = "ok" /\ ~Ended
        /\ GoOn(TRUE) /\ commands' = OneMore
        /\ held' = held \ Removing(s) /\ unremoved' = unremoved \ Removing(s)
        /\ UNCHANGED <<utility, context, lost, failed>>
    BY <1>10 DEF ExecuteCommand, Begins, Unguarded
  <2>2. /\ Direction /\ Keys(utility') \subseteq DOMAIN given' /\ Decided' = Decided
        /\ rc' = "ok"
    BY <2>1, GoOnDirection, GoToKeeps DEF GoOn
  <2>3. HandleEffect /\ LeftEffect
    BY <2>1, <2>2 DEF HandleEffect, LeftEffect, Leaves
  <2>4. Effects
    BY <2>1, <2>2, <2>3 DEF Effects, FailureEffect, ContextEffect, CommandEffect, Types, Commands
  <2>5. QED
    BY <2>1, <2>2, <2>4 DEF Moves
<1>11. CASE CommandFails
  <2>1. /\ s.do \in {"execute", "call", "transmit"} /\ rc = "ok" /\ ~Ended
        /\ GoOn(FALSE) /\ failed' = TRUE
        /\ UNCHANGED <<utility, context, commands>>
    BY <1>11 DEF CommandFails, Begins, Unguarded
  <2>2. /\ Direction /\ Keys(utility') \subseteq DOMAIN given' /\ Decided' = Decided
        /\ rc' = "error"
    BY <2>1, GoOnDirection, GoToKeeps DEF GoOn, Fallible, Length
  <2>3. held' \subseteq (held \ GivenUp(s)) \union MayName(s)
    BY <1>11, FailedCallKeeps
  <2>4. s.do # "call" => held' \subseteq held
    BY <2>3 DEF MayName, Making
  <2>5. HandleEffect /\ LeftEffect
    BY <2>1, <2>2, <2>3, <2>4 DEF HandleEffect, LeftEffect
  <2>6. Effects
    BY <2>1, <2>2, <2>5 DEF Effects, FailureEffect, ContextEffect, CommandEffect, Types, Commands
  <2>7. QED
    BY <2>1, <2>2, <2>6 DEF Moves
<1>12. CASE ProbeTpm
  <2>1. /\ s.do = "probe" /\ rc = "ok" /\ ~Ended /\ UNCHANGED <<utility, context, made>>
    BY <1>12 DEF ProbeTpm, Begins, Unguarded
  <2>2. CASE commands' = OneMore /\ GoOn(TRUE) /\ UNCHANGED failed
    <3>1. Direction /\ Keys(utility') \subseteq DOMAIN given' /\ Decided' = Decided
      BY <2>1, <2>2, GoToKeeps DEF GoOn, Direction, Continues, TheCode, Instruction
    <3>2. Effects
      BY <2>1, <2>2, NothingMade DEF Effects, FailureEffect, ContextEffect, CommandEffect, Types, Commands
    <3>3. QED
      BY <2>1, <3>1, <3>2 DEF Moves
  <2>3. CASE GoTo(at + 1 + s.otherwise, TRUE) /\ UNCHANGED <<commands, failed>>
    <3>1. Direction /\ Keys(utility') \subseteq DOMAIN given' /\ Decided' = Decided
      BY <2>1, <2>3, GoToKeeps DEF Direction, Continues, TheCode, Instruction
    <3>2. Effects
      BY <2>1, <2>3, NothingMade DEF Effects, FailureEffect, ContextEffect, CommandEffect, Types, Commands
    <3>3. QED
      BY <2>1, <3>1, <3>2 DEF Moves
  <2>4. CASE /\ s.forgiven = "perhaps" /\ failed' = TRUE /\ UNCHANGED commands
             /\ GoTo(Past(TheCode, at), FALSE)
    <3>1. /\ Direction /\ Keys(utility') \subseteq DOMAIN given' /\ Decided' = Decided
          /\ rc' = "error"
      BY <2>1, <2>4, GoToKeeps DEF Direction, Fails, Fallible, TheCode, Instruction
    <3>2. Effects
      BY <2>1, <2>4, <3>1, NothingMade DEF Effects, FailureEffect, ContextEffect, CommandEffect, Types, Commands
    <3>3. QED
      BY <2>1, <3>1, <3>2 DEF Moves
  <2>5. QED
    BY <1>12, <2>2, <2>3, <2>4 DEF ProbeTpm, TheCode
<1>13. CASE CleanUp
  <2>1. /\ s.do = "finally" /\ ~Ended /\ held' = held \ Removing(s) /\ lost' = lost
        /\ GoOn(rc = "ok") /\ UNCHANGED <<utility, context, commands, failed>>
    BY <1>13 DEF CleanUp, Begins, Stop
  <2>2. Direction /\ Keys(utility') \subseteq DOMAIN given' /\ Decided' = Decided
    BY <2>1, GoOnDirection DEF Unguarded, Length, Types
  <2>3. HandleEffect /\ LeftEffect
    BY <2>1 DEF HandleEffect, LeftEffect, Leaves, GivenUp, Types
  <2>4. Effects
    BY <2>1, <2>3 DEF Effects, FailureEffect, ContextEffect, CommandEffect, Types, Commands
  <2>5. QED
    BY <2>1, <2>2, <2>4 DEF Moves
<1>14. CASE KeepHandle
  <2>1. /\ s.do = "keeps" /\ rc = "ok" /\ GoOn(TRUE) /\ ~Ended
        /\ held' = held \union {s.handle} /\ unremoved' = unremoved \ {s.handle}
        /\ lost' = lost \union ((held \union unremoved) \intersect {s.handle})
        /\ UNCHANGED <<utility, context, commands, failed>>
    BY <1>14 DEF KeepHandle, Begins, Unguarded
  <2>2. /\ Direction /\ Keys(utility') \subseteq DOMAIN given' /\ Decided' = Decided
        /\ rc' = "ok"
    BY <2>1, GoOnDirection, GoToKeeps DEF GoOn
  <2>3. s.handle \notin held => unremoved' \union lost' \subseteq unremoved \union lost
    BY <2>1
  <2>4. HandleEffect /\ LeftEffect
    BY <2>1, <2>2, <2>3 DEF HandleEffect, LeftEffect, Leaves
  <2>5. Effects
    BY <2>1, <2>4 DEF Effects, FailureEffect, ContextEffect, CommandEffect, Types, Commands
  <2>6. QED
    BY <2>1, <2>2, <2>5 DEF Moves
<1>15. CASE DeleteContext
  <2>1. PICK ok \in BOOLEAN : failed' = (failed \/ ~ok) /\ GoOn(rc = "ok" /\ ok)
    BY <1>15 DEF DeleteContext
  <2>2. s.do = "delete" /\ context' = "none" /\ ~Ended /\ UNCHANGED <<utility, commands, made>>
    BY <1>15 DEF DeleteContext, Begins
  <2>3. /\ Direction /\ Keys(utility') \subseteq DOMAIN given' /\ Decided' = Decided
        /\ rc' = (IF rc = "ok" /\ ok THEN "ok" ELSE "error")
    BY <2>1, <2>2, GoOnDirection, GoToKeeps DEF GoOn, Unguarded, Fallible, Length, Types
  <2>4. Effects
    BY <2>1, <2>2, <2>3, NothingMade DEF Effects, FailureEffect, ContextEffect, CommandEffect, Types, Commands
  <2>5. QED
    BY <2>2, <2>3, <2>4 DEF Moves
<1>16. QED
  BY <1>1, <1>2, <1>3, <1>4, <1>5, <1>6, <1>7, <1>8, <1>9, <1>10, <1>11, <1>12, <1>13,
     <1>14, <1>15
  DEF Next, Start, Rejected, printUsage, Stop, Return, Statuses, Exited, Running

-----------------------------------------------------------------------------
(* Each part of the assertion follows where the step leads                 *)

Moving ==
  /\ Types /\ Running /\ KeepsToIt /\ InReach /\ ErrorsFollow
  /\ at \in TheReach \ {Len(TheCode) + 1}
  /\ utility' = utility /\ Moves

\* The control stays in the program, and only an error is passed on.
LEMMA MoveFollows ==
  ASSUME Moving
  PROVE  /\ TheCode' = TheCode /\ TheReach' = TheReach /\ Decided' = Decided
         /\ InReach'
         /\ at' \in Follows(TheCode, Decided, at)
         /\ rc' = "ok" => rc = "ok" /\ at' \in Continues(TheCode, Decided, at)
         /\ rc' \in {"ok", "error"}
         /\ rc' = "error" => /\ rc = "ok" => at' \in Fails(TheCode, at)
                             /\ rc = "error" => at' \in Passes(TheCode, Decided, at)
<1>1. /\ TheCode' = TheCode /\ Decided' = Decided /\ Instruction = TheCode[at]
      /\ Keys(utility') \subseteq DOMAIN given'
  BY DEF Moving, Moves, TheCode, Instruction
<1>2. TheReach' = TheReach
  BY <1>1 DEF TheReach
<1>3. ~(rc = "error" /\ Instruction.do = "anyway")
  BY <1>1 DEF Moving, ErrorsFollow, KeepsToIt, ErrorDiscipline
<1>4. /\ rc' = "ok" => rc = "ok" /\ at' \in Continues(TheCode, Decided, at)
      /\ rc' \in {"ok", "error"}
      /\ rc' = "error" => /\ rc = "ok" => at' \in Fails(TheCode, at)
                          /\ rc = "error" => at' \in Passes(TheCode, Decided, at)
      /\ at' \in Follows(TheCode, Decided, at)
  BY <1>3 DEF Moving, Moves, Direction, Follows
<1>5. at' \in TheReach
  BY <1>4 DEF Moving, KeepsToIt, FlowDiscipline
<1>6. InReach'
  BY <1>1, <1>2, <1>5 DEF InReach, Moving
<1>7. QED
  BY <1>1, <1>2, <1>4, <1>6

LEMMA ErrorsPreserved == Moving /\ HandlesFollow => ErrorsFollow'
<1> SUFFICES ASSUME Moving, HandlesFollow PROVE ErrorsFollow'
  OBVIOUS
<1>1. rc' = "error" => at' \in Failed(TheCode, TheReach)
  BY MoveFollows DEF Moving, ErrorsFollow, KeepsToIt, ErrorDiscipline, Types
<1>2. failed' => rc' = "error" \/ utility \in CoverErrors
  <2>1. Instruction.do = "writesEach" => utility \in CoverErrors
    BY DEF Moving, KeepsToIt, ErrorDiscipline, Instruction, TheCode
  <2>2. rc = "error" => rc' = "error"
    BY MoveFollows
  <2>3. QED
    BY <2>1, <2>2 DEF Moving, Moves, Effects, FailureEffect, ErrorsFollow
<1>3. unremoved' \union lost' # {} => rc' = "error" \/ utility \in IgnoreErrors
  <2>1. /\ Instruction.do = "finally" => utility \in IgnoreErrors
        /\ Instruction.do = "keeps" => Instruction.handle \notin MayBeHeld(TheCode, TheReach, at)
    BY DEF Moving, KeepsToIt, HandleDiscipline, Instruction, TheCode
  <2>2. rc = "ok" => held \subseteq MayBeHeld(TheCode, TheReach, at)
    BY DEF HandlesFollow
  <2>3. rc' = "ok" => rc = "ok"
    BY MoveFollows
  <2>4. rc \in {"ok", "error"} /\ rc' \in {"ok", "error"}
    BY MoveFollows DEF Moving, Types
  <2>5. QED
    BY <2>1, <2>2, <2>3, <2>4 DEF Moving, Moves, Effects, LeftEffect, ErrorsFollow
<1>4. QED
  BY <1>1, <1>2, <1>3, MoveFollows DEF ErrorsFollow, Moving

LEMMA ContextPreserved == Moving /\ ContextFollows => ContextFollows'
<1> SUFFICES ASSUME Moving, ContextFollows PROVE ContextFollows'
  OBVIOUS
<1> DEFINE do == Instruction.do
<1>1. at' \in Opened(TheCode) <=> do = "create" \/ (at \in Opened(TheCode) /\ do # "delete")
  BY MoveFollows DEF Moving, KeepsToIt, ContextDiscipline, Instruction, TheCode
<1>2. context' = "created" => at' \in Opened(TheCode)
  BY <1>1 DEF Moving, Moves, Effects, ContextEffect, ContextFollows
<1>3. rc' = "ok" /\ at' \in Opened(TheCode) => context' = "created"
  BY <1>1, MoveFollows DEF Moving, Moves, Effects, ContextEffect, ContextFollows
<1>4. QED
  BY <1>2, <1>3, MoveFollows DEF ContextFollows

LEMMA CommandsPreserved == Moving /\ CommandsFollow => CommandsFollow'
<1> SUFFICES ASSUME Moving, CommandsFollow PROVE CommandsFollow'
  OBVIOUS
<1> DEFINE do == Instruction.do
<1>1. /\ do \in Commands => at' \in Sent(TheCode, TheReach)
      /\ do \in Commands /\ utility \notin OfSeveralCommands => at \notin Sent(TheCode, TheReach)
      /\ at \in Sent(TheCode, TheReach) => at' \in Sent(TheCode, TheReach)
      /\ at' \in Continues(TheCode, Decided, at) /\ at' \in Done(TheCode, Decided) =>
           at \in Done(TheCode, Decided) \/ do \in {"execute", "call", "transmit"}
  BY MoveFollows DEF Moving, KeepsToIt, CommandDiscipline, Instruction, TheCode
<1>2. /\ commands' \in {commands, OneMore} /\ commands \in 0..2
      /\ do \notin Commands => commands' = commands
      /\ do \in {"execute", "call", "transmit"} /\ rc' = "ok" => commands' = OneMore
  BY MoveFollows DEF Moving, Moves, Effects, CommandEffect, Types
<1>3. commands' > 0 => at' \in Sent(TheCode, TheReach)
  BY <1>1, <1>2 DEF CommandsFollow
<1>4. utility \notin OfSeveralCommands => commands' < 2
  BY <1>1, <1>2 DEF CommandsFollow, OneMore
<1>5. rc' = "ok" /\ at' \in Done(TheCode, Decided) => commands' > 0
  BY <1>1, <1>2, MoveFollows DEF CommandsFollow, OneMore
<1>6. QED
  BY <1>3, <1>4, <1>5, MoveFollows DEF CommandsFollow, Moving

LEMMA HandlesPreserved == Moving /\ ContextFollows /\ HandlesFollow => HandlesFollow'
<1> SUFFICES ASSUME Moving, ContextFollows, HandlesFollow PROVE HandlesFollow'
  OBVIOUS
<1> DEFINE s == Instruction
           May(i) == MayBeHeld(TheCode, TheReach, i)
           Must(i) == MustBeHeld(TheCode, Decided, TheReach, i)
           Will(i) == WillBeReleased(TheCode, TheReach, i)
<1>1. /\ \A j \in Continues(TheCode, Decided, at) :
           Leaves(s, May(at)) \subseteq May(j) /\ Must(j) \subseteq Leaves(s, Must(at))
      /\ (IF s.do = "finally" THEN Will(at) \ Removing(s) ELSE Will(at)) \subseteq Will(at')
      /\ Will(at) = {} => Will(at') = {}
      /\ May(at) \subseteq Will(at) \union GivenUp(s)
      /\ MayName(s) \subseteq Will(Past(TheCode, at))
      /\ s.do = "delete" => Will(at) = {}
  BY MoveFollows DEF Moving, KeepsToIt, HandleDiscipline, Instruction, TheCode
<1>2. /\ rc = "ok" /\ rc' = "ok" => held' = Leaves(s, held)
      /\ rc = "ok" /\ rc' = "error" => held' \subseteq (held \ GivenUp(s)) \union MayName(s)
      /\ rc = "error" => held' = IF s.do = "finally" THEN held \ Removing(s) ELSE held
      /\ s.do \notin {"call", "keeps"} => held' \subseteq held
      /\ rc \in {"ok", "error"} /\ rc' \in {"ok", "error"}
  BY MoveFollows DEF Moving, Moves, Effects, HandleEffect, Types
<1>3. ASSUME rc' = "error" PROVE held' \subseteq Will(at')
  <2>1. CASE rc = "error"
    BY <1>1, <1>2, <2>1 DEF HandlesFollow
  <2>2. CASE rc = "ok"
    <3>1. at' = Past(TheCode, at) /\ s.do # "finally"
      BY <1>3, <2>2, MoveFollows DEF Fails, Fallible, Instruction, TheCode
    <3>2. held \subseteq Will(at) \union GivenUp(s)
      BY <1>1, <2>2 DEF HandlesFollow
    <3>3. QED
      BY <1>1, <1>2, <1>3, <2>2, <3>1, <3>2
  <2>3. QED
    BY <1>2, <2>1, <2>2
<1>4. ASSUME rc' = "ok" PROVE held' \subseteq May(at') /\ Must(at') \subseteq held'
  <2>1. rc = "ok" /\ at' \in Continues(TheCode, Decided, at)
    BY <1>4, MoveFollows
  <2>2. held \subseteq May(at) /\ Must(at) \subseteq held
    BY <2>1 DEF HandlesFollow
  <2>3. Leaves(s, held) \subseteq Leaves(s, May(at)) /\ Leaves(s, Must(at)) \subseteq Leaves(s, held)
    BY <2>2 DEF Leaves
  <2>4. QED
    BY <1>1, <1>2, <1>4, <2>1, <2>3
<1>5. /\ s.do \in Commands \union {"keeps"} => at \in Opened(TheCode)
      /\ s.do = "create" => at \notin Opened(TheCode)
  BY DEF Moving, KeepsToIt, ContextDiscipline, Instruction, TheCode
<1>6. ASSUME context' = "none"
      PROVE  held' = {} /\ (Will(at') # {} => commands' = 0)
  <2>1. CASE s.do = "delete"
    <3>1. held = {}
      BY <1>1, <1>2, <2>1 DEF HandlesFollow, GivenUp
    <3>2. QED
      BY <1>1, <1>2, <2>1, <3>1
  <2>2. CASE s.do # "delete"
    <3>1. context = "none"
      BY <1>5, <1>6, <2>2 DEF Moving, Moves, Effects, ContextEffect, ContextFollows, Types
    <3>2. ~(rc = "ok" /\ s.do \in Commands \union {"keeps"})
      BY <1>5, <3>1 DEF ContextFollows
    <3>3. held' = {}
      BY <1>2, <3>1, <3>2 DEF HandlesFollow, Commands
    <3>4. commands' = commands
      BY <1>2, <3>2 DEF Moving, Moves, Effects, CommandEffect
    <3>5. QED
      BY <1>1, <3>1, <3>3, <3>4 DEF HandlesFollow
  <2>3. QED
    BY <2>1, <2>2
<1>7. QED
  BY <1>3, <1>4, <1>6, MoveFollows DEF HandlesFollow

-----------------------------------------------------------------------------
(* The invariant                                                           *)

LEMMA OneMoreIsCounted == commands \in 0..2 => OneMore \in 0..2
BY DEF OneMore

LEMMA TypesPreserved == Types /\ Next => Types'
<1> SUFFICES ASSUME Types, Next PROVE Types'
  OBVIOUS
<1> USE DEF Types
<1>1. ASSUME NEW i, NEW ok \in BOOLEAN, GoTo(i, ok) PROVE rc' \in {"ok", "error"}
  BY <1>1 DEF GoTo
<1>2. CASE Start
  BY <1>2 DEF Start
<1>3. CASE Option \/ Return \/ Exited
  BY <1>3 DEF Option, Return, Statuses, Exited, vars
<1>4. CASE PassBy \/ Accepted \/ Branch
  BY <1>1, <1>4 DEF PassBy, Accepted, Branch, GoOn
<1>5. CASE Rejected
  BY <1>5 DEF Rejected, printUsage, Stop
<1>6. CASE Assign
  <2>1. DOMAIN selected' \subseteq assigned'
    BY <1>6 DEF Assign, Completed
  <2>2. QED
    BY <1>1, <1>6, <2>1 DEF Assign, GoOn
<1>7. CASE CallSucceeds \/ CallFails \/ FailureCovered
  BY <1>1, <1>7 DEF CallSucceeds, CallFails, FailureCovered, GoOn
<1>8. CASE CreateContext \/ KeepHandle \/ DeleteContext
  BY <1>1, <1>8 DEF CreateContext, KeepHandle, DeleteContext, GoOn
<1>9. CASE ExecuteCommand \/ CommandFails \/ ProbeTpm
  <2>1. commands \in 0..2
    BY Zenon
  <2>2. OneMore \in 0..2
    BY <2>1, OneMoreIsCounted
  <2>3. QED
    BY <1>1, <1>9, <2>2 DEF ExecuteCommand, CommandFails, ProbeTpm, GoOn
<1>10. CASE CleanUp
  BY <1>1, <1>10 DEF CleanUp, Stop, GoOn
<1>11. QED
  BY <1>2, <1>3, <1>4, <1>5, <1>6, <1>7, <1>8, <1>9, <1>10 DEF Next

\* The assertion of the first instruction holds when a program starts.
LEMMA StartFollows ==
  ASSUME Disciplined, Types, Waiting, Start, utility' \in DOMAIN Programs
  PROVE  Following'
<1>1. /\ at' = 1 /\ rc' = "ok" /\ context' = "none" /\ commands' = 0 /\ held' = {}
      /\ unremoved' = {} /\ lost' = {} /\ failed' = FALSE /\ given' \in Valuations(utility')
  BY DEF Start, Waiting
<1>2. Keys(utility') = DOMAIN given' /\ Decided' = given'
  BY <1>1 DEF Valuations, Decided
<1>3. KeepsToIt'
  BY <1>1, <1>2, Zenon DEF Disciplined, KeepsDiscipline, KeepsToIt, TheCode, TheReach
<1>4. InReach'
  BY <1>1, <1>2, <1>3 DEF InReach, KeepsToIt, FlowDiscipline
<1>5. 1 \notin Opened(TheCode') /\ 1 \notin Done(TheCode', Decided')
      /\ MustBeHeld(TheCode', Decided', TheReach', 1) = {}
  BY <1>3 DEF KeepsToIt, ContextDiscipline, CommandDiscipline, HandleDiscipline
<1>6. QED
  BY <1>1, <1>4, <1>5
  DEF Following, ErrorsFollow, ContextFollows, CommandsFollow, HandlesFollow

\* The assertion of the instruction where the program stops says what it leaves.
LEMMA StopReleases ==
  ASSUME Disciplined, Types, Running, Following, Len(TheCode) \in Nat, KeepsToIt, Next, exit' # ""
  PROVE  utility' = utility /\ AllReleased' /\ SuccessMeansDone'
<1> DEFINE s == Instruction
<1>1. /\ at \in TheReach /\ at \in 1..Len(TheCode) + 1 /\ (~Ended => at # Len(TheCode) + 1)
      /\ s = TheCode[at]
  BY DEF Following, InReach, TheReach, Reach, Points, Ended, TheCode, Instruction
<1>2. CASE Rejected
  <2>1. /\ s.do \in {"refuse", "requires"} /\ ~Ended /\ exit' = "usage"
        /\ UNCHANGED <<utility, rc, context, commands, made, failed>>
    BY <1>2 DEF Rejected, Begins, printUsage, Stop
  <2>2. context = "none"
    BY <1>1, <2>1 DEF Types, Following, ContextFollows, KeepsToIt, ContextDiscipline
  <2>3. held = {}
    BY <2>2 DEF Following, HandlesFollow
  <2>4. QED
    BY <2>1, <2>2, <2>3 DEF AllReleased, SuccessMeansDone
<1>3. CASE CleanUp
  <2>1. /\ s.do = "finally" /\ ~Ended /\ context = "none" /\ exit' = "crash"
        /\ UNCHANGED <<utility, context, commands, made>>
    BY <1>3 DEF CleanUp, Begins, Stop, Running
  <2>2. utility \in {"signapp", "writeapp"}
    BY <1>1, <2>1 DEF KeepsToIt, HandleDiscipline, IgnoreErrors
  <2>3. WillBeReleased(TheCode, TheReach, at) # {}
    <3>1. Removing(s) # {}
      BY <1>1, <2>1 DEF KeepsToIt, HandleDiscipline
    <3>2. at \in {j \in TheReach \intersect at..Len(TheCode) : TheCode[j].do = "finally"}
      BY <1>1, <2>1
    <3>3. QED
      BY <1>1, <3>1, <3>2 DEF WillBeReleased
  <2>4. held = {} /\ commands = 0
    BY <2>1, <2>3 DEF Following, HandlesFollow
  <2>5. QED
    BY <2>1, <2>2, <2>4 DEF AllReleased, SuccessMeansDone
<1>4. CASE Return
  <2>1. /\ at = Len(TheCode) + 1 /\ exit' \in Statuses
        /\ UNCHANGED <<utility, rc, context, commands, made, failed>>
    BY <1>4 DEF Return, Ended, TheCode
  <2>2. context = "none"
    BY <2>1 DEF Types, Following, ContextFollows, KeepsToIt, ContextDiscipline
  <2>3. held = {}
    BY <2>2 DEF Following, HandlesFollow
  <2>4. exit' # "crash" /\ (exit' = "success" /\ utility # "createek" => rc = "ok")
    BY <2>1 DEF Statuses
  <2>5. rc = "ok" /\ utility \notin MayDoNothing \union {"createek"} => commands > 0
    BY <2>1 DEF Following, CommandsFollow, KeepsToIt, CommandDiscipline
  <2>6. /\ utility \notin OfSeveralCommands => commands < 2
        /\ failed => rc = "error" \/ utility \in CoverErrors
        /\ unremoved \union lost # {} => rc = "error" \/ utility \in IgnoreErrors
    BY DEF Following, CommandsFollow, ErrorsFollow
  <2>7. SuccessMeansDone'
    BY <2>1, <2>4, <2>5, <2>6 DEF SuccessMeansDone
  <2>8. QED
    BY <2>1, <2>2, <2>3, <2>4, <2>7 DEF AllReleased
<1>5. QED
  BY <1>2, <1>3, <1>4
  DEF Next, Running, Start, Option, PassBy, Accepted, Branch, Assign, CallSucceeds, CallFails,
      FailureCovered, CreateContext, ExecuteCommand, CommandFails, ProbeTpm, KeepHandle, DeleteContext, Exited

LEMMA IInvInit == Init => IInv
<1>1. 0 \in 0..2
  OBVIOUS
<1>2. QED
  BY <1>1, Zenon DEF Init, NoField, IInv, Types, Waiting, Running

LEMMA IInvNext == Disciplined /\ IInv /\ [Next]_vars => IInv'
<1> SUFFICES ASSUME Disciplined, IInv, [Next]_vars PROVE IInv'
  OBVIOUS
<1>1. CASE UNCHANGED vars
  BY <1>1
  DEF vars, IInv, Types, Waiting, Running, Following, InReach, ErrorsFollow, ContextFollows,
      CommandsFollow, HandlesFollow, AllReleased, SuccessMeansDone, TheReach, Decided, TheCode
<1>2. CASE Next
  <2>1. Types /\ Types'
    BY <1>2, TypesPreserved DEF IInv
  <2>2. CASE utility = ""
    <3>1. Waiting /\ Start
      BY <1>2, <2>2
      DEF IInv, Waiting, Next, Begins, Running, Option, PassBy, Rejected, Accepted, Branch, Assign,
          CallSucceeds, CallFails, FailureCovered, CreateContext, ExecuteCommand, CommandFails, ProbeTpm,
          CleanUp, KeepHandle, DeleteContext, Return, Exited
    <3>2. utility' \in DOMAIN Programs /\ utility' # "" /\ exit' = ""
      BY <3>1 DEF Start, Waiting, Disciplined, KeepsDiscipline
    <3>3. Following'
      BY <2>1, <3>1, <3>2, StartFollows
    <3>4. QED
      BY <2>1, <3>2, <3>3 DEF IInv
  <2>3. CASE exit # ""
    <3>1. utility # "" /\ Exited
      BY <1>2, <2>3
      DEF IInv, Next, Start, Begins, Running, Option, PassBy, Rejected, Accepted, Branch, Assign,
          CallSucceeds, CallFails, FailureCovered, CreateContext, ExecuteCommand, CommandFails, ProbeTpm,
          CleanUp, KeepHandle, DeleteContext, Return
    <3>2. QED
      BY <2>1, <2>3, <3>1
      DEF Exited, vars, IInv, Running, AllReleased, SuccessMeansDone
  <2>4. CASE Running
    <3>1. utility \in DOMAIN Programs /\ Following
      BY <2>1, <2>4 DEF IInv, Types, Running
    <3>2. KeepsToIt /\ Len(TheCode) \in Nat
      BY <3>1, DisciplineHere DEF Following, InReach
    <3>3. at \in Nat /\ at \in TheReach
      <4>1. at \in 1..Len(TheCode) + 1 /\ at \in TheReach
        BY <3>1 DEF Following, InReach, TheReach, Reach, Points
      <4>2. QED
        BY <3>2, <4>1
    <3>4. CASE exit' # ""
      <4>1. utility' = utility /\ AllReleased' /\ SuccessMeansDone'
        BY <1>2, <2>1, <2>4, <3>1, <3>2, <3>4, StopReleases
      <4>2. QED
        BY <2>1, <2>4, <3>4, <4>1 DEF IInv, Running
    <3>5. CASE exit' = ""
      <4>1. /\ utility' = utility
            /\ \/ /\ UNCHANGED <<at, rc, context, commands, made, failed>>
                  /\ Keys(utility') \subseteq DOMAIN given' /\ Decided' = Decided
               \/ ~Ended /\ Moves
        BY <1>2, <2>1, <2>4, <3>1, <3>2, <3>3, <3>5, StepMoves DEF Following
      <4>2. ASSUME UNCHANGED <<at, rc, context, commands, made, failed>>,
                   Keys(utility') \subseteq DOMAIN given', Decided' = Decided
            PROVE  Following'
        <5>1. TheCode' = TheCode
          BY <4>1 DEF TheCode
        <5>2. TheReach' = TheReach
          BY <4>2, <5>1 DEF TheReach
        <5>3. QED
          BY <3>1, <4>1, <4>2, <5>1, <5>2
          DEF Following, InReach, ErrorsFollow, ContextFollows, CommandsFollow, HandlesFollow
      <4>3. ASSUME ~Ended, Moves PROVE Following'
        <5>1. Moving
          BY <2>1, <2>4, <3>1, <3>2, <3>3, <4>1, <4>3 DEF Moving, Following, Ended, TheCode
        <5>2. QED
          BY <3>1, <5>1, MoveFollows, ErrorsPreserved, ContextPreserved, CommandsPreserved,
             HandlesPreserved
          DEF Following
      <4>4. utility' # "" /\ Following'
        BY <2>4, <4>1, <4>2, <4>3 DEF Running
      <4>5. QED
        BY <2>1, <3>5, <4>4 DEF IInv
    <3>6. QED
      BY <3>4, <3>5
  <2>5. QED
    BY <2>2, <2>3, <2>4 DEF Running
<1>3. QED
  BY <1>1, <1>2

\* In every state of a utility that keeps to the discipline the assertion of its next
\* instruction holds.
LEMMA Invariant == ASSUME Disciplined PROVE Spec => []IInv
<1>1. IInv /\ [Next]_vars => IInv'
  BY IInvNext
<1>2. QED
  BY <1>1, IInvInit, PTL DEF Spec

-----------------------------------------------------------------------------
(* The theorems                                                            *)

LEMMA IInvTypeOK == ASSUME Disciplined, IInv PROVE TypeOK
<1>1. Running => at \in 1..Len(Code(utility)) + 1
  BY DEF IInv, Following, InReach, TheReach, Reach, Points, TheCode
<1>2. utility = "" => at = 0 /\ exit = ""
  BY DEF IInv, Waiting
<1>3. QED
  BY <1>1, <1>2, Zenon DEF IInv, Types, TypeOK

\* Where an instruction begins, and what the discipline says of it there.
LEMMA BeginsInReach ==
  ASSUME Disciplined, IInv, NEW do, Begins(do)
  PROVE  /\ Following /\ KeepsToIt /\ Types
         /\ at \in TheReach \ {Len(TheCode) + 1}
         /\ TheCode[at] = Instruction /\ Instruction.do = do
         /\ do \in Commands \union {"create", "keeps"} => rc = "ok"
<1>1. utility \in DOMAIN Programs /\ Following /\ Types /\ Instruction.do = do /\ ~Ended
  BY DEF IInv, Types, Begins, Running
<1>2. KeepsToIt
  BY <1>1, DisciplineHere DEF Following, InReach
<1>3. do \in Commands \union {"create", "keeps"} => rc = "ok"
  BY <1>1 DEF Begins, Unguarded, Commands
<1>4. QED
  BY <1>1, <1>2, <1>3 DEF Following, InReach, Ended, TheCode, Instruction

LEMMA IInvHandlesFit == ASSUME Disciplined, IInv PROVE HandlesFit
<1> DEFINE s == Instruction
<1> SUFFICES ASSUME NEW do \in {"execute", "call", "probe", "finally"}, Begins(do)
             PROVE  /\ \A i \in DOMAIN s.sessions :
                         /\ s.sessions[i] # "TPM_RH_NULL" <=>
                              getCommandAuthRole(s.command, i - 1) # "AUTH_NONE"
                         /\ s.sessions[i] \in {"TPM_RH_NULL", "TPM_RS_PW"} \union held
                    /\ Called(s) => s.uses \subseteq held
  BY DEF HandlesFit
<1>1. /\ Following /\ KeepsToIt /\ at \in TheReach \ {Len(TheCode) + 1}
      /\ TheCode[at] = s /\ s.do = do
      /\ do \in Commands => rc = "ok"
  BY BeginsInReach
<1> DEFINE must == MustBeHeld(TheCode, Decided, TheReach, at)
<1>2. do # "finally" => must \subseteq held
  BY <1>1 DEF Following, HandlesFollow, Commands
<1>3. /\ s.do = "finally" => s.uses = {}
      /\ s.do \in {"call", "probe"} => s.uses \subseteq must
      /\ \A n \in DOMAIN s.sessions :
           /\ s.sessions[n] # "TPM_RH_NULL" <=> getCommandAuthRole(s.command, n - 1) # "AUTH_NONE"
           /\ s.sessions[n] \in
                {"TPM_RH_NULL", "TPM_RS_PW"} \union IF s.do = "finally" THEN {} ELSE must
  BY <1>1 DEF KeepsToIt, HandleDiscipline
<1>4. QED
  BY <1>1, <1>2, <1>3 DEF Called

LEMMA IInvEverythingReleased == ASSUME Disciplined, IInv PROVE EverythingReleased
<1>1. ASSUME NEW do \in Commands, Begins(do) PROVE context = "created"
  BY <1>1, BeginsInReach DEF KeepsToIt, ContextDiscipline, Following, ContextFollows
<1>2. ASSUME Begins("create") PROVE context = "none"
  BY <1>2, BeginsInReach DEF KeepsToIt, ContextDiscipline, Following, ContextFollows, Types
<1>3. ASSUME Begins("keeps") PROVE Instruction.handle \notin held
  BY <1>3, BeginsInReach DEF KeepsToIt, HandleDiscipline, Following, HandlesFollow
<1>4. exit # "" => AllReleased
  BY DEF IInv
<1>5. QED
  BY <1>1, <1>2, <1>3, <1>4 DEF EverythingReleased, AllReleased, Commands

LEMMA IInvSuccessMeansDone == ASSUME IInv PROVE SuccessMeansDone
BY DEF IInv, SuccessMeansDone

\* The control of a program that keeps to the discipline never leaves its text, and rc, the
\* context, the count of commands and the way it ended have only the values they may have.
THEOREM TypeCorrect == ASSUME Disciplined PROVE Spec => []TypeOK
<1>1. IInv => TypeOK
  BY IInvTypeOK
<1>2. QED
  BY <1>1, Invariant, PTL

\* Each command gets a session for every handle that wants an authorization and none besides,
\* and uses only sessions and objects that the program has made and not yet removed.
THEOREM HandlesFitCorrect == ASSUME Disciplined PROVE Spec => []HandlesFit
<1>1. IInv => HandlesFit
  BY IInvHandlesFit
<1>2. QED
  BY <1>1, Invariant, PTL

\* Whatever fails, commands are sent only with a context, and at the end the context has been
\* deleted and everything that the program made in the TPM and has a handle of it has tried to
\* remove.
THEOREM ReleasedCorrect == ASSUME Disciplined PROVE Spec => []EverythingReleased
<1>1. IInv => EverythingReleased
  BY IInvEverythingReleased
<1>2. QED
  BY <1>1, Invariant, PTL

\* A program that says it succeeded has done what it is for, none of the calls whose results it
\* looks at has failed, and nothing it was to remove is left in the TPM; only signapp and writeapp,
\* which throw away the results of their removals, may leave something and say success.
THEOREM SuccessCorrect == ASSUME Disciplined PROVE Spec => []SuccessMeansDone
<1>1. IInv => SuccessMeansDone
  BY IInvSuccessMeansDone
<1>2. QED
  BY <1>1, Invariant, PTL

-----------------------------------------------------------------------------
(* After a failure                                                         *)

\* What a program still does after a call has failed whose result it looks at.
FailureStops ==
  failed /\ utility \notin CoverErrors =>
    /\ commands' = commands /\ held' \subseteq held /\ context' \in {context, "none"}
    /\ lost' = lost

\* The step with which a program stops sends nothing.
LEMMA StopSendsNothing ==
  ASSUME Running, Next, exit' # ""
  PROVE  commands' = commands /\ lost' = lost
<1>1. Rejected \/ CleanUp \/ Return
  BY DEF Next, Running, Start, Option, PassBy, Accepted, Branch, Assign, CallSucceeds, CallFails,
         FailureCovered, CreateContext, ExecuteCommand, CommandFails, ProbeTpm, KeepHandle,
         DeleteContext, Exited
<1>2. QED
  BY <1>1 DEF Rejected, printUsage, CleanUp, Return

LEMMA IInvFailureStops == ASSUME Disciplined, IInv, Next PROVE FailureStops
<1> SUFFICES ASSUME failed, utility \notin CoverErrors
             PROVE  /\ commands' = commands /\ held' \subseteq held
                    /\ context' \in {context, "none"} /\ lost' = lost
  BY DEF FailureStops
<1>1. Types
  BY DEF IInv
<1>2. utility # ""
  BY DEF IInv, Waiting
<1>3. CASE exit # ""
  <2>1. Exited
    BY <1>2, <1>3
    DEF Next, Start, Begins, Running, Option, PassBy, Rejected, Accepted, Branch, Assign,
        CallSucceeds, CallFails, FailureCovered, CreateContext, ExecuteCommand, CommandFails, ProbeTpm,
        CleanUp, KeepHandle, DeleteContext, Return
  <2>2. QED
    BY <2>1 DEF Exited, vars
<1>4. CASE Running
  <2>1. utility \in DOMAIN Programs /\ Following
    BY <1>1, <1>4 DEF IInv, Types, Running
  <2>2. KeepsToIt /\ Len(TheCode) \in Nat
    BY <2>1, DisciplineHere DEF Following, InReach
  <2>3. rc = "error"
    BY <2>1 DEF Following, ErrorsFollow
  <2>4. CASE exit' # ""
    <3>1. AllReleased'
      BY <1>1, <1>4, <2>1, <2>2, <2>4, StopReleases
    <3>2. QED
      BY <1>4, <2>4, <3>1, StopSendsNothing DEF AllReleased
  <2>5. CASE exit' = ""
    <3>1. at \in Nat
      <4>1. at \in 1..Len(TheCode) + 1
        BY <2>1 DEF Following, InReach, TheReach, Reach, Points
      <4>2. QED
        BY <2>2, <4>1
    <3>2. UNCHANGED <<commands, made, context>> \/ Effects
      BY <1>1, <1>4, <2>1, <2>5, <3>1, StepMoves DEF Following, Moves
    <3>3. ASSUME Effects
          PROVE  /\ commands' = commands /\ held' \subseteq held
                 /\ context' \in {context, "none"} /\ lost' = lost
      BY <2>3, <3>3 DEF Effects, CommandEffect, HandleEffect, LeftEffect, ContextEffect
    <3>4. QED
      BY <3>2, <3>3
  <2>6. QED
    BY <2>4, <2>5
<1>5. QED
  BY <1>2, <1>3, <1>4 DEF Running

\* After the first call that fails and whose result it looks at, be it a file, TSS_Create,
\* TSS_Execute or TSS_Delete, a program sends the TPM no command of its own any more, makes nothing
\* there, loses no handle of what it has made, and opens no context: what is left to it is to flush
\* and to delete.  A probe whose failure is forgiven is no such call, nor is a removal of signapp or
\* writeapp, which throw its result away: writeapp goes on to start a session and to write when the
\* flush of the salt session has failed.  The exceptions are the two programs that write the
\* digests of several banks without a look at rc.
THEOREM FailureStopsProgram == ASSUME Disciplined PROVE Spec => [][FailureStops]_vars
<1>1. IInv /\ [Next]_vars => [FailureStops]_vars
  BY IInvFailureStops
<1>2. QED
  BY <1>1, Invariant, PTL DEF Spec

================================================================================
