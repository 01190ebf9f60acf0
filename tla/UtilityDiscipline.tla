--------------------------- MODULE UtilityDiscipline ---------------------------
(***************************************************************************)
(* What the utilities keep to, instruction by instruction, so that they    *)
(* try to remove what they make and hide no error, but for the results     *)
(* that two of them throw away.                                            *)
(*                                                                         *)
(* For the values x of the deciding options, each instruction of a program *)
(* has an assertion that is read off the text: whether it may be reached   *)
(* at all, with an error, with a context, with a command sent, and with    *)
(* which handles.  The program keeps to the discipline when each           *)
(* instruction leads from its assertion to those of the instructions that  *)
(* may follow.  That is a condition on the text of the program alone, with *)
(* no state in it: that no run of a program that keeps to it goes wrong,   *)
(* whatever the other options and whatever fails, is proved in             *)
(* TssUtilities_proofs.                                                    *)
(***************************************************************************)
EXTENDS TssUtilities

Points(code) == 1..Len(code) + 1

-----------------------------------------------------------------------------
(* The flow of control                                                     *)

\* What can fail with an error that the program looks at.  The failure of a "finally" it ignores.
Fallible(s) ==
  \/ s.do \in {"try", "anyway", "marshals", "writes", "create", "execute", "call", "transmit",
               "delete", "writesEach"}
  \/ s.do = "probe" /\ s.forgiven = "perhaps"

\* A check of the options that lets the program go on.
Lets(s, x) ==
  /\ s.do = "refuse" => MayFail(s.if, x)
  /\ s.do = "requires" => \A v \in s.variables \intersect DOMAIN x : x[v] # "none"

\* Where the program goes on when nothing fails.
Continues(code, x, i) ==
  LET s == code[i]
  IN  CASE s.do \in {"refuse", "requires"} -> {j \in {i + 1} : Lets(s, x)}
        [] s.do = "when" ->
             {j \in {i + 1} : MayHold(s.if, x)} \union {j \in {i + 1 + s.otherwise} : MayFail(s.if, x)}
        [] s.do = "probe" -> {i + 1, i + 1 + s.otherwise}
        [] s.do = "repeat" -> {i + 1, Past(code, i)}
        [] s.do = "jump" -> {Past(code, i)}
        [] s.do = "back" -> {i - s.length}
        [] OTHER -> {i + 1}

\* Where it goes on when the instruction fails.
Fails(code, i) == {j \in {Past(code, i)} : Fallible(code[i])}

\* Where it goes on when something before has failed.
Passes(code, x, i) == IF Unguarded(code[i]) THEN Continues(code, x, i) ELSE {Past(code, i)}

Follows(code, x, i) == Continues(code, x, i) \union Fails(code, i) \union Passes(code, x, i)

-----------------------------------------------------------------------------
(* The assertions                                                          *)

\* The first or the second of the two ways that are decided at h.
InFirst(code, h, i) == h < i /\ i <= h + code[h].otherwise

InSecond(code, h, i) == h + code[h].otherwise < i /\ i <= h + code[h].length

\* The points that the deciding options do not rule out.
Reach(code, x) ==
  {i \in Points(code) :
     \A h \in 1..i - 1 :
       /\ Lets(code[h], x)
       /\ code[h].do = "when" =>
            /\ InFirst(code, h, i) => MayHold(code[h].if, x)
            /\ InSecond(code, h, i) => MayFail(code[h].if, x)}

\* What the program cannot miss, as long as nothing fails.
Sure(code, x, i) ==
  \A h \in 1..i - 1 :
    /\ code[h].do = "when" =>
         /\ InFirst(code, h, i) => ~MayFail(code[h].if, x)
         /\ InSecond(code, h, i) => ~MayHold(code[h].if, x)
    /\ code[h].do \in {"probe", "repeat"} => i > h + code[h].length

\* The points after one of some instructions.
AfterAny(code, ks) == UNION {Ahead(code, k + 1) : k \in ks}

\* Where something may have failed.
Failed(code, reach) == AfterAny(code, {k \in reach \ {Len(code) + 1} : Fallible(code[k])})

\* Where a context was asked for and not deleted.
Opened(code) ==
  {i \in Points(code) :
     \E k \in 1..i - 1 : code[k].do = "create" /\ \A m \in k + 1..i - 1 : code[m].do # "delete"}

Commands == {"execute", "call", "transmit", "probe"}

\* Where a command may have been sent, and where it has been if nothing failed.
Sent(code, reach) == AfterAny(code, {k \in reach \ {Len(code) + 1} : code[k].do \in Commands})

Done(code, x) ==
  {i \in Points(code) :
     \E k \in 1..i - 1 : code[k].do \in {"execute", "call", "transmit"} /\ Sure(code, x, k)}

\* The instructions that have put into their variable a handle that is not removed before i.
Keepers(code, reach, i) ==
  {k \in reach \intersect 1..i - 1 :
     /\ code[k].do = "keeps"
     /\ \A m \in reach \intersect k + 1..i - 1 : code[k].handle \notin Removing(code[m])}

MayBeHeld(code, reach, i) == {code[k].handle : k \in Keepers(code, reach, i)}

MustBeHeld(code, x, reach, i) ==
  {code[k].handle : k \in {k \in Keepers(code, reach, i) : Sure(code, x, k)}}

\* What the program tries to remove from there on, whatever fails.
WillBeReleased(code, reach, i) ==
  UNION {Removing(code[j]) : j \in {j \in reach \intersect i..Len(code) : code[j].do = "finally"}}

-----------------------------------------------------------------------------
(* The conditions                                                          *)

\* The flow of control stays in the program.
FlowDiscipline(code, x, reach) ==
  /\ 1 \in reach
  /\ \A i \in reach \ {Len(code) + 1} : Follows(code, x, i) \subseteq reach

\* A call that sets rc without looking at it comes before all that can fail.
ErrorDiscipline(name, code, x, reach) ==
  LET failing == Failed(code, reach)
  IN  \A i \in reach \ {Len(code) + 1} :
        /\ Fails(code, i) \subseteq failing
        /\ i \in failing => Passes(code, x, i) \subseteq failing /\ code[i].do # "anyway"
        /\ code[i].do = "writesEach" => name \in CoverErrors

\* The commands are between TSS_Create and TSS_Delete, and no way out of the program is.
ContextDiscipline(code, x, reach) ==
  LET opened == Opened(code)
  IN  /\ 1 \notin opened /\ Len(code) + 1 \notin opened
      /\ \A i \in reach \ {Len(code) + 1} :
           LET do == code[i].do
               open == i \in opened
           IN  /\ do \in Commands \union {"finally", "keeps"} => open
               /\ do \in {"create", "refuse", "requires", "anyway"} => ~open
               /\ \A j \in Follows(code, x, i) :
                    j \in opened <=> do = "create" \/ (open /\ do # "delete")

\* One command, which is not missed; of the programs of several commands the latter.
CommandDiscipline(name, code, x, reach) ==
  LET sent == Sent(code, reach)
      done == Done(code, x)
  IN  /\ 1 \notin sent \union done
      /\ \A i \in reach \ {Len(code) + 1} :
           /\ code[i].do \in Commands =>
                /\ Follows(code, x, i) \subseteq sent
                /\ name \notin OfSeveralCommands => i \notin sent
           /\ i \in sent => Follows(code, x, i) \subseteq sent
           /\ \A j \in Continues(code, x, i) \intersect done :
                i \in done \/ code[i].do \in {"execute", "call", "transmit"}
      /\ name \in MayDoNothing \union {"createek"} \/ Len(code) + 1 \in done

\* The handles an instruction leaves of some when it does not fail.
Leaves(s, handles) ==
  IF s.do = "keeps" THEN handles \union {s.handle} ELSE handles \ Removing(s)

\* What a call may have assigned to its variable although it has failed.
MayName(s) == IF Names(s) = {"old"} THEN {} ELSE Making(s)

\* The program tries to remove what it keeps on every way out, before the context is deleted; and
\* a handle is used, and its variable used again, only as long as it is there, or it is not.
HandleDiscipline(name, code, x, reach) ==
  /\ \A i \in reach \ {Len(code) + 1} :
       LET s == code[i]
           may == MayBeHeld(code, reach, i)
           must == MustBeHeld(code, x, reach, i)
           will == WillBeReleased(code, reach, i)
       IN  /\ may \subseteq will \union GivenUp(s)
           /\ MayName(s) \subseteq WillBeReleased(code, reach, Past(code, i))
           /\ Making(s) \intersect may = {}
           /\ \A j \in Continues(code, x, i) :
                /\ Leaves(s, may) \subseteq MayBeHeld(code, reach, j)
                /\ MustBeHeld(code, x, reach, j) \subseteq Leaves(s, must)
           /\ \A j \in Follows(code, x, i) :
                /\ (IF s.do = "finally" THEN will \ Removing(s) ELSE will)
                     \subseteq WillBeReleased(code, reach, j)
                /\ will = {} => WillBeReleased(code, reach, j) = {}
           /\ s.do = "keeps" => s.handle \notin may
           /\ s.do = "delete" => will = {}
           /\ s.do = "finally" => name \in IgnoreErrors /\ s.uses = {} /\ Removing(s) # {}
           /\ s.do \in {"call", "probe"} => s.uses \subseteq must
           /\ s.do \in {"execute", "call", "probe", "finally"} =>
                \A n \in DOMAIN s.sessions :
                  /\ s.sessions[n] # "TPM_RH_NULL" <=> getCommandAuthRole(s.command, n - 1) # "AUTH_NONE"
                  /\ s.sessions[n] \in
                       {"TPM_RH_NULL", "TPM_RS_PW"} \union IF s.do = "finally" THEN {} ELSE must
  /\ MustBeHeld(code, x, reach, 1) = {} /\ WillBeReleased(code, reach, Len(code) + 1) = {}

\* With all the values its deciding options may have a program keeps to all of it.
KeepsDiscipline(name) ==
  LET code == Code(name)
  IN  /\ name # "" /\ Len(code) \in Nat
      /\ \A x \in Valuations(name) :
           LET reach == Reach(code, x)
           IN  /\ FlowDiscipline(code, x, reach)
               /\ ErrorDiscipline(name, code, x, reach)
               /\ ContextDiscipline(code, x, reach)
               /\ CommandDiscipline(name, code, x, reach)
               /\ HandleDiscipline(name, code, x, reach)

Disciplined == \A name \in DOMAIN Programs : KeepsDiscipline(name)

\* Every utility that is started keeps to the discipline.  Its text sends no command twice or
\* outside TSS_Create and TSS_Delete; on every way out of main() that follows a call that makes a
\* context, a session, a key or an index comes the call that is to remove it, and no second one is
\* assigned to its handle before; and no call is made after an error that sets rc anew.  Only
\* signapp and writeapp have calls whose result they throw away, and all of them are removals.
StartsDisciplined == at = 1 => KeepsDiscipline(utility)

================================================================================
