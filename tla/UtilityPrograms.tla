---------------------------- MODULE UtilityPrograms ----------------------------
(***************************************************************************)
(* The language the command line utilities of src/utils are written in     *)
(* here.                                                                   *)
(*                                                                         *)
(* Each utility is one main() of one shape: a loop over the options, the   *)
(* checks of what was given, the input structure of one command filled     *)
(* field by field, TSS_Create, TSS_Execute, TSS_Delete, the output files.  *)
(* The options are groups of variables that the loop sets together, with   *)
(* the values it can leave in them ("none" is NULL, 0 or FALSE); the rest  *)
(* of main() is a sequence of statements.  Unless it says otherwise a      *)
(* statement is guarded by rc == 0.                                        *)
(*                                                                         *)
(* A statement is an instruction, or a block of them: an if, a loop or a   *)
(* switch with the instructions inside it, which it passes by with a jump. *)
(***************************************************************************)
EXTENDS Naturals, Sequences, SequencesExt, TLC

(* Options: a set of groups, a group the set of its values.                *)

Arguments(variables) == {{v :> "none", v :> "some"} : v \in variables}

OneOf(v, values) == {{v :> x : x \in values}}

\* The options that set v count how often one of them was given.
Counted(v, count, initial, values) ==
  {{v :> initial @@ count :> "none"}
   \union {v :> x @@ count :> n : x \in values, n \in {"once", "again"}}}

\* The arguments are counted, as no more than one may be given.
OnlyOne(count, variables) ==
  LET Just(ws, n) == [w \in variables |-> IF w \in ws THEN "some" ELSE "none"] @@ count :> n
  IN  {{Just({}, "none"), Just(variables, "again")} \union {Just({w}, "once") : w \in variables}}

(* Conditions: when they hold and when they fail, each a set of clauses,   *)
(* of which one must be satisfied: a set of literals that say whether a    *)
(* variable has one of the values.                                         *)

Among(v, values) ==
  [holds |-> {{[variable |-> v, values |-> values, in |-> TRUE]}},
   fails |-> {{[variable |-> v, values |-> values, in |-> FALSE]}}]

Is(v, x) == Among(v, {x})

Not(c) == [holds |-> c.fails, fails |-> c.holds]

Given(v) == Not(Is(v, "none"))

And(c, d) ==
  [holds |-> {p \union q : p \in c.holds, q \in d.holds}, fails |-> c.fails \union d.fails]

Or(c, d) == Not(And(Not(c), Not(d)))

\* A test of what an argument, a file or a response holds.
Perhaps == [holds |-> {{}}, fails |-> {{}}]

(* Statements.                                                             *)

\* if (c) printUsage(), which exits; not guarded by rc
Refuse(c) == [do |-> "refuse", if |-> c]

\* The usage if one of the variables is not given.
Requires(variables) == [do |-> "requires", variables |-> variables]

\* Assignments to fields of the input structure.
Sets(names) == [do |-> "sets", fields |-> names]

\* An assignment of a constant to a field that selects the member of a union.
Selects(name, x) == [do |-> "selects", field |-> name, value |-> x]

\* rc = ... : a call that fails or sets the fields.
Try(names) == [do |-> "try", fields |-> names]

\* The same without the guard: the call is made, and sets rc, whatever rc is.
Anyway(names) == [do |-> "anyway", fields |-> names]

\* A mutant: TSS_Delete only if rc is 0.
Unguarded_DeleteIfOk(s) ==
  IF s.do \in {"block", "when"} THEN s.unguarded
  ELSE s.do \in {"anyway", "refuse", "requires", "finally", "jump", "back"}

\* What if (rc == 0) does not guard, and the blocks that hold such a statement.
Unguarded(s) ==
  IF s.do \in {"block", "when"} THEN s.unguarded
  ELSE s.do \in {"anyway", "delete", "refuse", "requires", "finally", "jump", "back"}

\* The instructions of a sequence of statements.
Flat(statements) ==
  FlattenSeq([i \in DOMAIN statements |->
                IF statements[i].do = "block" THEN statements[i].code ELSE <<statements[i]>>])

Block(unguarded, code) == [do |-> "block", unguarded |-> unguarded, code |-> code]

\* One of two ways: the distances from the instruction that decides to the second and past both.
Alternatives(decides, first, second) ==
  LET other == Flat(second)
      one == IF other = <<>> THEN Flat(first)
             ELSE Append(Flat(first), [do |-> "jump", length |-> Len(other)])
  IN  <<decides @@ [otherwise |-> Len(one), length |-> Len(one) + Len(other)]>> \o one \o other

When(c, then, else) ==
  LET unguarded == \E s \in Range(then \o else) : Unguarded(s)
  IN  Block(unguarded, Alternatives([do |-> "when", if |-> c, unguarded |-> unguarded], then, else))

\* A switch, or a chain of else if, over the values of v: the cases are pairs of the
\* values and the statements.
Switch(v, cases, otherwise) ==
  LET from[i \in 1..Len(cases) + 1] ==
        IF i > Len(cases) THEN otherwise
        ELSE <<When(Among(v, cases[i][1]), cases[i][2], from[i + 1])>>
  IN  from[1][1]

\* The output files that were asked for: calls that may fail, each made for an argument.
Writes(variables) == [do |-> "writes", variables |-> variables]

\* The same without a look at rc in between: it is the result of the last.
WritesEach(variables) == [do |-> "writesEach", variables |-> variables]

\* A structure marshaled into a buffer that is a field of the input structure.
Marshals(structure, from, to) ==
  [do |-> "marshals", structure |-> structure, from |-> from, to |-> to]

TSS_Create == [do |-> "create"]

\* The session handles main() begins with: password sessions and no sessions.
Handles(passwords, absent) ==
  [i \in 1..passwords + absent |-> IF i <= passwords THEN "TPM_RS_PW" ELSE "TPM_RH_NULL"]

\* TSS_Execute of the input structure.
TSS_Execute(command, handles) == [do |-> "execute", command |-> command, sessions |-> handles]

\* Called whatever rc is; rc is kept if it is an error already.
TSS_Delete == [do |-> "delete"]

(* The programs of several commands.                                       *)

\* A function that fills in its own input structure, runs the command and puts the result in rc.
\* uses: the variables with the handles it passes on.
Calls(command, handles, uses, names, selects) ==
  [do |-> "call", command |-> command, sessions |-> handles, uses |-> uses, fields |-> names,
   selects |-> selects, makes |-> {}, known |-> "success", removes |-> {}]

\* The command makes in the TPM what the variable is to name.  If the call fails the variable is
\* not assigned ("success"), gets what is in the output structure ("perhaps"), or is a constant.
Makes(handle, known, call) == [call EXCEPT !.makes = {handle}, !.known = known]

\* What the variables name is gone from the TPM once the command was executed.
Removes(handles, call) == [call EXCEPT !.removes = handles]

\* The same with a failure that is no error: always, or for some of the response codes.
Probe(call, forgiven, then, otherwise) ==
  Block(FALSE,
    Alternatives(
      [do |-> "probe", command |-> call.command, sessions |-> call.sessions, uses |-> call.uses,
       fields |-> call.fields, selects |-> call.selects, forgiven |-> forgiven], then, otherwise))

\* A call that removes what the handle names, made whatever rc is; its result is thrown away.
Finally(command, handles, names, handle) ==
  Removes({handle}, [Calls(command, handles, {}, names, [x \in {} |-> 0]) EXCEPT !.do = "finally"])

\* A handle variable is assigned what the last command made in the TPM.
Keeps(handle) == [do |-> "keeps", handle |-> handle]

\* while (rc == 0 && !done)
Repeat(statements) ==
  LET body == Flat(statements)
      length == Len(body) + 1
  IN  Block(FALSE,
        <<[do |-> "repeat", length |-> length]>> \o body \o <<[do |-> "back", length |-> length]>>)

\* if (rc == 0) around statements that need not test rc.
Guarded(statements) ==
  Block(FALSE, <<[do |-> "guarded", length |-> Len(Flat(statements))]>> \o Flat(statements))

\* TSS_Transmit or TSS_TransmitPlatform
TSS_Transmit == [do |-> "transmit"]

Utility(options, main) == [options |-> options, code |-> Flat(main)]

=============================================================================
