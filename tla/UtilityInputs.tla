----------------------------- MODULE UtilityInputs -----------------------------
(***************************************************************************)
(* The input structures of the utilities, against the formats that the     *)
(* functions of tssmarshal.c make of them.                                 *)
(***************************************************************************)
EXTENDS TssUtilities, MarshalTable

Field(path, name) == IF path = "" THEN name ELSE path \o "." \o name

\* Everything that marshaling the structure reads has a value: a field itself or all of its
\* parts, and of a union what its selector, when it is a constant, makes of it.
RECURSIVE Complete(_, _, _, _)
Complete(format, path, names, constants) ==
  \/ path \in names
  \/ format.kind \in {"null", "nothing"}
  \/ format.kind \in {"sized", "optional"} /\ Complete(format.format, path, names, constants)
  \/ /\ format.kind = "struct"
     /\ \A i \in DOMAIN format.fields :
          LET name == Field(path, format.fields[i][1])
              inner == format.fields[i][2]
              selector == IF Len(format.fields[i]) = 3 THEN Field(path, format.fields[i][3]) ELSE ""
          IN  \/ Complete(inner, name, names, constants)
              \/ /\ selector \in DOMAIN constants
                 /\ inner.kind = "union"
                 /\ IF constants[selector] \in DOMAIN inner.cases
                      THEN Complete(inner.cases[constants[selector]], name, names, constants)
                      ELSE inner.default = "nothing"

\* The fields that TSS_Command_PreProcessor fills in.
TSS_PR_StartAuthSession == {"nonceCaller", "encryptedSalt"}

\* No byte of a command is marshaled from a field of the input structure, an automatic
\* variable, that was never assigned, whatever the options and whichever of the calls before
\* it failed; nor a byte of a template that is marshaled into a field.
InputsComplete ==
  LET s == Instruction
      Sent(names, constants) == Complete(marshalTable[s.command].marshalIn, "", names, constants)
  IN  /\ Begins("execute") => Sent(assigned, selected)
      /\ Begins("call") \/ Begins("probe") \/ Begins("finally") =>
           Sent(s.fields \union DOMAIN s.selects
                \union IF s.command = "StartAuthSession" THEN TSS_PR_StartAuthSession ELSE {},
                s.selects)
      /\ Begins("marshals") =>
           Complete(IF s.structure = "TPMT_PUBLIC_D" THEN TSS_TPMT_PUBLIC_D_Marshal
                    ELSE TSS_TPMT_PUBLIC_Marshal,
                    s.from, assigned, selected)

================================================================================
