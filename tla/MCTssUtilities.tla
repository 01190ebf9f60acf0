------------------------- MODULE MCTssUtilities -------------------------
(***************************************************************************)
(* Every utility that is modelled.                                         *)
(***************************************************************************)
EXTENDS UtilityInputs, UtilityDiscipline, UtilityKeys, UtilityCrypto, UtilityNv, UtilityPolicy, UtilityApplications

Utilities ==
  UtilityKeysPrograms @@ UtilityCryptoPrograms @@ UtilityNvPrograms @@ UtilityPolicyPrograms
  @@ UtilityApplicationsPrograms

\* A function application stands between Programs and the definitions of the programs: TLC keeps
\* its coverage for every use of Programs apart, and would take them all apart at each of them.
MCPrograms ==
  LET programs[everything \in {TRUE}] == Utilities
  IN  programs[TRUE]

\* The options on which it depends what a program makes in the TPM, or which of two calls it
\* makes without looking at rc.
MCDeciding ==
  {"pwSession", "operandBData", "operandBFilename", "data", "datafilename", "two", "doStartup",
   "doSelftest"}

=========================================================================
