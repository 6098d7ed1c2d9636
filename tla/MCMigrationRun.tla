--------------------------- MODULE MCMigrationRun ---------------------------
(* Small instances of MigrationRun for TLC. *)
EXTENDS MigrationRun

S(phase, weight, cutover, converge) ==
  [phase |-> phase, weight |-> weight, cutover |-> cutover, converge |-> converge]

\* A plain migration, one that fails to verify before and one after its cutover,
\* a single step, and weights that exercise the clamp and the rounding.
MCPrograms ==
  { <<S("syncing", 3, FALSE, TRUE), S("cutover", -1, TRUE, TRUE), S("verifying", 1, FALSE, TRUE)>>,
    <<S("syncing", 1, FALSE, TRUE), S("verifying", 1, FALSE, FALSE), S("cutover", 1, TRUE, TRUE)>>,
    <<S("syncing", 2, FALSE, TRUE), S("cutover", 1, TRUE, TRUE), S("verifying", 1, FALSE, FALSE)>>,
    <<S("cutover", -1, TRUE, TRUE)>> }

C(enabled, dryRun, maxDuration, runtime) ==
  [enabled |-> enabled, dryRun |-> dryRun, maxDuration |-> maxDuration, runtime |-> runtime]

MCConfigs ==
  { C(TRUE, FALSE, "valid", "auto"), C(TRUE, TRUE, "invalid", "hardware-tee"),
    C(TRUE, FALSE, "unset", "other"), C(FALSE, FALSE, "unset", "auto") }

H(nitro, nsm, tee) == [nitro |-> nitro, nsm |-> nsm, tee |-> tee]

MCHosts == { H(FALSE, FALSE, FALSE), H(TRUE, FALSE, TRUE), H(TRUE, TRUE, FALSE) }
=============================================================================
