---------------------------- MODULE MCSeedEngine ----------------------------
(* Small instance of SeedEngine for TLC. *)
EXTENDS SeedEngine, TLC

CONSTANTS p1, p2, v1, v2

Seeding(c, v, replay, list) == [command |-> c, version |-> v, replay |-> replay, seeds |-> list]

\* Every command; both builds apply and replay; one category alone; with and without the lock.
MCInvocations == {Seeding(SeedApply, v1, FALSE, <<"reference">>),
                  Seeding(SeedApply, v2, TRUE, ALL_SEEDS),
                  Seeding(RunSeeds, v1, FALSE, ALL_SEEDS),
                  Seeding(SchemaEnsure, v1, FALSE, <<>>),
                  Seeding(MigrateApply, v1, FALSE, <<>>)}
=============================================================================
