---------------------------- MODULE MCMigrations ----------------------------
(* Two nodes and a third that a request makes; changes of each kind. *)
EXTENDS Migrations, TLC

MCPlans == {<<"window", "whole">>, <<"whole", "ddl", "rest">>}
MCAlike == Permutations(Migrators)
=============================================================================
