------------------------------ MODULE MCSchema -------------------------------
(***************************************************************************)
(* The three migrations, each with as many objects as it takes to be       *)
(* interrupted in the middle: 001 and 002 say CREATE, 003 says CREATE IF   *)
(* NOT EXISTS.                                                             *)
(***************************************************************************)
EXTENDS SchemaMigration

MCMigrations ==
    << [name |-> "001_init_schema", creates |-> <<"mcp_servers", "crawl_runs">>, ifNotExists |-> FALSE],
       [name |-> "002_server_snapshots", creates |-> <<"server_snapshots">>, ifNotExists |-> FALSE],
       [name |-> "003_schema_v2", creates |-> <<"entities", "migration_log">>, ifNotExists |-> TRUE] >>
=============================================================================
