-------------------------- MODULE MCMigrationReport --------------------------
(***************************************************************************)
(* An instance of MigrationReport for TLC, on the backends, templates and  *)
(* policies of MCKeyOrchestrator: one report, on migrating a key to a      *)
(* certified module or back to software, beside one request.  The vault,   *)
(* which cannot receive stored material, ranks before the module, which    *)
(* can.                                                                    *)
(***************************************************************************)
EXTENDS MCKeyOrchestrator, MigrationReport

CreateOnModule == [CreateOnSoft EXCEPT !.instance = "module"]

AnyStrategy(s) == {[s EXCEPT !.strategy = t] : t \in Strategies}

ReportSpecs == {CreateOnSoft, CreateOnModule, SwitchToType("fips"), RekeyToType("fips")}
MCProbes    == AnyStrategy(SwitchToType("fips")) \union AnyStrategy(SwitchTo("soft"))
VaultFirst  == <<"b_soft", "b_vault4", "b_module">>

(* Keys come and go, and the module a search has listed is removed and      *)
(* registered again.                                                        *)
ReturnProbes == AnyStrategy(SwitchToType("fips"))

=============================================================================
