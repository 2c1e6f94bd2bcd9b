-------------------------- MODULE MCPolicyEnforcer --------------------------
(***************************************************************************)
(* Instances of PolicyEnforcer for TLC: two policy names, two valid        *)
(* documents and one per way of being invalid.                             *)
(***************************************************************************)
EXTENDS PolicyEnforcer, TLC

Symmetric == Permutations(Calls) \union Permutations(Names)

Empty == [parses |-> TRUE, version |-> "", templates |-> <<>>, operations |-> Absent,
          level |-> Absent, others |-> FALSE]

Full == [parses |-> TRUE, version |-> "1", templates |-> <<"p256">>, operations |-> {"sign"},
         level |-> 4, others |-> TRUE]

MCDocuments == {Empty, Full,
                [Full EXCEPT !.parses = FALSE],
                [Full EXCEPT !.version = ""],
                [Full EXCEPT !.version = "2"],
                [Full EXCEPT !.templates = <<"p256", "">>],
                [Full EXCEPT !.operations = {"sign", "fly"}],
                [Full EXCEPT !.level = 5]}

=============================================================================
