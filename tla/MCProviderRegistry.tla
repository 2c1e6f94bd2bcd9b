------------------------- MODULE MCProviderRegistry -------------------------
(***************************************************************************)
(* Instances of ProviderRegistry for TLC: five backends, two of one name,  *)
(* one preferred hardware module, lists with and without repetitions.      *)
(***************************************************************************)
EXTENDS ProviderRegistry

MCTemplates == {"p256", "aes"}
MCBackends  == {"b_soft", "b_mini", "b_module", "b_standin", "b_vault"}
MCInstances == {"soft", "mini", "module", "vault"}

MCFirstList == [b \in MCBackends |->
    CASE b = "b_soft"    -> <<"p256">>
      [] b = "b_mini"    -> <<"aes", "p256">>
      [] b = "b_module"  -> <<"p256", "aes">>
      [] b = "b_standin" -> <<"aes">>
      [] b = "b_vault"   -> <<"p256", "p256">>]

MCLists == {<<>>, <<"p256">>, <<"aes", "p256">>, <<"aes">>, <<"p256", "aes">>, <<"p256", "p256">>}

NoChannel == [t \in MCTemplates |-> [stored |-> {}, plain |-> {}, wrapped |-> {}]]

Backend(name, list, certified) ==
    [name |-> name, type |-> "t", advertises |-> {list[i] : i \in DOMAIN list},
     certified |-> certified, level |-> IF certified THEN 2 ELSE 0, props |-> {},
     hardware |-> certified, emit |-> NoChannel, accept |-> NoChannel,
     generates |-> [t \in MCTemplates |-> NoEncoding]]

MCDesc == [b \in MCBackends |->
    Backend(CASE b = "b_soft" -> "soft" [] b = "b_mini" -> "mini"
              [] b = "b_vault" -> "vault" [] OTHER -> "module",
            MCFirstList[b], b \in {"b_module", "b_vault"})]

MCAsked == {NothingRequired,
            [NothingRequired EXCEPT !.hardware = TRUE],
            [NothingRequired EXCEPT !.level = 2],
            [NothingRequired EXCEPT !.level = 3]}

=============================================================================
