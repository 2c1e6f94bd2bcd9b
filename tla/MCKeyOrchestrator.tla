-------------------------- MODULE MCKeyOrchestrator --------------------------
(***************************************************************************)
(* Instances of KeyOrchestrator for TLC: seven backends under three names, *)
(* two compatible templates of one scope and one of another, and the       *)
(* requests, policies and registry changes each run is about.              *)
(***************************************************************************)
EXTENDS KeyOrchestrator

MCInstances == {"soft", "module", "vault"}
MCTypes     == {"software", "fips"}
MCTemplates == {"p256", "p256b", "aes"}
MCScopes    == {"signature_standard", "aead_standard"}
MCEncodings == {"pkcs8"}

MCTemplateScopes == [t \in MCTemplates |-> IF t = "aes" THEN {"aead_standard"} ELSE {"signature_standard"}]

MCCompatible == {<<t, t>> : t \in MCTemplates}
                \union {<<"p256", "p256b">>, <<"p256b", "p256">>}

Same(channels) == [t \in MCTemplates |-> channels]
AllStored == [stored |-> MCEncodings, plain |-> {}, wrapped |-> {}]

Software(name, type, templates) ==
    [name |-> name, type |-> type, advertises |-> templates, certified |-> FALSE, level |-> 0,
     props |-> {}, hardware |-> FALSE, emit |-> Same(AllStored), accept |-> Same(AllStored),
     generates |-> [t \in MCTemplates |-> "pkcs8"]]

Module(name, level) ==
    [Software(name, "fips", MCTemplates) EXCEPT
        !.certified = TRUE, !.level = level, !.hardware = TRUE]

(* soft: software.  module: a certified module at level 2; two others carry *)
(* its name, a sink at level 1 that takes stored payloads and releases      *)
(* none, and a stand-in that is software.  vault: a certified module whose  *)
(* advertised plaintext channels are closed, at level 3, at level 4 or, as  *)
(* b_unrated, at no level that it reports.                                  *)
MCBackends == {"b_soft", "b_module", "b_sink", "b_standin", "b_vault", "b_vault4", "b_unrated"}

MCDesc == [b \in MCBackends |->
    CASE b = "b_soft"    -> Software("soft", "software", MCTemplates \ {"aes"})
      [] b = "b_module"  -> Module("module", 2)
      [] b = "b_sink"    -> [Module("module", 1) EXCEPT !.emit = Same(NoChannels)]
      [] b = "b_standin" -> Software("module", "software", MCTemplates)
      [] b = "b_vault"   -> Module("vault", 3)
      [] b = "b_vault4"  -> Module("vault", 4)
      [] b = "b_unrated" -> Module("vault", 0)]

-----------------------------------------------------------------------------
(* Policy documents: open to every template, narrow with the same           *)
(* requirements, strict about the lineage, closed to key operations.        *)

MCPolicyDocs == {"open", "narrow", "strict", "closed"}

MCRules == [d \in MCPolicyDocs |->
    CASE d = "open"   -> [templates |-> <<"aes", "p256", "p256b">>, operations |-> Operations,
                          requires |-> NothingRequired]
      [] d = "narrow" -> [templates |-> <<"p256b">>, operations |-> Operations,
                          requires |-> NothingRequired]
      [] d = "strict" -> [templates |-> <<"p256", "p256b">>, operations |-> Operations,
                          requires |-> [NothingRequired EXCEPT !.approved = TRUE]]
      [] d = "closed" -> [templates |-> <<"p256">>, operations |-> {},
                          requires |-> NothingRequired]]

-----------------------------------------------------------------------------
(* Requests. *)

Blank == [op |-> "create", name |-> "k", policy |-> "pol", scope |-> "signature_standard",
          template |-> NoTemplate, instance |-> NoInstance, type |-> NoType,
          retain |-> FALSE, strategy |-> "PROVIDER_SWITCH", requires |-> NothingRequired]

CreateAnywhere   == Blank
CreateOnSoft     == [Blank EXCEPT !.instance = "soft", !.template = "p256"]
CreateStrict     == [Blank EXCEPT !.policy = "strictpol"]
CreateCertified  == [Blank EXCEPT !.template = "p256",
                                  !.requires = [NothingRequired EXCEPT !.level = 1, !.hardware = TRUE]]
Regenerate       == [Blank EXCEPT !.op = "transform"]
RegenerateAs(sc) == [Regenerate EXCEPT !.scope = sc]
Retain           == [Blank EXCEPT !.op = "transform", !.retain = TRUE, !.template = "p256b"]
SwitchTo(n)      == [Blank EXCEPT !.op = "migrate", !.instance = n]
SwitchToType(t)  == [Blank EXCEPT !.op = "migrate", !.type = t]
RekeyTo(n)       == [SwitchTo(n) EXCEPT !.strategy = "REKEY_AND_ARCHIVE"]
RekeyToType(t)   == [SwitchToType(t) EXCEPT !.strategy = "REKEY_AND_ARCHIVE"]
DeleteIt         == [Blank EXCEPT !.op = "delete"]

RaceSpecs == {CreateAnywhere, CreateOnSoft, Regenerate, RegenerateAs("aead_standard"), Retain,
              SwitchTo("module"), RekeyToType("fips"), DeleteIt}
TypeSpecs   == {CreateOnSoft, CreateCertified, CreateStrict, Regenerate, Retain,
                SwitchTo("soft"), SwitchTo("module"), SwitchToType("fips"), RekeyToType("fips")}
ReturnSpecs == {CreateAnywhere, RekeyToType("fips"), DeleteIt}
RetypeSpecs == {CreateOnSoft, SwitchToType("fips")}

AllBackends     == <<"b_soft", "b_module", "b_vault">>
SinkBackends    == <<"b_soft", "b_sink", "b_unrated">>
OpenPolicies    == [p \in {"pol"} |-> "open"]
TwoPolicies     == [p \in {"pol", "strictpol"} |-> IF p = "pol" THEN "open" ELSE "strict"]

=============================================================================
