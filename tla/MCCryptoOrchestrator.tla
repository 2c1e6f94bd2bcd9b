------------------------ MODULE MCCryptoOrchestrator ------------------------
(***************************************************************************)
(* Instances of CryptoOrchestrator for TLC, on the backends and requests   *)
(* of MCKeyOrchestrator: two signature templates with a message and a      *)
(* digest scope each, one AEAD template, and a policy that may be cut down *)
(* to message operations.                                                  *)
(***************************************************************************)
EXTENDS MCKeyOrchestrator, CryptoOrchestrator, TLC

CryptoScopes == {"signature_standard", "signature_prehashed", "aead_standard"}

CryptoTemplateScopes == [t \in MCTemplates |->
    IF t = "aes" THEN {"aead_standard"} ELSE {"signature_standard", "signature_prehashed"}]

MCDeclares == [t \in MCTemplates |-> [s \in CryptoScopes |->
    CASE s \notin CryptoTemplateScopes[t] -> {}
      [] s = "signature_standard"         -> {"sign", "verify"}
      [] s = "signature_prehashed"        -> {"digest_sign", "digest_verify"}
      [] s = "aead_standard"              -> {"encrypt", "decrypt"}]]

(* The stand-in is a signer only. *)
MCCapabilities == [b \in MCBackends |->
    IF b = "b_standin" THEN {"Signer"} ELSE {"Signer", "Cipher"}]

CryptoDocs == {"open", "messages"}

CryptoRules == [d \in CryptoDocs |->
    [MCRules["open"] EXCEPT
        !.operations = IF d = "open" THEN Operations ELSE {"create_key", "sign", "verify"}]]

CreateFor(scope, t) == [CreateOnSoft EXCEPT !.scope = scope, !.template = t,
                                            !.instance = IF t = "aes" THEN "module" ELSE "soft"]

MCCall(op, arm) == [op |-> op, name |-> "k", arm |-> arm]

(* A key that takes digests or encrypts changes under the calls: created,   *)
(* regenerated in the digest scope, whether that is its own or not,         *)
(* retained, migrated, deleted and created again under its name, suspended  *)
(* and taken up again.                                                      *)
UseSpecs == {CreateFor("signature_prehashed", "p256"), CreateFor("aead_standard", "aes"),
             [RegenerateAs("signature_prehashed") EXCEPT !.template = "p256b"],
             Retain, SwitchTo("module"), DeleteIt}

UseCalls == {MCCall("digest_sign", "no_context"), MCCall("encrypt", "aead_params"),
             MCCall("encrypt", "xts_params")}

UseStates == {"ACTIVE", "SUSPENDED"}

(* Bounds the exploration: a name is passed on after a delete, not shared.  *)
OneKeyAtATime == Cardinality({k \in KeyIds : keys[k].status = "live"}) <= 1

KeyIdSymmetry == Permutations(KeyIds)

(* Approved material, and a module replaced by its stand-in. *)
ModuleSpecs == {CreateCertified}
ModuleCalls == {MCCall("sign", "no_context")}

=============================================================================
