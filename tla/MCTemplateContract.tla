------------------------- MODULE MCTemplateContract -------------------------
(***************************************************************************)
(* An instance of TemplateContract for TLC: signature templates that share *)
(* key material or not, one that declares a scope twice, one of another    *)
(* primitive, one with a capability that has no scope, and two entries no  *)
(* catalog should have.                                                    *)
(***************************************************************************)
EXTENDS TemplateContract

MCHashes == {"sha256", "sha384"}

Level(n) == [strength |-> 128, level |-> n, quantumSafe |-> FALSE,
             nistStatus |-> "approved", fips |-> TRUE]

Declare(scope, flags, hashes) ==
    ToProto([scope |-> scope, security |-> Level(1), additional |-> {},
             props |-> IF flags = {} /\ hashes = <<>> THEN NoProps
                       ELSE [of |-> GetPrimitive(scope), flags |-> flags, hashes |-> hashes]])

Digests(flags, hashes) ==
    [spec |-> Declare("signature_prehashed", flags, hashes),
     operations |-> {"digest_sign", "digest_verify"}]

Messages == [spec |-> Declare("signature_standard", {}, <<>>), operations |-> {"sign", "verify"}]

Template(arm, size, capabilities) ==
    [capabilities |-> capabilities,
     algorithm    |-> [arm |-> arm, size |-> size],
     family       |-> FamilyOfArm[arm],
     constraints  |-> TRUE]

MCTemplateIds == {"p256", "p256det", "twice", "gcm", "scopeless", "listless", "broken"}

MCCatalog == [id \in MCTemplateIds |->
    CASE id = "p256"     -> Template("ecdsa", 1, <<Messages, Digests({}, <<"sha384", "sha256">>)>>)
      [] id = "p256det"  -> Template("ecdsa", 1, <<Digests({"deterministic"}, <<"sha256">>)>>)
      [] id = "twice"    -> Template("ecdsa", 2, <<Digests({}, <<"sha384">>),
                                                   Digests({"deterministic"}, <<"sha256">>)>>)
      [] id = "gcm"      -> Template("aes_gcm", 1,
                               <<[spec |-> Declare("aead_standard", {"nonce_misuse_resistant"}, <<>>),
                                  operations |-> {"encrypt", "decrypt"}]>>)
      [] id = "scopeless" -> Template("ecdsa", 1, <<Messages, [Messages EXCEPT !.spec = NoScope]>>)
      [] id = "listless" -> Template("ecdsa", 1, <<Digests({"deterministic"}, <<>>)>>)
      [] id = "broken"   -> [Template("ecdsa", 1, <<Messages>>) EXCEPT !.constraints = FALSE]]

(* A good catalog, one in which a template is retired, and two that should  *)
(* not load.                                                                *)
Good == {"p256", "p256det", "twice"}
MCEditions == {[entries |-> Good, retired |-> {}],
               [entries |-> {"p256", "gcm", "scopeless"}, retired |-> {"p256"}],
               [entries |-> {"p256det", "listless"}, retired |-> {}],
               [entries |-> {"gcm", "broken"}, retired |-> {}]}

-----------------------------------------------------------------------------

Ask(scope, props) ==
    [scope |-> scope, security |-> NoSecurity, props |-> props, additional |-> {}]

Sig(flags, hashes) == [of |-> "signature", flags |-> flags, hashes |-> hashes]

(* Two made without NewScopeSpecification come last: one whose properties   *)
(* are of another primitive, and hashes for a scope that takes messages.    *)
MCAsked ==
    {Ask("signature_standard", NoProps),
     Ask("signature_prehashed", Sig({}, <<"sha256">>)),
     Ask("signature_prehashed", Sig({"deterministic"}, <<>>)),
     Ask("aead_standard", [of |-> "aead", flags |-> {}, hashes |-> <<>>]),
     [Ask("signature_prehashed", NoProps) EXCEPT !.security = Level(1)],
     Ask("signature_prehashed", [of |-> "aead", flags |-> {}, hashes |-> <<>>]),
     Ask("signature_standard", Sig({}, <<"sha256">>))}

=============================================================================
