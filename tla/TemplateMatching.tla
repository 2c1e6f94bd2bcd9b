-------------------------- MODULE TemplateMatching --------------------------
(***************************************************************************)
(* What a template promises and how it is compared with what is wanted:    *)
(* template/matcher.go, template/digest_hashes.go and                      *)
(* template/key_material_compatibility.go, with the hash list resolution   *)
(* of service/key_orchestrator_impl.go.                                    *)
(***************************************************************************)
EXTENDS ScopeSpecification

CryptoOperations == {"sign", "verify", "digest_sign", "digest_verify", "encrypt", "decrypt"}

(* ScopedCapabilities: a scope specification, or none, and the operations   *)
(* declared for it.                                                        *)
NoScope == [arm |-> "none"]

Capability == [spec : ProtoSpecification \union {NoScope}, operations : SUBSET CryptoOperations]

(* The arms of AlgorithmDetails; size stands for the field that shapes the  *)
(* key material (bits, curve or parameter set, for SLH-DSA the hash type    *)
(* with it), 0 when unset.  An arm without such a field has size 1 when its *)
(* parameters are supplied.                                                 *)
FamilyOfArm ==
    [ecdsa |-> "ECDSA", ecdh |-> "ECDH", ed25519 |-> "Ed25519", ed448 |-> "Ed448",
     x25519 |-> "X25519", x448 |-> "X448", rsa_pss |-> "RSA", rsa_pkcs1v15 |-> "RSA",
     rsa_oaep |-> "RSA", ml_dsa |-> "ML-DSA", slh_dsa |-> "SLH-DSA", ml_kem |-> "ML-KEM",
     aes_gcm |-> "AES", aes_cbc |-> "AES", aes_ctr |-> "AES", aes_ccm |-> "AES",
     aes_key_wrap |-> "AES", aes_xts |-> "AES-XTS", chacha20_poly1305 |-> "ChaCha20"]

UnsupportedArms == {"hmac", "custom", "hybrid", "none"}

TemplateInfo ==
    [capabilities : Seq(Capability),
     algorithm    : [arm : (DOMAIN FamilyOfArm) \union UnsupportedArms, size : Nat],
     family       : STRING,       \* key_material_family
     constraints  : BOOLEAN]      \* meets the constraints declared in the proto

-----------------------------------------------------------------------------
(* matcher.go *)

SecurityPropertiesMatch(want, got) ==
    \/ want = NoSecurity
    \/ /\ got # NoSecurity
       /\ want.fips => got.fips
       /\ want.quantumSafe => got.quantumSafe
       /\ got.level >= want.level
       /\ got.strength >= want.strength
       /\ want.nistStatus \in {"unspecified", got.nistStatus}

(* A flag that is wanted must be there, and every hash that is wanted.      *)
PrimitivePropertiesMatch(want, got) ==
    \/ want = NoProps
    \/ /\ got # NoProps
       /\ want.flags \subseteq got.flags
       /\ \A i \in DOMAIN want.hashes :
            \E j \in DOMAIN got.hashes : got.hashes[j] = want.hashes[i]

CapabilityMatchesPropsFirst(c, want) ==    \* faulty: compares properties of other scopes
    IF c.spec = NoScope \/ ~Readable(c.spec) THEN "error"
    ELSE LET got == FromProto(c.spec) IN
         IF NoProps \notin {want.props, got.props} /\ want.props.of # got.props.of
         THEN "error"
         ELSE IF /\ want.scope \in {"unknown", got.scope}
                 /\ SecurityPropertiesMatch(want.security, got.security)
                 /\ PrimitivePropertiesMatch(want.props, got.props)
                 /\ want.additional \subseteq got.additional
         THEN "yes"
         ELSE "no"

(* What one capability says to a request: "yes", "no", or "error" when it   *)
(* cannot be read or its properties are of another primitive's type.        *)
CapabilityMatches(c, want) ==
    IF c.spec = NoScope \/ ~Readable(c.spec) THEN "error"
    ELSE LET got == FromProto(c.spec) IN
         IF \/ want.scope \notin {"unknown", got.scope}
            \/ ~SecurityPropertiesMatch(want.security, got.security)
         THEN "no"
         ELSE IF NoProps \notin {want.props, got.props} /\ want.props.of # got.props.of
         THEN "error"
         ELSE IF /\ PrimitivePropertiesMatch(want.props, got.props)
                 /\ want.additional \subseteq got.additional
         THEN "yes"
         ELSE "no"

(* MatchesScope: the first capability that matches or fails decides.        *)
MatchesScope(t, want) ==
    LET cs       == t.capabilities
        says(i)  == CapabilityMatches(cs[i], want)
        deciding == {i \in DOMAIN cs : says(i) # "no" /\ \A j \in 1..(i - 1) : says(j) = "no"}
    IN IF deciding = {} THEN "no" ELSE says(CHOOSE i \in deciding : TRUE)

(* The capabilities that declare scope; one without a scope is passed over, *)
(* one that cannot be read ends the search.                                 *)
DeclaringScope(t, scope) ==
    {i \in DOMAIN t.capabilities :
        /\ t.capabilities[i].spec # NoScope
        /\ t.capabilities[i].spec.scope = scope
        /\ \A j \in 1..(i - 1) :
              t.capabilities[j].spec # NoScope => Readable(t.capabilities[j].spec)}

SupportsOperation(t, scope, operation) ==
    \E i \in DeclaringScope(t, scope) : operation \in t.capabilities[i].operations

-----------------------------------------------------------------------------
(* digest_hashes.go and the digest hashes of a new version *)

(* ScopeSpecFor: the first capability that declares the scope.              *)
ScopeSpecFor(t, scope) ==
    {FromProto(t.capabilities[i].spec) :
        i \in {j \in DeclaringScope(t, scope) :
                  \A m \in DeclaringScope(t, scope) : j <= m}}

DeclaresOnce(t, scope) ==
    \A i, j \in DeclaringScope(t, scope) : i = j

ValidateAcceptedDigestHashes(t) ==
    \A i \in DOMAIN t.capabilities :
        LET spec == t.capabilities[i].spec IN
        spec # NoScope =>
            /\ Readable(spec)
            /\ IsPrehashed(spec.scope) => AcceptedDigestHashes(FromProto(spec)) # <<>>

(* validateRequestedDigestHashes *)
RequestedHashesFit(spec) == AcceptedDigestHashes(spec) # <<>> => IsPrehashed(spec.scope)

Contains(list, h) == \E i \in DOMAIN list : list[i] = h

(* resolveDigestHashes: the specification to store, none when it fails.     *)
ResolveIgnoringRequest(t, spec) ==    \* faulty: a narrower request is not heard
    IF ~IsPrehashed(spec.scope) THEN {spec}
    ELSE {WithAcceptedDigestHashes(spec, AcceptedDigestHashes(declared)) :
              declared \in ScopeSpecFor(t, spec.scope)}

ResolveDigestHashes(t, spec) ==
    LET requested == AcceptedDigestHashes(spec)
        offered(declared) == AcceptedDigestHashes(declared)
        usable(declared) ==
            /\ offered(declared) # <<>>
            /\ \A i \in DOMAIN requested : Contains(offered(declared), requested[i])
    IN IF ~IsPrehashed(spec.scope) THEN {spec}
       ELSE {WithAcceptedDigestHashes(spec, IF requested = <<>> THEN offered(declared) ELSE requested) :
                declared \in {d \in ScopeSpecFor(t, spec.scope) : usable(d)}}

-----------------------------------------------------------------------------
(* key_material_compatibility.go *)

NoProfile == [family |-> "", size |-> 0]

(* The labels of a shape are determined by the family.                      *)
KeyMaterialProfileFor(t) ==
    IF /\ t.family # ""
       /\ t.algorithm.arm \in DOMAIN FamilyOfArm
       /\ t.algorithm.size # 0
       /\ t.family = FamilyOfArm[t.algorithm.arm]
    THEN [family |-> t.family, size |-> t.algorithm.size]
    ELSE NoProfile

CompatibleByFamily(s, t) ==    \* faulty: sizes are not compared
    /\ KeyMaterialProfileFor(s) # NoProfile
    /\ KeyMaterialProfileFor(s).family = KeyMaterialProfileFor(t).family

CompatibleKeyMaterial(s, t) ==
    /\ KeyMaterialProfileFor(s) # NoProfile
    /\ KeyMaterialProfileFor(s) = KeyMaterialProfileFor(t)

=============================================================================
