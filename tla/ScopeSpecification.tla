------------------------- MODULE ScopeSpecification -------------------------
(***************************************************************************)
(* Scopes, primitives and scope specifications (scope.go, primitive.go,    *)
(* primitive_properties.go, security_properties.go,                        *)
(* scope_specification.go): what callers ask for, what templates declare   *)
(* and what key versions store, with its conversion to and from the proto  *)
(* form it is stored in.                                                   *)
(***************************************************************************)
EXTENDS Naturals, Sequences, FiniteSets

CONSTANTS
    Hashes,         \* digest hash algorithms, without UNSPECIFIED
    Additional      \* additional properties, as <<name, value>> pairs

(* Primitive.ListScopes. *)
ListScopes ==
    [signature        |-> {"signature_standard", "signature_with_context",
                           "signature_prehashed", "signature_prehashed_with_context"},
     aead             |-> {"aead_standard", "aead_deterministic", "aead_streaming"},
     mac              |-> {"mac_standard", "mac_streaming"},
     kem              |-> {"kem_standard", "kem_hybrid"},
     key_agreement    |-> {"key_agreement_standard", "key_agreement_hybrid"},
     kdf              |-> {"kdf_extract_expand", "kdf_password", "kdf_agreement",
                           "kdf_counter", "kdf_tls", "kdf_gost", "kdf_vendor"},
     hash             |-> {"hash_standard", "hash_xof"},
     key_wrapping     |-> {"key_wrapping_standard", "key_wrapping_with_padding"},
     symmetric_cipher |-> {"symmetric_cipher_block", "symmetric_cipher_stream"},
     disk_encryption  |-> {"disk_encryption_standard"},
     generic_secret   |-> {"generic_secret_standard"}]

Primitives == DOMAIN ListScopes

(* The valid scopes, those between ScopeUnknown and scopeMax. *)
CoreScopes == UNION {ListScopes[p] : p \in Primitives}

GetPrimitive(s) ==
    IF s \in CoreScopes THEN CHOOSE p \in Primitives : s \in ListScopes[p] ELSE "unknown"

IsPrehashed(s) == s \in {"signature_prehashed", "signature_prehashed_with_context"}

-----------------------------------------------------------------------------
(* Primitive-specific properties.  flags are the boolean properties that    *)
(* are true; hashes the accepted digest hashes, preferred first.            *)

FlagsOf(p) ==
    CASE p = "signature"     -> {"non_malleable", "deterministic"}
      [] p = "aead"          -> {"nonce_misuse_resistant"}
      [] p = "key_agreement" -> {"forward_secrecy"}
      [] p = "kdf"           -> {"memory_hard"}
      [] OTHER               -> {}

Flags == UNION {FlagsOf(p) : p \in Primitives}

(* nil, which is not the same as properties that ask for nothing. *)
NoProps == [of |-> "none", flags |-> {}, hashes |-> <<>>]

HashLists == Seq(Hashes)

PrimitiveProps ==
    {NoProps} \union
    {p \in [of : Primitives, flags : SUBSET Flags, hashes : HashLists] :
        /\ FlagsOf(p.of) # {}
        /\ p.flags \subseteq FlagsOf(p.of)
        /\ p.of # "signature" => p.hashes = <<>>}

-----------------------------------------------------------------------------
(* Security properties; 0 and "unspecified" make no demand. *)

Security ==
    [strength    : Nat,
     level       : 0..5,
     quantumSafe : BOOLEAN,
     nistStatus  : {"unspecified", "approved", "disallowed"},
     fips        : BOOLEAN]

NoSecurity == [strength |-> 0]    \* nil

-----------------------------------------------------------------------------
(* core.ScopeSpecification. *)

Specification ==
    [scope      : CoreScopes \union {"unknown"},
     security   : Security \union {NoSecurity},
     props      : PrimitiveProps,
     additional : SUBSET Additional]

(* NewScopeSpecification returns no error. *)
WellFormedSpec(s) ==
    /\ s.scope \in CoreScopes
    /\ s.props # NoProps => s.props.of = GetPrimitive(s.scope)

AcceptedDigestHashes(s) ==
    IF s.props.of = "signature" THEN s.props.hashes ELSE <<>>

WithAcceptedDigestHashes(s, hashes) ==
    [s EXCEPT !.props =
        [of     |-> "signature",
         flags  |-> IF s.props.of = "signature" THEN s.props.flags ELSE {},
         hashes |-> hashes]]

-----------------------------------------------------------------------------
(* The proto form.  arm is the primitive of the oneof, present the          *)
(* optional booleans that are set and on those that are set to true.  Each  *)
(* arm has an enumeration of its own scopes.                               *)

ProtoSpecification ==
    {p \in [arm        : Primitives,
            scope      : CoreScopes \union {"unspecified"},
            security   : Security \union {NoSecurity},
            present    : SUBSET Flags,
            on         : SUBSET Flags,
            hashes     : HashLists,
            additional : SUBSET Additional] :
        p.scope \in CoreScopes => p.arm = GetPrimitive(p.scope)}

ExtractFlagsOnly(p) ==    \* faulty: a list alone is no property
    IF p.present = {}
    THEN NoProps
    ELSE [of |-> p.arm, flags |-> p.on, hashes |-> p.hashes]

(* extractSignature: a false property and an empty list are no properties   *)
(* unless a boolean is set; the other arms with a property have just one.   *)
ExtractProps(p) ==
    IF p.present = {} /\ p.hashes = <<>>
    THEN NoProps
    ELSE [of |-> p.arm, flags |-> p.on, hashes |-> p.hashes]

(* ScopeSpecificationFromProto fails if the scope is unspecified. *)
Readable(p) == p.scope \in CoreScopes

FromProto(p) ==
    [scope |-> p.scope, security |-> p.security, props |-> ExtractProps(p),
     additional |-> p.additional]

(* trueOrNil and computeIfNotNil: signature booleans are set only when      *)
(* true, the others whenever there are properties; properties of another    *)
(* primitive than the scope's are dropped.                                  *)
ToProto(s) ==
    LET arm == GetPrimitive(s.scope)
        own == s.props.of = arm
    IN [arm        |-> arm,
        scope      |-> s.scope,
        security   |-> s.security,
        present    |-> IF ~own THEN {}
                       ELSE IF arm = "signature" THEN s.props.flags ELSE FlagsOf(arm),
        on         |-> IF own THEN s.props.flags ELSE {},
        hashes     |-> IF arm = "signature" THEN AcceptedDigestHashes(s) ELSE <<>>,
        additional |-> s.additional]

=============================================================================
