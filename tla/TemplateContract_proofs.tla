----------------------- MODULE TemplateContract_proofs -----------------------
(***************************************************************************)
(* Proofs about TemplateContract.tla and the operators it is built from.   *)
(***************************************************************************)
EXTENDS TemplateContract, TLAPS

-----------------------------------------------------------------------------
(* Scopes and the stored form. *)

LEMMA PrehashedIsSignature ==
    ASSUME NEW s, IsPrehashed(s)
    PROVE  s \in CoreScopes /\ GetPrimitive(s) = "signature"
<1>1. Primitives = {"signature", "aead", "mac", "kem", "key_agreement", "kdf", "hash",
                    "key_wrapping", "symmetric_cipher", "disk_encryption", "generic_secret"}
  BY DEF Primitives, ListScopes
<1>2. s = "signature_prehashed" \/ s = "signature_prehashed_with_context"
  BY DEF IsPrehashed
<1>3. s \in ListScopes["signature"]
  BY <1>2 DEF ListScopes
<1>4. \A p \in Primitives : s \in ListScopes[p] => p = "signature"
  BY <1>1, <1>2 DEF ListScopes
<1>5. s \in CoreScopes
  BY <1>1, <1>3 DEF CoreScopes
<1>6. (CHOOSE p \in Primitives : s \in ListScopes[p]) = "signature"
  BY <1>1, <1>3, <1>4
<1> QED
  BY <1>5, <1>6 DEF GetPrimitive

LEMMA PrimitiveOfScope ==
    ASSUME NEW s \in CoreScopes
    PROVE  GetPrimitive(s) \in Primitives
<1>1. \E p \in Primitives : s \in ListScopes[p]
  BY DEF CoreScopes
<1> QED
  BY <1>1 DEF GetPrimitive

LEMMA NoneIsNoPrimitive == "none" \notin Primitives /\ "unknown" \notin Primitives
  BY DEF Primitives, ListScopes

LEMMA FlagsOfPrimitive == \A p \in Primitives : FlagsOf(p) \subseteq Flags
  BY DEF Flags

LEMMA PropsTyped ==
    ASSUME NEW s \in Specification
    PROVE  /\ s.props.flags \subseteq Flags
           /\ s.props.hashes \in HashLists
           /\ s.props.of \in Primitives \union {"none"}
           /\ AcceptedDigestHashes(s) \in HashLists
           /\ s.props.of \in Primitives => s.props.flags \subseteq FlagsOf(s.props.of)
           /\ s.props.of \in Primitives => FlagsOf(s.props.of) # {}
           /\ s.props.of # "signature" => s.props.hashes = <<>>
           /\ s.props.of = "none" => s.props.flags = {}
<1>1. s.props \in PrimitiveProps
  BY DEF Specification
<1>2. <<>> \in HashLists
  BY DEF HashLists
<1>3. CASE s.props = NoProps
  BY <1>2, <1>3, NoneIsNoPrimitive DEF NoProps, AcceptedDigestHashes
<1>4. CASE s.props # NoProps
  BY <1>1, <1>2, <1>4, NoneIsNoPrimitive DEF PrimitiveProps, AcceptedDigestHashes
<1> QED
  BY <1>3, <1>4

(* What is stored of a specification is of the proto type. *)
LEMMA ProtoTyped ==
    ASSUME NEW s \in Specification, s.scope \in CoreScopes
    PROVE  /\ ToProto(s) \in ProtoSpecification
           /\ ToProto(s).scope = s.scope
<1>1. GetPrimitive(s.scope) \in Primitives
  BY PrimitiveOfScope
<1>2. FlagsOf(GetPrimitive(s.scope)) \subseteq Flags
  BY <1>1, FlagsOfPrimitive
<1>3. s.security \in Security \union {NoSecurity} /\ s.additional \in SUBSET Additional
  BY DEF Specification
<1>4. <<>> \in HashLists
  BY DEF HashLists
<1>5. /\ ToProto(s).scope = s.scope
      /\ ToProto(s).arm = GetPrimitive(s.scope)
  BY DEF ToProto
<1>6. ToProto(s) \in [arm : Primitives, scope : CoreScopes \union {"unspecified"},
                     security : Security \union {NoSecurity}, present : SUBSET Flags,
                     on : SUBSET Flags, hashes : HashLists, additional : SUBSET Additional]
  BY <1>1, <1>2, <1>3, <1>4, PropsTyped DEF ToProto
<1> QED
  BY <1>5, <1>6 DEF ProtoSpecification

(* Storing what was read back stores the same: nothing is lost or added on  *)
(* a second trip, whatever was lost on the first.                           *)
THEOREM StoredFormIsStable ==
    ASSUME NEW s \in Specification, s.scope \in CoreScopes
    PROVE  ToProto(FromProto(ToProto(s))) = ToProto(s)
<1> DEFINE arm == GetPrimitive(s.scope)
           p   == ToProto(s)
           r   == FromProto(p)
<1>1. arm \in Primitives /\ arm # "none"
  BY PrimitiveOfScope, NoneIsNoPrimitive
<1>2. /\ p.arm = arm
      /\ p.scope = s.scope
      /\ p.security = s.security
      /\ p.additional = s.additional
      /\ p.present = IF s.props.of # arm THEN {}
                     ELSE IF arm = "signature" THEN s.props.flags ELSE FlagsOf(arm)
      /\ p.on = IF s.props.of = arm THEN s.props.flags ELSE {}
      /\ p.hashes = IF arm = "signature" /\ s.props.of = "signature" THEN s.props.hashes ELSE <<>>
  BY DEF ToProto, AcceptedDigestHashes
<1>3. /\ r.scope = s.scope
      /\ r.security = s.security
      /\ r.additional = s.additional
      /\ r.props = IF p.present = {} /\ p.hashes = <<>> THEN NoProps
                   ELSE [of |-> arm, flags |-> p.on, hashes |-> p.hashes]
  BY <1>2 DEF FromProto, ExtractProps
<1>4. p = [arm |-> arm, scope |-> s.scope, security |-> s.security, present |-> p.present,
           on |-> p.on, hashes |-> p.hashes, additional |-> s.additional]
  BY <1>2 DEF ToProto
<1> HIDE DEF p, r
<1>5. /\ ToProto(r) = [arm |-> arm, scope |-> s.scope, security |-> s.security,
                       present |-> ToProto(r).present, on |-> ToProto(r).on,
                       hashes |-> ToProto(r).hashes, additional |-> s.additional]
      /\ ToProto(r).present = IF r.props.of # arm THEN {}
                              ELSE IF arm = "signature" THEN r.props.flags ELSE FlagsOf(arm)
      /\ ToProto(r).on = IF r.props.of = arm THEN r.props.flags ELSE {}
      /\ ToProto(r).hashes = IF arm = "signature" /\ r.props.of = "signature"
                             THEN r.props.hashes ELSE <<>>
  BY <1>3 DEF ToProto, AcceptedDigestHashes
<1>6. ASSUME p.present = {} /\ p.hashes = <<>> PROVE ToProto(r) = p
  <2>1. r.props.of = "none" /\ r.props.flags = {} /\ r.props.hashes = <<>>
    BY <1>3, <1>6 DEF NoProps
  <2>2. p.on = {}
    <3>1. CASE s.props.of # arm
      BY <3>1, <1>2
    <3>2. CASE s.props.of = arm /\ arm = "signature"
      BY <3>2, <1>2, <1>6
    <3>3. CASE s.props.of = arm /\ arm # "signature"
      BY <3>3, <1>1, <1>2, <1>6, PropsTyped
    <3> QED
      BY <3>1, <3>2, <3>3
  <2>3. /\ ToProto(r).present = {}
        /\ ToProto(r).on = {}
        /\ ToProto(r).hashes = <<>>
    BY <2>1, <1>1, <1>5
  <2> QED
    BY <2>2, <2>3, <1>4, <1>5, <1>6
<1>7. ASSUME ~(p.present = {} /\ p.hashes = <<>>) PROVE ToProto(r) = p
  <2>1. r.props.of = arm /\ r.props.flags = p.on /\ r.props.hashes = p.hashes
    BY <1>3, <1>7
  <2>2. s.props.of = arm
    BY <1>2, <1>7
  <2>3. p.present = IF arm = "signature" THEN p.on ELSE FlagsOf(arm)
    BY <1>2, <2>2
  <2>4. arm # "signature" => p.hashes = <<>>
    BY <1>2
  <2>5. /\ ToProto(r).present = p.present
        /\ ToProto(r).on = p.on
        /\ ToProto(r).hashes = p.hashes
    BY <2>1, <2>3, <2>4, <1>5
  <2> QED
    BY <2>5, <1>4, <1>5
<1> QED
  BY <1>6, <1>7 DEF p, r

LEMMA StoredListReadBack ==
    ASSUME NEW s \in Specification, IsPrehashed(s.scope), AcceptedDigestHashes(s) # <<>>
    PROVE  LET r == FromProto(ToProto(s))
           IN r.scope = s.scope /\ AcceptedDigestHashes(r) = AcceptedDigestHashes(s)
<1> DEFINE p == ToProto(s)
<1>1. GetPrimitive(s.scope) = "signature"
  BY PrehashedIsSignature
<1>2. /\ p.arm = "signature"
      /\ p.scope = s.scope
      /\ p.hashes = AcceptedDigestHashes(s)
  BY <1>1 DEF ToProto
<1> HIDE DEF p
<1>3. ExtractProps(p).of = "signature" /\ ExtractProps(p).hashes = AcceptedDigestHashes(s)
  BY <1>2 DEF ExtractProps
<1>4. FromProto(p).scope = s.scope /\ AcceptedDigestHashes(FromProto(p)) = AcceptedDigestHashes(s)
  BY <1>2, <1>3 DEF FromProto, AcceptedDigestHashes
<1> QED
  BY <1>4 DEF p


(* What is read back of a stored specification: all of it, but for          *)
(* properties that ask for nothing and those of another primitive.          *)
LEMMA ReadBack ==
    ASSUME NEW s \in Specification, s.scope \in CoreScopes
    PROVE  LET w == FromProto(ToProto(s))
           IN /\ w.scope = s.scope
              /\ w.security = s.security
              /\ w.additional = s.additional
              /\ \/ w.props = NoProps
                 \/ /\ s.props.of = GetPrimitive(s.scope)
                    /\ w.props = [of |-> s.props.of, flags |-> s.props.flags, hashes |-> s.props.hashes]
<1> DEFINE arm == GetPrimitive(s.scope)
           p   == ToProto(s)
           w   == FromProto(p)
<1>1. /\ p.arm = arm
      /\ p.scope = s.scope
      /\ p.security = s.security
      /\ p.additional = s.additional
      /\ p.present = IF s.props.of # arm THEN {}
                     ELSE IF arm = "signature" THEN s.props.flags ELSE FlagsOf(arm)
      /\ p.on = IF s.props.of = arm THEN s.props.flags ELSE {}
      /\ p.hashes = IF arm = "signature" /\ s.props.of = "signature" THEN s.props.hashes ELSE <<>>
  BY DEF ToProto, AcceptedDigestHashes
<1>2. /\ w.scope = s.scope
      /\ w.security = s.security
      /\ w.additional = s.additional
      /\ w.props = IF p.present = {} /\ p.hashes = <<>> THEN NoProps
                   ELSE [of |-> arm, flags |-> p.on, hashes |-> p.hashes]
  BY <1>1 DEF FromProto, ExtractProps
<1>3. CASE s.props.of # arm
  BY <1>1, <1>2, <1>3
<1>4. CASE s.props.of = arm
  <2>1. p.on = s.props.flags
    BY <1>1, <1>4
  <2>2. p.hashes = s.props.hashes
    BY <1>1, <1>4, PropsTyped
  <2> QED
    BY <1>2, <1>4, <2>1, <2>2
<1> QED
  BY <1>2, <1>3, <1>4

-----------------------------------------------------------------------------
(* What MatchesScope answers. *)

LEMMA NoUnknownScope == "unknown" \notin CoreScopes
  BY DEF CoreScopes, Primitives, ListScopes

(* A capability of a template in the catalog that has a readable scope.     *)
LEMMA CapabilityTyped ==
    ASSUME NEW id \in TemplateIds, NEW i \in DOMAIN Catalog[id].capabilities,
           Catalog[id].capabilities[i].spec # NoScope
    PROVE  LET p == Catalog[id].capabilities[i].spec
           IN /\ p \in ProtoSpecification
              /\ Readable(p) => p.arm = GetPrimitive(p.scope)
<1>1. Catalog[id].capabilities \in Seq(Capability)
  BY ContractAssumption DEF TemplateInfo
<1>2. Catalog[id].capabilities[i] \in Capability
  BY <1>1
<1>3. Catalog[id].capabilities[i].spec \in ProtoSpecification
  BY <1>2 DEF Capability
<1> QED
  BY <1>3 DEF ProtoSpecification, Readable

(* MatchesScope answers as the first capability that does not say "no".     *)
LEMMA FirstDecides ==
    ASSUME NEW id \in TemplateIds, NEW want, NEW i \in DOMAIN Catalog[id].capabilities,
           CapabilityMatches(Catalog[id].capabilities[i], want) # "no",
           \A j \in 1..(i - 1) : CapabilityMatches(Catalog[id].capabilities[j], want) = "no"
    PROVE  MatchesScope(Catalog[id], want) = CapabilityMatches(Catalog[id].capabilities[i], want)
<1> DEFINE cs       == Catalog[id].capabilities
           says(k)  == CapabilityMatches(cs[k], want)
           deciding == {k \in DOMAIN cs : says(k) # "no" /\ \A j \in 1..(k - 1) : says(j) = "no"}
<1>1. cs \in Seq(Capability)
  BY ContractAssumption DEF TemplateInfo
<1>2. DOMAIN cs \subseteq Nat \ {0}
  BY <1>1
<1>3. MatchesScope(Catalog[id], want) =
         IF deciding = {} THEN "no" ELSE says(CHOOSE k \in deciding : TRUE)
  BY DEF MatchesScope
<1>4. says(i) # "no" /\ \A j \in 1..(i - 1) : says(j) = "no"
  OBVIOUS
<1>5. says(i) = CapabilityMatches(Catalog[id].capabilities[i], want)
  OBVIOUS
<1> HIDE DEF says
<1>6. ASSUME NEW k \in deciding, k # i PROVE FALSE
  <2>1. CASE k < i
    BY <1>2, <1>4, <1>6, <2>1
  <2>2. CASE i < k
    BY <1>2, <1>4, <1>6, <2>2
  <2> QED
    BY <1>2, <1>6, <2>1, <2>2
<1>7. i \in deciding
  BY <1>4
<1>8. (CHOOSE k \in deciding : TRUE) = i
  BY <1>6, <1>7
<1> QED
  BY <1>3, <1>5, <1>7, <1>8

LEMMA FirstAnswer ==
    ASSUME NEW id \in TemplateIds, NEW want, NEW answer, answer # "no"
    PROVE  LET cs == Catalog[id].capabilities
           IN MatchesScope(Catalog[id], want) = answer
              <=> \E i \in DOMAIN cs :
                     /\ CapabilityMatches(cs[i], want) = answer
                     /\ \A j \in 1..(i - 1) : CapabilityMatches(cs[j], want) = "no"
<1> DEFINE cs       == Catalog[id].capabilities
           says(i)  == CapabilityMatches(cs[i], want)
           deciding == {i \in DOMAIN cs : says(i) # "no" /\ \A j \in 1..(i - 1) : says(j) = "no"}
<1>1. MatchesScope(Catalog[id], want) =
         IF deciding = {} THEN "no" ELSE says(CHOOSE i \in deciding : TRUE)
  BY DEF MatchesScope
<1> HIDE DEF says
<1>2. ASSUME MatchesScope(Catalog[id], want) = answer
      PROVE  \E i \in DOMAIN cs : says(i) = answer /\ \A j \in 1..(i - 1) : says(j) = "no"
  <2>1. deciding # {} /\ says(CHOOSE i \in deciding : TRUE) = answer
    BY <1>1, <1>2
  <2>2. (CHOOSE i \in deciding : TRUE) \in deciding
    BY <2>1
  <2> QED
    BY <2>1, <2>2
<1>3. ASSUME NEW i \in DOMAIN cs, says(i) = answer, \A j \in 1..(i - 1) : says(j) = "no"
      PROVE  MatchesScope(Catalog[id], want) = answer
  BY <1>3, FirstDecides DEF says
<1> QED
  BY <1>2, <1>3 DEF says

(* What a capability has to be to say "yes".                                *)
LEMMA SaysYes ==
    ASSUME NEW c, NEW want
    PROVE  LET got == FromProto(c.spec)
           IN CapabilityMatches(c, want) = "yes"
              <=> /\ c.spec # NoScope
                  /\ Readable(c.spec)
                  /\ want.scope \in {"unknown", got.scope}
                  /\ SecurityPropertiesMatch(want.security, got.security)
                  /\ NoProps \in {want.props, got.props} \/ want.props.of = got.props.of
                  /\ PrimitivePropertiesMatch(want.props, got.props)
                  /\ want.additional \subseteq got.additional
  BY DEF CapabilityMatches

-----------------------------------------------------------------------------
(* The digest hashes that are resolved. *)

LEMMA SpecForIsOne ==
    ASSUME NEW id \in TemplateIds, NEW scope,
           NEW d \in ScopeSpecFor(Catalog[id], scope),
           NEW e \in ScopeSpecFor(Catalog[id], scope)
    PROVE  d = e
<1> DEFINE t == Catalog[id]
<1>1. t.capabilities \in Seq(Capability)
  BY ContractAssumption DEF TemplateInfo
<1>2. DeclaringScope(t, scope) \subseteq Nat
  BY <1>1 DEF DeclaringScope
<1>3. PICK i \in DeclaringScope(t, scope) :
         /\ \A m \in DeclaringScope(t, scope) : i <= m
         /\ d = FromProto(t.capabilities[i].spec)
  BY DEF ScopeSpecFor
<1>4. PICK j \in DeclaringScope(t, scope) :
         /\ \A m \in DeclaringScope(t, scope) : j <= m
         /\ e = FromProto(t.capabilities[j].spec)
  BY DEF ScopeSpecFor
<1>5. i = j
  BY <1>2, <1>3, <1>4
<1> QED
  BY <1>3, <1>4, <1>5

LEMMA DeclaredHashes ==
    ASSUME NEW id \in TemplateIds, NEW scope,
           NEW d \in ScopeSpecFor(Catalog[id], scope)
    PROVE  AcceptedDigestHashes(d) \in HashLists
<1> DEFINE t == Catalog[id]
<1>1. t.capabilities \in Seq(Capability)
  BY ContractAssumption DEF TemplateInfo
<1>2. PICK i \in DOMAIN t.capabilities :
         t.capabilities[i].spec # NoScope /\ d = FromProto(t.capabilities[i].spec)
  BY DEF ScopeSpecFor, DeclaringScope
<1>3. t.capabilities[i] \in Capability
  BY <1>1, <1>2
<1>4. t.capabilities[i].spec \in ProtoSpecification
  BY <1>2, <1>3 DEF Capability
<1>5. t.capabilities[i].spec.hashes \in HashLists
  BY <1>4 DEF ProtoSpecification
<1>6. <<>> \in HashLists
  BY DEF HashLists
<1> QED
  BY <1>2, <1>5, <1>6 DEF FromProto, ExtractProps, AcceptedDigestHashes, NoProps

(* A hash list is within what the template offers for the scope.            *)
Offered(id, scope, list) ==
    \A d \in ScopeSpecFor(Catalog[id], scope) : \A i \in DOMAIN list :
        Contains(AcceptedDigestHashes(d), list[i])

LEMMA WithHashesTyped ==
    ASSUME NEW s \in Specification, IsPrehashed(s.scope), NEW hashes \in HashLists
    PROVE  LET r == WithAcceptedDigestHashes(s, hashes)
           IN /\ r \in Specification
              /\ r.scope = s.scope
              /\ AcceptedDigestHashes(r) = hashes
<1> DEFINE flags == IF s.props.of = "signature" THEN s.props.flags ELSE {}
           props == [of |-> "signature", flags |-> flags, hashes |-> hashes]
           r     == WithAcceptedDigestHashes(s, hashes)
<1>1. "signature" \in Primitives /\ FlagsOf("signature") # {}
  BY DEF Primitives, ListScopes, FlagsOf
<1>2. flags \subseteq FlagsOf("signature")
  BY <1>1, PropsTyped
<1>3. flags \subseteq Flags
  BY <1>1, <1>2, FlagsOfPrimitive
<1>4. props \in PrimitiveProps
  BY <1>1, <1>2, <1>3 DEF PrimitiveProps
<1>5. r = [s EXCEPT !.props = props]
  BY DEF WithAcceptedDigestHashes
<1>6. r \in Specification /\ r.scope = s.scope /\ r.props = props
  BY <1>4, <1>5 DEF Specification
<1>7. AcceptedDigestHashes(r) = hashes
  BY <1>6 DEF AcceptedDigestHashes
<1> QED
  BY <1>6, <1>7

LEMMA ResolvedFits ==
    ASSUME NEW id \in TemplateIds, NEW s \in Specification, s.scope \in CoreScopes,
           NEW r \in ResolveDigestHashes(Catalog[id], s)
    PROVE  /\ r \in Specification
           /\ r.scope = s.scope
           /\ IsPrehashed(r.scope) =>
                /\ AcceptedDigestHashes(r) # <<>>
                /\ Offered(id, r.scope, AcceptedDigestHashes(r))
                /\ AcceptedDigestHashes(s) # <<>> => AcceptedDigestHashes(r) = AcceptedDigestHashes(s)
<1>1. CASE ~IsPrehashed(s.scope)
  <2>1. r = s
    BY <1>1 DEF ResolveDigestHashes
  <2> QED
    BY <1>1, <2>1
<1>2. CASE IsPrehashed(s.scope)
  <2> DEFINE requested == AcceptedDigestHashes(s)
  <2>1. PICK d \in ScopeSpecFor(Catalog[id], s.scope) :
           /\ AcceptedDigestHashes(d) # <<>>
           /\ \A i \in DOMAIN requested : Contains(AcceptedDigestHashes(d), requested[i])
           /\ r = WithAcceptedDigestHashes(s, IF requested = <<>> THEN AcceptedDigestHashes(d)
                                                                 ELSE requested)
    BY <1>2 DEF ResolveDigestHashes
  <2> DEFINE list == IF requested = <<>> THEN AcceptedDigestHashes(d) ELSE requested
  <2>2. list \in HashLists
    BY DeclaredHashes, PropsTyped
  <2>3. r \in Specification /\ r.scope = s.scope /\ AcceptedDigestHashes(r) = list
    BY <1>2, <2>1, <2>2, WithHashesTyped
  <2>4. list # <<>> /\ (requested # <<>> => list = requested)
    BY <2>1
  <2>5. \A i \in DOMAIN list : Contains(AcceptedDigestHashes(d), list[i])
    BY <2>1 DEF Contains
  <2>6. Offered(id, s.scope, list)
    BY <2>5, SpecForIsOne DEF Offered
  <2> QED
    BY <2>3, <2>4, <2>6
<1> QED
  BY <1>1, <1>2

-----------------------------------------------------------------------------
(* Asking again for what was stored. *)

ResolvedAlike(t, stored) ==
    LET w == FromProto(stored)
    IN /\ RequestedHashesFit(w)
       /\ \E again \in ResolveDigestHashes(t, w) : ToProto(again) = stored

Reaskable(id, stored) ==
    LET spec == FromProto(stored) IN
    DeclaresOnce(Catalog[id], spec.scope) =>
        MatchesScope(Catalog[id], spec) = "yes" /\ ResolvedAlike(Catalog[id], stored)

(* If a template declares the scope once, the capability that answered a    *)
(* request is the one that lends its hash list.                             *)
LEMMA AnsweredByTheDeclaring ==
    ASSUME NEW id \in TemplateIds, NEW s \in Specification, s.scope \in CoreScopes,
           DeclaresOnce(Catalog[id], s.scope),
           NEW i \in DOMAIN Catalog[id].capabilities,
           CapabilityMatches(Catalog[id].capabilities[i], s) = "yes",
           \A j \in 1..(i - 1) : CapabilityMatches(Catalog[id].capabilities[j], s) = "no"
    PROVE  /\ ScopeSpecFor(Catalog[id], s.scope) = {FromProto(Catalog[id].capabilities[i].spec)}
           /\ \A j \in 1..(i - 1) :
                /\ j \in DOMAIN Catalog[id].capabilities
                /\ Catalog[id].capabilities[j].spec # NoScope
                /\ Readable(Catalog[id].capabilities[j].spec)
                /\ Catalog[id].capabilities[j].spec.scope # s.scope
<1> DEFINE t  == Catalog[id]
           cs == t.capabilities
<1>1. cs \in Seq(Capability)
  BY ContractAssumption DEF TemplateInfo
<1>2. DOMAIN cs = 1..Len(cs) /\ Len(cs) \in Nat
  BY <1>1
<1>3. ASSUME NEW j \in 1..(i - 1)
      PROVE  j \in DOMAIN cs /\ cs[j].spec # NoScope /\ Readable(cs[j].spec)
  <2>1. j \in DOMAIN cs
    BY <1>2
  <2>2. CapabilityMatches(cs[j], s) = "no"
    OBVIOUS
  <2> QED
    BY <2>1, <2>2 DEF CapabilityMatches
<1>4. /\ cs[i].spec # NoScope
      /\ s.scope \in {"unknown", FromProto(cs[i].spec).scope}
  BY SaysYes
<1>5. cs[i].spec.scope = s.scope
  BY <1>4, NoUnknownScope DEF FromProto
<1>6. i \in DeclaringScope(t, s.scope)
  BY <1>3, <1>4, <1>5 DEF DeclaringScope
<1>7. DeclaringScope(t, s.scope) = {i}
  BY <1>6 DEF DeclaresOnce
<1>8. ASSUME NEW j \in 1..(i - 1) PROVE cs[j].spec.scope # s.scope
  <2> SUFFICES ASSUME cs[j].spec.scope = s.scope PROVE FALSE
    OBVIOUS
  <2>1. \A k \in 1..(j - 1) : k \in 1..(i - 1)
    BY <1>2
  <2>2. j \in DeclaringScope(t, s.scope)
    BY <1>3, <2>1 DEF DeclaringScope
  <2> QED
    BY <1>2, <1>7, <2>2
<1>9. ScopeSpecFor(t, s.scope) = {FromProto(cs[i].spec)}
  BY <1>2, <1>7 DEF ScopeSpecFor
<1> QED
  BY <1>3, <1>8, <1>9

(* Of a prehashed scope the list resolved is within that of the capability. *)
LEMMA ResolvedByTheDeclaring ==
    ASSUME NEW s \in Specification, s.scope \in CoreScopes, NEW t, NEW got,
           IsPrehashed(s.scope),
           ScopeSpecFor(t, s.scope) = {got},
           NEW r \in ResolveDigestHashes(t, s)
    PROVE  /\ AcceptedDigestHashes(got) # <<>>
           /\ r = WithAcceptedDigestHashes(s, AcceptedDigestHashes(r))
           /\ AcceptedDigestHashes(r) # <<>>
           /\ \A i \in DOMAIN AcceptedDigestHashes(r) :
                 Contains(AcceptedDigestHashes(got), AcceptedDigestHashes(r)[i])
<1> DEFINE requested == AcceptedDigestHashes(s)
           list      == IF requested = <<>> THEN AcceptedDigestHashes(got) ELSE requested
<1>1. /\ AcceptedDigestHashes(got) # <<>>
      /\ \A i \in DOMAIN requested : Contains(AcceptedDigestHashes(got), requested[i])
      /\ r = WithAcceptedDigestHashes(s, list)
  BY DEF ResolveDigestHashes
<1>2. AcceptedDigestHashes(r) = list
  <2>1. s = [s EXCEPT !.props = s.props]
    BY DEF Specification
  <2>2. r.props = [of |-> "signature", flags |-> IF s.props.of = "signature" THEN s.props.flags ELSE {},
                   hashes |-> list]
    BY <1>1, <2>1 DEF WithAcceptedDigestHashes, Specification
  <2> QED
    BY <2>2 DEF AcceptedDigestHashes
<1>3. \A i \in DOMAIN list : Contains(AcceptedDigestHashes(got), list[i])
  BY <1>1 DEF Contains
<1> QED
  BY <1>1, <1>2, <1>3

(* The capability that answered the request answers what was stored of it.  *)
LEMMA AnswersAgain ==
    ASSUME NEW s \in Specification, s.scope \in CoreScopes, NEW c, NEW t, NEW r, NEW w,
           CapabilityMatches(c, s) = "yes",
           IsPrehashed(s.scope) => ScopeSpecFor(t, s.scope) = {FromProto(c.spec)},
           r \in ResolveDigestHashes(t, s),
           r \in Specification, r.scope = s.scope,
           w = FromProto(ToProto(r))
    PROVE  CapabilityMatches(c, w) = "yes"
<1> DEFINE got == FromProto(c.spec)
<1>1. /\ c.spec # NoScope
      /\ Readable(c.spec)
      /\ s.scope \in {"unknown", got.scope}
      /\ SecurityPropertiesMatch(s.security, got.security)
      /\ NoProps \in {s.props, got.props} \/ s.props.of = got.props.of
      /\ PrimitivePropertiesMatch(s.props, got.props)
      /\ s.additional \subseteq got.additional
  BY SaysYes
<1>2. /\ w.scope = s.scope
      /\ w.security = r.security
      /\ w.additional = r.additional
      /\ \/ w.props = NoProps
         \/ /\ r.props.of = GetPrimitive(s.scope)
            /\ w.props = [of |-> r.props.of, flags |-> r.props.flags, hashes |-> r.props.hashes]
  BY ReadBack
<1> HIDE DEF got
<1>3. r.security = s.security /\ r.additional = s.additional
  <2>1. CASE ~IsPrehashed(s.scope)
    BY <2>1 DEF ResolveDigestHashes
  <2>2. CASE IsPrehashed(s.scope)
    <3>1. r = WithAcceptedDigestHashes(s, AcceptedDigestHashes(r))
      BY <2>2, ResolvedByTheDeclaring
    <3>2. \A hashes : LET u == WithAcceptedDigestHashes(s, hashes)
                     IN u.security = s.security /\ u.additional = s.additional
      BY DEF WithAcceptedDigestHashes, Specification
    <3> QED
      BY <3>1, <3>2
  <2> QED
    BY <2>1, <2>2
<1>4. /\ NoProps \in {w.props, got.props} \/ w.props.of = got.props.of
      /\ PrimitivePropertiesMatch(w.props, got.props)
  <2>1. CASE w.props = NoProps
    BY <2>1 DEF PrimitivePropertiesMatch
  <2>2. CASE w.props # NoProps /\ ~IsPrehashed(s.scope)
    <3>1. r = s
      BY <2>2 DEF ResolveDigestHashes
    <3>2. /\ s.props.of = GetPrimitive(s.scope)
          /\ w.props.of = s.props.of
          /\ w.props.flags = s.props.flags
          /\ w.props.hashes = s.props.hashes
      BY <1>2, <2>2, <3>1
    <3>3. s.props # NoProps
      BY <3>2, PrimitiveOfScope, NoneIsNoPrimitive DEF NoProps
    <3> QED
      BY <1>1, <3>2, <3>3 DEF PrimitivePropertiesMatch
  <2>3. CASE w.props # NoProps /\ IsPrehashed(s.scope)
    <3>1. /\ AcceptedDigestHashes(got) # <<>>
          /\ r = WithAcceptedDigestHashes(s, AcceptedDigestHashes(r))
          /\ \A i \in DOMAIN AcceptedDigestHashes(r) :
                Contains(AcceptedDigestHashes(got), AcceptedDigestHashes(r)[i])
      BY <2>3, ResolvedByTheDeclaring DEF got
    <3>2. r.props = [of |-> "signature",
                     flags |-> IF s.props.of = "signature" THEN s.props.flags ELSE {},
                     hashes |-> AcceptedDigestHashes(r)]
      BY <3>1 DEF WithAcceptedDigestHashes, Specification
    <3>3. /\ w.props.of = "signature"
          /\ w.props.flags = IF s.props.of = "signature" THEN s.props.flags ELSE {}
          /\ w.props.hashes = AcceptedDigestHashes(r)
      BY <1>2, <2>3, <3>2
    <3>4. got.props.of = "signature" /\ got.props.hashes = AcceptedDigestHashes(got)
      BY <3>1 DEF AcceptedDigestHashes
    <3>5. got.props # NoProps
      BY <3>4 DEF NoProps
    <3>6. w.props.flags \subseteq got.props.flags
      <4>1. CASE s.props.of = "signature"
        BY <1>1, <3>3, <4>1 DEF PrimitivePropertiesMatch, NoProps
      <4>2. CASE s.props.of # "signature"
        BY <3>3, <4>2
      <4> QED
        BY <4>1, <4>2
    <3>7. \A i \in DOMAIN w.props.hashes :
             \E j \in DOMAIN got.props.hashes : got.props.hashes[j] = w.props.hashes[i]
      BY <3>1, <3>3, <3>4 DEF Contains
    <3> QED
      BY <3>3, <3>4, <3>5, <3>6, <3>7 DEF PrimitivePropertiesMatch
  <2> QED
    BY <2>1, <2>2, <2>3
<1> QED
  BY <1>1, <1>2, <1>3, <1>4, SaysYes DEF got

(* What was resolved is resolved to the same again. *)
LEMMA ResolvesAgain ==
    ASSUME NEW s \in Specification, s.scope \in CoreScopes, NEW t, NEW got,
           ScopeSpecFor(t, s.scope) = {got},
           RequestedHashesFit(s),
           NEW r \in ResolveDigestHashes(t, s), r \in Specification, r.scope = s.scope
    PROVE  ResolvedAlike(t, ToProto(r))
<1> PICK w : w = FromProto(ToProto(r))
  OBVIOUS
<1>0. w.scope = s.scope
  BY ReadBack
<1> SUFFICES /\ RequestedHashesFit(w)
             /\ \E again \in ResolveDigestHashes(t, w) : ToProto(again) = ToProto(r)
  BY DEF ResolvedAlike
<1>1. CASE ~IsPrehashed(s.scope)
  <2>1. r = s
    BY <1>1 DEF ResolveDigestHashes
  <2>2. AcceptedDigestHashes(w) = <<>>
    <3>1. AcceptedDigestHashes(s) = <<>>
      BY <1>1 DEF RequestedHashesFit
    <3>2. \/ w.props = NoProps
          \/ w.props.of = s.props.of /\ w.props.hashes = s.props.hashes
      <4>1. r \in Specification /\ r.scope \in CoreScopes
        OBVIOUS
      <4>2. \/ w.props = NoProps
            \/ w.props = [of |-> r.props.of, flags |-> r.props.flags, hashes |-> r.props.hashes]
        BY <4>1, ReadBack
      <4> QED
        BY <2>1, <4>2
    <3>3. CASE w.props = NoProps
      BY <3>3 DEF AcceptedDigestHashes, NoProps
    <3>4. CASE w.props.of = s.props.of /\ w.props.hashes = s.props.hashes
      BY <3>1, <3>4 DEF AcceptedDigestHashes
    <3> QED
      BY <3>2, <3>3, <3>4
  <2>3. w \in ResolveDigestHashes(t, w)
    BY <1>0, <1>1 DEF ResolveDigestHashes
  <2>4. ToProto(w) = ToProto(r)
    BY StoredFormIsStable
  <2> QED
    BY <2>2, <2>3, <2>4 DEF RequestedHashesFit
<1>2. CASE IsPrehashed(s.scope)
  <2> DEFINE list == AcceptedDigestHashes(r)
  <2>1. /\ AcceptedDigestHashes(got) # <<>>
        /\ list # <<>>
        /\ \A i \in DOMAIN list : Contains(AcceptedDigestHashes(got), list[i])
    BY <1>2, ResolvedByTheDeclaring
  <2>2. AcceptedDigestHashes(w) = list
    BY <1>2, <2>1, StoredListReadBack
  <2> DEFINE again == WithAcceptedDigestHashes(w, list)
  <2>3. again \in ResolveDigestHashes(t, w)
    BY <1>0, <1>2, <2>1, <2>2 DEF ResolveDigestHashes
  <2>4. again = w
    <3>1. w.props # NoProps
      BY <2>1, <2>2 DEF AcceptedDigestHashes, NoProps
    <3>2. w.props.of = "signature" /\ w.props.hashes = list
      BY <2>1, <2>2 DEF AcceptedDigestHashes
    <3>3. w.props = [of |-> "signature", flags |-> w.props.flags, hashes |-> list]
      <4>1. w.props = [of |-> r.props.of, flags |-> r.props.flags, hashes |-> r.props.hashes]
        BY <3>1, ReadBack
      <4> QED
        BY <3>2, <4>1
    <3>4. w = [scope |-> w.scope, security |-> w.security, props |-> w.props,
               additional |-> w.additional]
      BY DEF FromProto
    <3> QED
      BY <3>2, <3>3, <3>4 DEF WithAcceptedDigestHashes
  <2>5. ToProto(w) = ToProto(r)
    BY StoredFormIsStable
  <2> QED
    BY <1>0, <1>2, <2>3, <2>4, <2>5 DEF RequestedHashesFit
<1> QED
  BY <1>1, <1>2

LEMMA StoredIsReaskable ==
    ASSUME NEW id \in TemplateIds, NEW s \in Specification, s.scope \in CoreScopes,
           RequestedHashesFit(s), MatchesScope(Catalog[id], s) = "yes",
           NEW r \in ResolveDigestHashes(Catalog[id], s)
    PROVE  Reaskable(id, ToProto(r))
<1> DEFINE t  == Catalog[id]
           cs == t.capabilities
           w  == FromProto(ToProto(r))
<1>1. r \in Specification /\ r.scope = s.scope
  BY ResolvedFits
<1>2. w.scope = s.scope
  BY <1>1, ReadBack
<1> SUFFICES ASSUME DeclaresOnce(t, s.scope)
             PROVE  MatchesScope(t, w) = "yes" /\ ResolvedAlike(t, ToProto(r))
  BY <1>2 DEF Reaskable
<1>3. PICK i \in DOMAIN cs :
         /\ CapabilityMatches(cs[i], s) = "yes"
         /\ \A j \in 1..(i - 1) : CapabilityMatches(cs[j], s) = "no"
  BY FirstAnswer
<1>4. /\ ScopeSpecFor(t, s.scope) = {FromProto(cs[i].spec)}
      /\ \A j \in 1..(i - 1) :
            cs[j].spec # NoScope /\ Readable(cs[j].spec) /\ cs[j].spec.scope # s.scope
  BY <1>3, AnsweredByTheDeclaring
<1>5. ResolvedAlike(t, ToProto(r))
  <2>1. PICK got : ScopeSpecFor(t, s.scope) = {got}
    BY <1>4
  <2> QED
    BY <1>1, <2>1, ResolvesAgain
<1>6. CapabilityMatches(cs[i], w) = "yes"
  BY <1>1, <1>3, <1>4, AnswersAgain
<1> HIDE DEF w
<1>7. ASSUME NEW j \in 1..(i - 1) PROVE CapabilityMatches(cs[j], w) = "no"
  <2>1. cs[j].spec # NoScope /\ Readable(cs[j].spec) /\ cs[j].spec.scope # w.scope
    BY <1>2, <1>4
  <2>2. FromProto(cs[j].spec).scope = cs[j].spec.scope
    BY DEF FromProto
  <2>3. w.scope # "unknown"
    BY <1>2, NoUnknownScope
  <2> QED
    BY <2>1, <2>2, <2>3 DEF CapabilityMatches
<1>8. MatchesScope(t, w) = "yes"
  BY <1>6, <1>7, FirstDecides
<1> QED
  BY <1>5, <1>8

-----------------------------------------------------------------------------
(* The inductive invariant. *)

CatalogInv ==
    /\ edition \in Editions
    /\ loading \subseteq edition.entries
    /\ loaded \in {"loading", "ok", "failed"}
    /\ registered \subseteq edition.entries
    /\ \A id \in registered : Vetted(id)
    /\ loaded = "loading" => edition.entries \subseteq loading \union registered
    /\ loaded = "ok" => registered = edition.entries

(* What is stored of a version was resolved for its template, and its       *)
(* material is of its template's kind.                                      *)
Resolved(v) ==
    \E s \in Specification :
        /\ s.scope \in CoreScopes
        /\ v.stored = ToProto(s)
        /\ IsPrehashed(s.scope) =>
              /\ AcceptedDigestHashes(s) # <<>>
              /\ Offered(v.template, s.scope, AcceptedDigestHashes(s))
              /\ v.named # <<>> => AcceptedDigestHashes(s) = v.named

SameMaterial(v) ==
    LET made == KeyMaterialProfileFor(Catalog[v.generated]) IN
    v.template # v.generated =>
        made # NoProfile /\ KeyMaterialProfileFor(Catalog[v.template]) = made

VersionOK(v) ==
    /\ v \in Version
    /\ Vetted(v.template)
    /\ Resolved(v)
    /\ SameMaterial(v)
    /\ Reaskable(v.template, v.stored)

VersionsInv ==
    /\ versions \in Seq(Version)
    /\ Len(versions) <= MaxVersions
    /\ \A i \in DOMAIN versions : VersionOK(versions[i])

SignaturesInv ==
    /\ signatures \subseteq Signature
    /\ \A g \in signatures :
         /\ g.version \in DOMAIN versions
         /\ ValidateDigestHash(versions[g.version], g.hash) = "ok"
         /\ g.vendor \/ g.scope = FromProto(versions[g.version].stored).scope

ContractInv == CatalogInv /\ VersionsInv /\ SignaturesInv

LEMMA InitContract == Init => ContractInv
  BY ContractAssumption
     DEF Init, ContractInv, CatalogInv, VersionsInv, SignaturesInv

LEMMA EntriesAreTemplates == \A e \in Editions : e.entries \subseteq TemplateIds
  BY ContractAssumption

LEMMA LoadKeepsCatalog ==
    ASSUME CatalogInv, Load
    PROVE  CatalogInv'
<1>1. ASSUME NEW id \in TemplateIds, LoadEntry(id) PROVE CatalogInv'
  <2>1. edition' = edition /\ id \in loading /\ loading' = loading \ {id} /\ loaded = "loading"
    BY <1>1 DEF LoadEntry
  <2>2. CASE Vetted(id) /\ registered' = registered \union {id} /\ loaded' = "loading"
    BY <2>1, <2>2 DEF CatalogInv, Vetted
  <2>3. CASE registered' = registered /\ loaded' = "failed"
    BY <2>1, <2>3 DEF CatalogInv, Vetted
  <2> QED
    BY <1>1, <2>2, <2>3 DEF LoadEntry
<1>2. CASE LoadError
  BY <1>2 DEF LoadError, CatalogInv, Vetted
<1>3. CASE LoadDone
  BY <1>3 DEF LoadDone, CatalogInv, Vetted
<1> QED
  BY <1>1, <1>2, <1>3 DEF Load

LEMMA RestartKeepsCatalog ==
    ASSUME CatalogInv, NEW e \in Editions, Restart(e)
    PROVE  CatalogInv'
  BY DEF Restart, CatalogInv, Vetted

(* A version made for a request by a template that is registered. *)
LEMMA NewVersionOK ==
    ASSUME CatalogInv, NEW id \in registered, NEW s \in Specification, s.scope \in CoreScopes,
           RequestedHashesFit(s), MatchesScope(Catalog[id], s) = "yes",
           NEW r \in ResolveDigestHashes(Catalog[id], s), NEW made \in TemplateIds,
           NEW v,
           v = [template |-> id, stored |-> ToProto(r),
                named |-> AcceptedDigestHashes(s), generated |-> made],
           SameMaterial(v)
    PROVE  VersionOK(v)
<1>1. id \in TemplateIds /\ Vetted(id)
  BY EntriesAreTemplates DEF CatalogInv
<1>2. /\ r \in Specification
      /\ r.scope = s.scope
      /\ IsPrehashed(r.scope) =>
           /\ AcceptedDigestHashes(r) # <<>>
           /\ Offered(id, r.scope, AcceptedDigestHashes(r))
           /\ AcceptedDigestHashes(s) # <<>> => AcceptedDigestHashes(r) = AcceptedDigestHashes(s)
  BY <1>1, ResolvedFits
<1>3. ToProto(r) \in ProtoSpecification
  BY <1>2, ProtoTyped
<1>4. v \in Version
  BY <1>1, <1>3, PropsTyped DEF Version
<1>5. Resolved(v)
  BY <1>2 DEF Resolved
<1>6. Reaskable(id, ToProto(r))
  BY <1>1, StoredIsReaskable
<1> QED
  BY <1>1, <1>4, <1>5, <1>6 DEF VersionOK

(* Adding a version disturbs neither the versions before it nor what was    *)
(* signed with them.                                                        *)
LEMMA AddVersion ==
    ASSUME VersionsInv, SignaturesInv, NEW v, VersionOK(v), Len(versions) < MaxVersions,
           versions' = Append(versions, v), UNCHANGED signatures
    PROVE  VersionsInv' /\ SignaturesInv'
<1>1. /\ DOMAIN versions = 1..Len(versions)
      /\ Len(versions) \in Nat
      /\ MaxVersions \in Nat
  BY ContractAssumption DEF VersionsInv
<1>2. v \in Version
  BY DEF VersionOK
<1>3. /\ versions' \in Seq(Version)
      /\ Len(versions') = Len(versions) + 1
      /\ DOMAIN versions' = 1..(Len(versions) + 1)
      /\ \A i \in 1..Len(versions) : versions'[i] = versions[i]
      /\ versions'[Len(versions) + 1] = v
  BY <1>1, <1>2 DEF VersionsInv
<1>4. \A i \in DOMAIN versions' : VersionOK(versions'[i])
  <2> TAKE i \in DOMAIN versions'
  <2>1. CASE i \in 1..Len(versions)
    BY <2>1, <1>1, <1>3 DEF VersionsInv
  <2>2. CASE i = Len(versions) + 1
    BY <2>2, <1>3
  <2>3. i \in 1..Len(versions) \/ i = Len(versions) + 1
    BY <1>1, <1>3
  <2> QED
    BY <2>1, <2>2, <2>3
<1>5. (\A i \in DOMAIN versions : VersionOK(versions[i]))'
  BY <1>4 DEF VersionOK, Vetted, Resolved, SameMaterial, Reaskable
<1>6. VersionsInv'
  BY <1>1, <1>3, <1>5 DEF VersionsInv
<1>7. SignaturesInv'
  BY <1>1, <1>3 DEF SignaturesInv
<1> QED
  BY <1>6, <1>7

LEMMA LastOK ==
    ASSUME VersionsInv, Len(versions) \in 1..(MaxVersions - 1)
    PROVE  /\ VersionOK(Last)
           /\ Len(versions) < MaxVersions
           /\ ScopeOfKey \in CoreScopes
<1>1. Len(versions) \in DOMAIN versions
  BY DEF VersionsInv
<1>2. VersionOK(Last)
  BY <1>1 DEF VersionsInv, Last
<1>3. PICK s \in Specification : s.scope \in CoreScopes /\ Last.stored = ToProto(s)
  BY <1>2 DEF VersionOK, Resolved
<1>4. ScopeOfKey = s.scope
  BY <1>3, ProtoTyped DEF ScopeOfKey, FromProto
<1>5. Len(versions) < MaxVersions
  BY ContractAssumption DEF VersionsInv
<1> QED
  BY <1>2, <1>3, <1>4, <1>5

LEMMA CreateKeepsInv ==
    ASSUME ContractInv, NEW spec \in Asked, NEW named \in Named, CreateKey(spec, named)
    PROVE  ContractInv'
<1>1. spec \in Specification /\ spec.scope \in CoreScopes
  BY ContractAssumption DEF CreateKey, Specification
<1>2a. PICK id \in Picked(named, spec) :
         \E r \in ResolveDigestHashes(Catalog[id], spec) :
            versions' = <<[template |-> id, stored |-> ToProto(r),
                           named |-> AcceptedDigestHashes(spec), generated |-> id]>>
  BY DEF CreateKey
<1>2. PICK r \in ResolveDigestHashes(Catalog[id], spec) :
         versions' = <<[template |-> id, stored |-> ToProto(r),
                        named |-> AcceptedDigestHashes(spec), generated |-> id]>>
  BY <1>2a
<1> DEFINE v == [template |-> id, stored |-> ToProto(r),
                 named |-> AcceptedDigestHashes(spec), generated |-> id]
<1>3. id \in registered /\ id \in TemplateIds
  BY EntriesAreTemplates DEF Picked, Selectable, ContractInv, CatalogInv
<1>3a. RequestedHashesFit(spec) /\ MatchesScope(Catalog[id], spec) = "yes"
  BY DEF Picked, Selectable
<1>4. SameMaterial(v)
  BY DEF SameMaterial
<1>5. VersionOK(v)
  BY <1>1, <1>3, <1>3a, <1>4, NewVersionOK DEF ContractInv
<1>6. versions = <<>> /\ Len(versions) = 0 /\ 0 < MaxVersions
  BY ContractAssumption DEF CreateKey
<1>7. versions' = Append(versions, v)
  BY <1>2, <1>6
<1>8. VersionsInv' /\ SignaturesInv'
  <2> HIDE DEF v
  <2> QED
    BY <1>5, <1>6, <1>7, AddVersion DEF ContractInv, CreateKey
<1>9. CatalogInv'
  BY DEF CreateKey, ContractInv, CatalogInv, Vetted
<1> QED
  BY <1>8, <1>9 DEF ContractInv

LEMMA TransformKeepsInv ==
    ASSUME ContractInv, NEW spec \in Asked, NEW named \in Named, NEW retain \in BOOLEAN,
           TransformKey(spec, named, retain)
    PROVE  ContractInv'
<1>1. /\ VersionOK(Last)
      /\ Len(versions) < MaxVersions
      /\ spec \in Specification
      /\ spec.scope \in CoreScopes
  BY ContractAssumption, LastOK DEF TransformKey, ContractInv
<1>2a. PICK id \in Picked(named, spec) :
         /\ retain => CompatibleKeyMaterial(Catalog[Last.template], Catalog[id])
         /\ \E r \in ResolveDigestHashes(Catalog[id], spec) :
              versions' = Append(versions,
                 [template |-> id, stored |-> ToProto(r), named |-> AcceptedDigestHashes(spec),
                  generated |-> IF retain THEN Last.generated ELSE id])
  BY DEF TransformKey
<1>2. PICK r \in ResolveDigestHashes(Catalog[id], spec) :
         /\ retain => CompatibleKeyMaterial(Catalog[Last.template], Catalog[id])
         /\ versions' = Append(versions,
                [template |-> id, stored |-> ToProto(r), named |-> AcceptedDigestHashes(spec),
                 generated |-> IF retain THEN Last.generated ELSE id])
  BY <1>2a
<1> DEFINE made == IF retain THEN Last.generated ELSE id
           v    == [template |-> id, stored |-> ToProto(r),
                    named |-> AcceptedDigestHashes(spec), generated |-> made]
<1>3. id \in registered /\ id \in TemplateIds /\ made \in TemplateIds
  BY <1>1, EntriesAreTemplates
     DEF Picked, Selectable, ContractInv, CatalogInv, VersionOK, Version
<1>3a. RequestedHashesFit(spec) /\ MatchesScope(Catalog[id], spec) = "yes"
  BY DEF Picked, Selectable
<1>4. SameMaterial(v)
  <2>1. CASE ~retain
    BY <2>1 DEF SameMaterial
  <2>2. CASE retain
    <3>1. /\ KeyMaterialProfileFor(Catalog[Last.template]) # NoProfile
          /\ KeyMaterialProfileFor(Catalog[Last.template]) = KeyMaterialProfileFor(Catalog[id])
      BY <1>2, <2>2 DEF CompatibleKeyMaterial
    <3>2. KeyMaterialProfileFor(Catalog[Last.generated]) = KeyMaterialProfileFor(Catalog[Last.template])
      BY <1>1 DEF VersionOK, SameMaterial
    <3>3. v.template = id /\ v.generated = Last.generated
      BY <2>2
    <3> HIDE DEF v
    <3> QED
      BY <3>1, <3>2, <3>3 DEF SameMaterial
  <2> QED
    BY <2>1, <2>2
<1>5. VersionOK(v)
  BY <1>1, <1>3, <1>3a, <1>4, NewVersionOK DEF ContractInv
<1>6. VersionsInv' /\ SignaturesInv'
  <2>1. versions' = Append(versions, v)
    BY <1>2
  <2> HIDE DEF v
  <2> QED
    BY <1>1, <1>5, <2>1, AddVersion DEF ContractInv, TransformKey
<1>7. CatalogInv'
  BY DEF TransformKey, ContractInv, CatalogInv, Vetted
<1> QED
  BY <1>6, <1>7 DEF ContractInv

LEMMA MigrateKeepsInv ==
    ASSUME ContractInv, NEW rekey \in BOOLEAN, MigrateKey(rekey)
    PROVE  ContractInv'
<1>1. VersionOK(Last) /\ Len(versions) < MaxVersions
  BY LastOK DEF MigrateKey, ContractInv
<1> DEFINE v == [Last EXCEPT !.stored    = ToProto(FromProto(@)),
                             !.generated = IF rekey THEN Last.template ELSE @]
<1>2. Last \in Version
  BY <1>1 DEF VersionOK
<1>3. ToProto(FromProto(Last.stored)) = Last.stored
  BY <1>1, StoredFormIsStable DEF VersionOK, Resolved
<1>4. /\ v.template = Last.template
      /\ v.stored = Last.stored
      /\ v.named = Last.named
      /\ v.generated = IF rekey THEN Last.template ELSE Last.generated
      /\ v \in Version
  BY <1>2, <1>3 DEF Version
<1>5. versions' = Append(versions, v)
  BY DEF MigrateKey
<1> HIDE DEF v
<1>6. Resolved(v)
  BY <1>1, <1>4 DEF VersionOK, Resolved
<1>7. SameMaterial(v)
  BY <1>1, <1>4 DEF VersionOK, SameMaterial
<1>8. VersionOK(v)
  BY <1>1, <1>4, <1>6, <1>7 DEF VersionOK
<1>9. VersionsInv' /\ SignaturesInv'
  BY <1>1, <1>5, <1>8, AddVersion DEF ContractInv, MigrateKey
<1>10. CatalogInv'
  BY DEF MigrateKey, ContractInv, CatalogInv, Vetted
<1> QED
  BY <1>9, <1>10 DEF ContractInv

LEMMA SignKeepsInv ==
    ASSUME ContractInv, NEW scope \in CoreScopes, NEW vendor \in BOOLEAN, NEW hash \in Hashes,
           DigestSign(scope, vendor, hash)
    PROVE  ContractInv'
<1> DEFINE g == [version |-> Len(versions), hash |-> hash, scope |-> scope, vendor |-> vendor]
<1>1. Len(versions) \in Nat /\ Len(versions) \in DOMAIN versions
  BY DEF ContractInv, VersionsInv, DigestSign
<1>2. /\ ValidateDigestHash(versions[Len(versions)], hash) = "ok"
      /\ vendor \/ scope = FromProto(versions[Len(versions)].stored).scope
  BY DEF DigestSign, DigestRequestFits, Last
<1>3. signatures' = signatures \union {g} /\ UNCHANGED <<versions, catalogVars>>
  BY DEF DigestSign, catalogVars
<1>4. SignaturesInv'
  BY <1>1, <1>2, <1>3 DEF ContractInv, SignaturesInv, Signature
<1> QED
  BY <1>3, <1>4 DEF ContractInv, CatalogInv, VersionsInv, VersionOK, Resolved, SameMaterial,
                    Vetted, catalogVars

LEMMA NextKeepsContract == ContractInv /\ [Next]_vars => ContractInv'
<1> SUFFICES ASSUME ContractInv, [Next]_vars PROVE ContractInv'
  OBVIOUS
<1>1. ASSUME UNCHANGED <<versions, signatures>>, CatalogInv' PROVE ContractInv'
  BY <1>1 DEF ContractInv, VersionsInv, SignaturesInv
<1>2. CASE Load
  <2>1. UNCHANGED <<versions, signatures>>
    BY <1>2 DEF Load, LoadEntry, LoadError, LoadDone
  <2> QED
    BY <1>1, <1>2, <2>1, LoadKeepsCatalog DEF ContractInv
<1>3. ASSUME NEW e \in Editions, Restart(e) PROVE ContractInv'
  BY <1>1, <1>3, RestartKeepsCatalog DEF ContractInv, Restart
<1>4. CASE Request
  <2>1. ASSUME NEW spec \in Asked, NEW named \in Named, CreateKey(spec, named)
        PROVE  ContractInv'
    BY <2>1, CreateKeepsInv
  <2>2. ASSUME NEW spec \in Asked, NEW named \in Named, NEW retain \in BOOLEAN,
               TransformKey(spec, named, retain)
        PROVE  ContractInv'
    BY <2>2, TransformKeepsInv
  <2>3. ASSUME NEW rekey \in BOOLEAN, MigrateKey(rekey) PROVE ContractInv'
    BY <2>3, MigrateKeepsInv
  <2>4. CASE DeleteKey
    <3>1. VersionsInv' /\ SignaturesInv'
      BY <2>4, ContractAssumption DEF DeleteKey, VersionsInv, SignaturesInv
    <3>2. CatalogInv'
      BY <2>4 DEF DeleteKey, catalogVars, ContractInv, CatalogInv, Vetted
    <3> QED
      BY <3>1, <3>2 DEF ContractInv
  <2>5. ASSUME NEW scope \in {"signature_prehashed", "signature_prehashed_with_context"},
               NEW vendor \in BOOLEAN, NEW hash \in Hashes,
               DigestSign(scope, vendor, hash)
        PROVE  ContractInv'
    <3>1. scope \in CoreScopes
      BY PrehashedIsSignature DEF IsPrehashed
    <3> QED
      BY <2>5, <3>1, SignKeepsInv
  <2> QED
    BY <1>4, <2>1, <2>2, <2>3, <2>4, <2>5 DEF Request
<1>5. CASE UNCHANGED vars
  BY <1>1, <1>5 DEF vars, ContractInv, CatalogInv
<1> QED
  BY <1>2, <1>3, <1>4, <1>5 DEF Next

LEMMA ContractInvariant == Spec => []ContractInv
  BY InitContract, NextKeepsContract, PTL DEF Spec

-----------------------------------------------------------------------------
(* The theorems. *)

(* Types.                                                                   *)
THEOREM ContractTyped == Spec => []TypeOK
<1>1. ContractInv => TypeOK
  BY DEF ContractInv, CatalogInv, VersionsInv, SignaturesInv, TypeOK
<1> QED
  BY <1>1, ContractInvariant, PTL

(* A load that succeeds has registered the whole catalog, and nothing is    *)
(* reachable that LoadStandardCatalog has not vetted, after any number of   *)
(* restarts with other catalogs and for the versions made before them.      *)
THEOREM LoaderIsTheChokePoint == Spec => []SingleChokePoint
<1>1. ContractInv => SingleChokePoint
  BY DEF ContractInv, CatalogInv, VersionsInv, VersionOK, SingleChokePoint
<1> QED
  BY <1>1, ContractInvariant, PTL

(* No digest request ever finds a version without the hash list it must     *)
(* have (validateDigestHash's internal error is unreachable).               *)
THEOREM VersionsNeverCorrupt == Spec => []NeverCorrupt
<1>1. ContractInv => NeverCorrupt
  <2> SUFFICES ASSUME ContractInv, NEW i \in DOMAIN versions, NEW h \in Hashes
               PROVE  ValidateDigestHash(versions[i], h) # "corrupt"
    BY DEF NeverCorrupt
  <2>1. PICK s \in Specification :
           /\ s.scope \in CoreScopes
           /\ versions[i].stored = ToProto(s)
           /\ IsPrehashed(s.scope) => AcceptedDigestHashes(s) # <<>>
    BY DEF ContractInv, VersionsInv, VersionOK, Resolved
  <2>2. FromProto(versions[i].stored).scope = s.scope
    BY <2>1, ProtoTyped DEF FromProto
  <2>3. CASE IsPrehashed(s.scope)
    <3>1. AcceptedDigestHashes(FromProto(versions[i].stored)) # <<>>
      BY <2>1, <2>3, StoredListReadBack
    <3> QED
      BY <3>1 DEF ValidateDigestHash
  <2>4. CASE ~IsPrehashed(s.scope)
    BY <2>2, <2>4 DEF ValidateDigestHash
  <2> QED
    BY <2>3, <2>4
<1> QED
  BY <1>1, ContractInvariant, PTL

(* Whatever chain of transforms and migrations led to a version, a digest   *)
(* was signed with it only under a hash its template offers for the scope   *)
(* and its own request, if it named any, named.                             *)
THEOREM DigestsWithinTheOffer == Spec => []SignedWithinTheOffer
<1>1. ContractInv => SignedWithinTheOffer
  <2> SUFFICES ASSUME ContractInv, NEW g \in signatures
               PROVE  LET v        == versions[g.version]
                          declared == ScopeSpecFor(Catalog[v.template], v.stored.scope)
                      IN /\ \A d \in declared : Contains(AcceptedDigestHashes(d), g.hash)
                         /\ v.named # <<>> => Contains(v.named, g.hash)
    BY DEF SignedWithinTheOffer
  <2> DEFINE v == versions[g.version]
  <2>1. VersionOK(v) /\ ValidateDigestHash(v, g.hash) = "ok"
    BY DEF ContractInv, VersionsInv, SignaturesInv
  <2>2. PICK s \in Specification :
           /\ s.scope \in CoreScopes
           /\ v.stored = ToProto(s)
           /\ IsPrehashed(s.scope) =>
                 /\ AcceptedDigestHashes(s) # <<>>
                 /\ Offered(v.template, s.scope, AcceptedDigestHashes(s))
                 /\ v.named # <<>> => AcceptedDigestHashes(s) = v.named
    BY <2>1 DEF VersionOK, Resolved
  <2> HIDE DEF v
  <2>3. v.stored.scope = s.scope /\ FromProto(v.stored).scope = s.scope
    BY <2>2, ProtoTyped DEF FromProto
  <2>4. IsPrehashed(s.scope)
    BY <2>1, <2>3 DEF ValidateDigestHash
  <2>5. AcceptedDigestHashes(FromProto(v.stored)) = AcceptedDigestHashes(s)
    BY <2>2, <2>4, StoredListReadBack
  <2>6. Contains(AcceptedDigestHashes(s), g.hash)
    BY <2>1, <2>3, <2>4, <2>5 DEF ValidateDigestHash
  <2>7. \A d \in ScopeSpecFor(Catalog[v.template], s.scope) :
           Contains(AcceptedDigestHashes(d), g.hash)
    BY <2>2, <2>4, <2>6 DEF Offered, Contains
  <2>8. v.named # <<>> => Contains(v.named, g.hash)
    BY <2>2, <2>4, <2>6
  <2> QED
    BY <2>3, <2>7, <2>8 DEF v
<1> QED
  BY <1>1, ContractInvariant, PTL

(* Retained material keeps the family and size it was generated with, over  *)
(* any number of transforms.                                                *)
THEOREM RetainedMaterialKeepsItsShape == Spec => []RetainedMaterialFits
<1>1. ContractInv => RetainedMaterialFits
  BY DEF ContractInv, VersionsInv, VersionOK, SameMaterial, RetainedMaterialFits
<1> QED
  BY <1>1, ContractInvariant, PTL

(* What ReadKey reports of a version is accepted by the version's template  *)
(* and stored as it was, if that declares the scope once and is still       *)
(* registered and active.                                                   *)
THEOREM VersionsCanBeAskedAgain == Spec => []ReadBackIsAccepted
<1>1. ContractInv => ReadBackIsAccepted
  <2> SUFFICES ASSUME ContractInv, NEW i \in DOMAIN versions, NEW v, v = versions[i],
                      NEW spec, spec = FromProto(v.stored),
                      v.template \in registered, v.template \notin edition.retired,
                      DeclaresOnce(Catalog[v.template], spec.scope)
               PROVE  /\ RequestedHashesFit(spec)
                      /\ Selectable(v.template, spec)
                      /\ \E again \in ResolveDigestHashes(Catalog[v.template], spec) :
                            ToProto(again) = v.stored
    BY DEF ReadBackIsAccepted
  <2>1. Reaskable(v.template, v.stored)
    BY DEF ContractInv, VersionsInv, VersionOK
  <2>2. MatchesScope(Catalog[v.template], spec) = "yes" /\ ResolvedAlike(Catalog[v.template], v.stored)
    BY <2>1 DEF Reaskable
  <2> QED
    BY <2>2 DEF Selectable, ResolvedAlike
<1> QED
  BY <1>1, ContractInvariant, PTL

(* A digest signature can be verified again, whatever happened to the key   *)
(* since, in every catalog that has the template of the version that signed *)
(* and lets it verify.                                                      *)
THEOREM SignaturesVerifyAgain == Spec => []SignaturesStayVerifiable
<1>1. ContractInv => SignaturesStayVerifiable
  <2> SUFFICES ASSUME ContractInv, NEW g \in signatures, NEW v, v = versions[g.version],
                      SupportsOperation(Catalog[v.template], v.stored.scope, "digest_verify")
               PROVE  DigestRequestFits(v, "digest_verify", g.scope, g.vendor, g.hash)
    BY DEF SignaturesStayVerifiable
  <2>1. /\ ValidateDigestHash(v, g.hash) = "ok"
        /\ g.vendor \/ g.scope = FromProto(v.stored).scope
    BY DEF ContractInv, SignaturesInv
  <2>2. FromProto(v.stored).scope = v.stored.scope
    BY DEF FromProto
  <2> QED
    BY <2>1, <2>2 DEF DigestRequestFits
<1> QED
  BY <1>1, ContractInvariant, PTL

(* Whatever the catalog, a well-formed request meets an internal error of   *)
(* MatchesScope exactly where a capability without a scope precedes the     *)
(* first that matches.                                                      *)
THEOREM RequestsAreComparable == Spec => []ComparableWithAll
<1>1. ContractInv => ComparableWithAll
  <2> SUFFICES ASSUME ContractInv, NEW want \in Asked, WellFormedSpec(want), NEW id \in registered
               PROVE  LET cs == Catalog[id].capabilities IN
                      MatchesScope(Catalog[id], want) = "error"
                      <=> \E i \in DOMAIN cs :
                             /\ cs[i].spec = NoScope
                             /\ \A j \in 1..(i - 1) : CapabilityMatches(cs[j], want) = "no"
    BY DEF ComparableWithAll
  <2> DEFINE cs == Catalog[id].capabilities
  <2>1. id \in TemplateIds /\ Vetted(id)
    BY EntriesAreTemplates DEF ContractInv, CatalogInv
  <2>2. \A i \in DOMAIN cs : CapabilityMatches(cs[i], want) = "error" <=> cs[i].spec = NoScope
    <3> SUFFICES ASSUME NEW i \in DOMAIN cs, cs[i].spec # NoScope,
                        CapabilityMatches(cs[i], want) = "error"
                 PROVE  FALSE
      BY DEF CapabilityMatches
    <3>1. Readable(cs[i].spec)
      BY <2>1 DEF Vetted, ValidateAcceptedDigestHashes
    <3>2. cs[i].spec.arm = GetPrimitive(cs[i].spec.scope)
      BY <2>1, <3>1, CapabilityTyped
    <3> DEFINE got == FromProto(cs[i].spec)
    <3>3. /\ want.scope \in {"unknown", got.scope}
          /\ want.props # NoProps
          /\ got.props # NoProps
          /\ want.props.of # got.props.of
      BY <3>1 DEF CapabilityMatches
    <3>4. want.scope = cs[i].spec.scope
      BY <3>3, NoUnknownScope DEF WellFormedSpec, FromProto
    <3>5. got.props.of = cs[i].spec.arm
      BY <3>3 DEF FromProto, ExtractProps
    <3> QED
      BY <3>2, <3>3, <3>4, <3>5 DEF WellFormedSpec
  <2>3. MatchesScope(Catalog[id], want) = "error"
        <=> \E i \in DOMAIN cs :
               /\ CapabilityMatches(cs[i], want) = "error"
               /\ \A j \in 1..(i - 1) : CapabilityMatches(cs[j], want) = "no"
    BY <2>1, FirstAnswer
  <2> QED
    BY <2>2, <2>3
<1> QED
  BY <1>1, ContractInvariant, PTL

=============================================================================
