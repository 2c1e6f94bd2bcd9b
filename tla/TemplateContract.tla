-------------------------- MODULE TemplateContract --------------------------
(***************************************************************************)
(* The template catalog and what a key's versions store of what was asked  *)
(* of it: template/loader.go, the template half of CreateKey, TransformKey *)
(* and MigrateKey (service/key_orchestrator_impl.go), and the digest       *)
(* operations that read it back (service/crypto_orchestrator_impl.go).     *)
(*                                                                         *)
(* Templates are loaded from the catalog at every start of the server and  *)
(* never stored; versions are stored and survive.  The requests of one key *)
(* are one step each: their interleaving is KeyOrchestrator's subject.     *)
(* An edition has an entry or not and retires it or not; what an id stands *)
(* for is the same in all of them (template/doc.go: "immutable reference   *)
(* data").                                                                 *)
(***************************************************************************)
EXTENDS TemplateMatching

CONSTANTS
    TemplateIds,
    Catalog,         \* the information each id stands for
    Editions,        \* the catalog files a server may start with
    Allowed,         \* the templates the key's policy allows
    Asked,           \* the specifications callers ask for
    MaxVersions,     \* bound on the versions of the key
    MaxSignatures    \* bound on the signatures callers keep

VARIABLES
    edition,       \* the catalog file of this run of the server
    loading,       \* its entries not yet visited, in no order
    loaded,        \* "loading", "ok" or "failed"
    registered,    \* the template registry
    versions,      \* the stored versions of the key; none when there is no key
    signatures     \* the digest signatures callers keep

catalogVars == <<edition, loading, loaded, registered>>
vars == <<edition, loading, loaded, registered, versions, signatures>>

ASSUME ContractAssumption ==
    /\ Catalog \in [TemplateIds -> TemplateInfo]
    /\ Editions \subseteq [entries : SUBSET TemplateIds, retired : SUBSET TemplateIds]
    /\ Editions # {}
    /\ Allowed \subseteq TemplateIds
    /\ Asked \subseteq Specification
    /\ MaxVersions \in Nat \ {0}
    /\ MaxSignatures \in Nat

(* named (the hashes named by the request the version was last resolved     *)
(* for) and generated (the template its material was generated for) are     *)
(* history.                                                                 *)
Version == [template : TemplateIds, stored : ProtoSpecification,
            named : HashLists, generated : TemplateIds]

(* What a caller who wants to verify needs: the version, the hash and the   *)
(* context the digest was signed in.                                        *)
Signature == [version : Nat, hash : Hashes, scope : CoreScopes, vendor : BOOLEAN]

-----------------------------------------------------------------------------
(* LoadStandardCatalog.  The entries are a Go map, visited in any order;    *)
(* each is validated, then registered, and the first failure ends the load  *)
(* with what is registered by then.                                         *)

Vetted(id) == Catalog[id].constraints /\ ValidateAcceptedDigestHashes(Catalog[id])

SkipInvalidEntry(id) ==    \* faulty: goes on after an invalid entry
    /\ loaded = "loading"
    /\ id \in loading
    /\ loading' = loading \ {id}
    /\ registered' = IF Vetted(id) THEN registered \union {id} ELSE registered
    /\ UNCHANGED <<edition, loaded, versions, signatures>>

LoadEntry(id) ==
    /\ loaded = "loading"
    /\ id \in loading
    /\ loading' = loading \ {id}
    /\ \/ /\ Vetted(id)
          /\ registered' = registered \union {id}
          /\ loaded' = "loading"
       \/ /\ ~Vetted(id)
          /\ registered' = registered
          /\ loaded' = "failed"
    /\ UNCHANGED <<edition, versions, signatures>>

(* The file cannot be read or parsed, or Register returns an error.         *)
LoadError ==
    /\ loaded = "loading"
    /\ loaded' = "failed"
    /\ UNCHANGED <<edition, loading, registered, versions, signatures>>

LoadDone ==
    /\ loaded = "loading"
    /\ loading = {}
    /\ loaded' = "ok"
    /\ UNCHANGED <<edition, loading, registered, versions, signatures>>

RestartInPlace(e) ==    \* faulty: the registry outlives the catalog it was made from
    /\ loaded # "loading"
    /\ edition' = e
    /\ loading' = e.entries
    /\ loaded' = "loading"
    /\ UNCHANGED <<registered, versions, signatures>>

(* The server stops and starts with a catalog; templates are not stored.    *)
Restart(e) ==
    /\ loaded # "loading"
    /\ edition' = e
    /\ loading' = e.entries
    /\ loaded' = "loading"
    /\ registered' = {}
    /\ UNCHANGED <<versions, signatures>>

-----------------------------------------------------------------------------
(* pickVersionTemplate: the template and the specification to store.  A     *)
(* template that is named must match; without one the first allowed         *)
(* template that a provider serves and that matches is taken, any of them   *)
(* here, as providers come and go.                                          *)

Serving == loaded # "loading"

Selectable(id, spec) ==
    /\ id \in registered
    /\ id \notin edition.retired
    /\ MatchesScope(Catalog[id], spec) = "yes"

Picked(named, spec) ==
    {id \in (IF named \in TemplateIds THEN {named} ELSE Allowed) :
        RequestedHashesFit(spec) /\ Selectable(id, spec)}

Last == versions[Len(versions)]

ScopeOfKey == FromProto(Last.stored).scope

(* A caller makes the key, with or without naming a template; named is ""   *)
(* when it does not.                                                        *)
CreateKey(spec, named) ==
    /\ Serving
    /\ versions = <<>>
    /\ spec.scope # "unknown"
    /\ \E id \in Picked(named, spec) :
         \E resolved \in ResolveDigestHashes(Catalog[id], spec) :
            versions' = <<[template |-> id, stored |-> ToProto(resolved),
                           named |-> AcceptedDigestHashes(spec), generated |-> id]>>
    /\ UNCHANGED <<edition, loading, loaded, registered, signatures>>

TransformKeepingList(spec, named, retain) ==    \* faulty: the list is not resolved anew
    /\ Serving
    /\ Len(versions) \in 1..(MaxVersions - 1)
    /\ retain => named \in TemplateIds
    /\ spec.scope = ScopeOfKey
    /\ \E id \in Picked(named, spec) :
         /\ retain => /\ Last.template \in registered
                      /\ CompatibleKeyMaterial(Catalog[Last.template], Catalog[id])
         /\ versions' = Append(versions,
                [template |-> id, stored |-> Last.stored, named |-> Last.named,
                 generated |-> IF retain THEN Last.generated ELSE id])
    /\ UNCHANGED <<edition, loading, loaded, registered, signatures>>

TransformKey(spec, named, retain) ==
    /\ Serving
    /\ Len(versions) \in 1..(MaxVersions - 1)
    /\ retain => named \in TemplateIds
    /\ spec.scope = ScopeOfKey
    /\ \E id \in Picked(named, spec) :
         /\ retain => /\ Last.template \in registered
                      /\ CompatibleKeyMaterial(Catalog[Last.template], Catalog[id])
         /\ \E resolved \in ResolveDigestHashes(Catalog[id], spec) :
              versions' = Append(versions,
                  [template |-> id, stored |-> ToProto(resolved),
                   named |-> AcceptedDigestHashes(spec),
                   generated |-> IF retain THEN Last.generated ELSE id])
    /\ UNCHANGED <<edition, loading, loaded, registered, signatures>>

(* MigrateKey keeps the template and the specification as read back, and    *)
(* moves the material or, rekeying, generates it anew for the template.     *)
MigrateKey(rekey) ==
    /\ Serving
    /\ Len(versions) \in 1..(MaxVersions - 1)
    /\ Last.template \in registered
    /\ versions' = Append(versions,
           [Last EXCEPT !.stored    = ToProto(FromProto(@)),
                        !.generated = IF rekey THEN Last.template ELSE @])
    /\ UNCHANGED <<edition, loading, loaded, registered, signatures>>

DeleteKey ==
    /\ versions # <<>>
    /\ Serving
    /\ versions' = <<>>
    /\ signatures' = {}
    /\ UNCHANGED catalogVars

-----------------------------------------------------------------------------
(* The digest operations.  vendor: the caller gives a vendor context, and   *)
(* its scope is not compared; otherwise scope is what its context arm maps  *)
(* to (validateSignatureScopeParams in digest mode).                        *)

(* validateDigestHash: "ok", "refused" or, for a version with no list,      *)
(* "corrupt".                                                               *)
ValidateDigestHash(v, hash) ==
    LET spec == FromProto(v.stored) IN
    IF ~IsPrehashed(spec.scope) THEN "refused"
    ELSE IF AcceptedDigestHashes(spec) = <<>> THEN "corrupt"
    ELSE IF Contains(AcceptedDigestHashes(spec), hash) THEN "ok"
    ELSE "refused"

DigestRequestFitsActive(v, operation, scope, vendor, hash) ==    \* faulty: not for a retired template
    /\ v.template \notin edition.retired
    /\ vendor \/ scope = FromProto(v.stored).scope
    /\ SupportsOperation(Catalog[v.template], FromProto(v.stored).scope, operation)
    /\ ValidateDigestHash(v, hash) = "ok"

(* validateDigestRequest *)
DigestRequestFits(v, operation, scope, vendor, hash) ==
    /\ vendor \/ scope = FromProto(v.stored).scope
    /\ SupportsOperation(Catalog[v.template], FromProto(v.stored).scope, operation)
    /\ ValidateDigestHash(v, hash) = "ok"

(* The digest half of DigestSign: the current version and its template.     *)
DigestSign(scope, vendor, hash) ==
    /\ Serving
    /\ versions # <<>>
    /\ Last.template \in registered
    /\ DigestRequestFits(Last, "digest_sign", scope, vendor, hash)
    /\ Cardinality(signatures) < MaxSignatures
    /\ signatures' = signatures \union 
           {[version |-> Len(versions), hash |-> hash, scope |-> scope, vendor |-> vendor]}
    /\ UNCHANGED <<edition, loading, loaded, registered, versions>>

-----------------------------------------------------------------------------

Init ==
    /\ edition \in Editions
    /\ loading = edition.entries
    /\ loaded = "loading"
    /\ registered = {}
    /\ versions = <<>>
    /\ signatures = {}

Load ==
    \/ \E id \in TemplateIds : LoadEntry(id)
    \/ LoadError
    \/ LoadDone

Named == TemplateIds \union {""}

Request ==
    \/ \E spec \in Asked, named \in Named :
         \/ CreateKey(spec, named)
         \/ \E retain \in BOOLEAN : TransformKey(spec, named, retain)
    \/ \E rekey \in BOOLEAN : MigrateKey(rekey)
    \/ DeleteKey
    \/ \E scope \in {"signature_prehashed", "signature_prehashed_with_context"},
          vendor \in BOOLEAN, hash \in Hashes : DigestSign(scope, vendor, hash)

Next ==
    \/ Load
    \/ \E e \in Editions : Restart(e)
    \/ Request

Spec == Init /\ [][Next]_vars

-----------------------------------------------------------------------------
(* Properties *)

TypeOK ==
    /\ edition \in Editions
    /\ loading \subseteq edition.entries
    /\ loaded \in {"loading", "ok", "failed"}
    /\ registered \subseteq edition.entries
    /\ versions \in Seq(Version)
    /\ Len(versions) <= MaxVersions
    /\ signatures \subseteq Signature

(* A load that reports success has registered the whole catalog, every      *)
(* entry of it valid, in whatever order the map was visited; and whatever   *)
(* the outcome, only valid templates are reachable, so that every key       *)
(* version is of one (loader.go, LoadStandardCatalog: "the single choke     *)
(* point every catalog entry passes through before becoming reachable").    *)
SingleChokePoint ==
    /\ loaded = "ok" => registered = edition.entries
    /\ \A id \in registered : Vetted(id)
    /\ \A i \in DOMAIN versions : Vetted(versions[i].template)

(* No version of a prehashed scope is without a hash list, however often    *)
(* the key was transformed and migrated, so no digest request finds it      *)
(* corrupt (validateDigestHash: "CreateKey and TransformKey always store a  *)
(* list").                                                                  *)
NeverCorrupt ==
    \A i \in DOMAIN versions : \A h \in Hashes :
        ValidateDigestHash(versions[i], h) # "corrupt"

(* What ReadKey reports of a version may be asked again of its template,    *)
(* while that is still registered and active, and would be stored as it is  *)
(* stored: neither the hash list resolved at creation nor the trip through  *)
(* the proto form makes the version ask what its own template cannot give   *)
(* (trueOrNil, extractSignature, resolveDigestHashes).  A template that     *)
(* declares a scope twice may have matched by one capability and lent the   *)
(* hash list of the other.                                                  *)
ReadBackIsAccepted ==
    \A i \in DOMAIN versions :
        LET v    == versions[i]
            spec == FromProto(v.stored)
        IN /\ v.template \in registered
           /\ v.template \notin edition.retired
           /\ DeclaresOnce(Catalog[v.template], spec.scope)
           => /\ RequestedHashesFit(spec)
              /\ Selectable(v.template, spec)
              /\ \E again \in ResolveDigestHashes(Catalog[v.template], spec) :
                    ToProto(again) = v.stored

(* A digest is signed only with a hash the version's template offers and,   *)
(* when the request that made the version named hashes, one of those; also  *)
(* when migrations have copied the list since and whatever the caller's     *)
(* context (SignatureProperties.AcceptedDigestHashes).                      *)
SignedWithinTheOffer ==
    \A s \in signatures :
        LET v        == versions[s.version]
            declared == ScopeSpecFor(Catalog[v.template], v.stored.scope)
        IN /\ \A d \in declared : Contains(AcceptedDigestHashes(d), s.hash)
           /\ v.named # <<>> => Contains(v.named, s.hash)

(* Material kept over any number of transforms still has the family and the *)
(* size of the template it was generated for (CompatibleKeyMaterial is      *)
(* asked about neighbouring versions only).                                 *)
RetainedMaterialFits ==
    \A i \in DOMAIN versions :
        LET v    == versions[i]
            made == KeyMaterialProfileFor(Catalog[v.generated])
        IN v.template # v.generated =>
              /\ made # NoProfile
              /\ KeyMaterialProfileFor(Catalog[v.template]) = made

(* What was signed can be verified for as long as the catalog in use has    *)
(* the template of the version that signed, also when it has retired it     *)
(* since, and whatever versions the key has been given after: the request   *)
(* that quotes the version, hash and context of the signature passes every  *)
(* check DigestVerify makes on them, if the template declares verification  *)
(* at all.  A catalog without the template ends that: DigestVerify gets it  *)
(* from the registry.                                                       *)
SignaturesStayVerifiable ==
    \A s \in signatures :
        LET v == versions[s.version] IN
        /\ v.template \in registered
        /\ SupportsOperation(Catalog[v.template], v.stored.scope, "digest_verify")
        => DigestRequestFits(v, "digest_verify", s.scope, s.vendor, s.hash)

(* A request made with NewScopeSpecification meets an internal error of     *)
(* MatchesScope for one reason only: a capability without a scope, which    *)
(* the loader lets pass, stands before the first one that matches.  It is   *)
(* never compared with the properties of another primitive, so no template  *)
(* of one is in its way.                                                    *)
ComparableWithAll ==
    \A spec \in Asked : WellFormedSpec(spec) =>
        \A id \in registered :
            LET cs == Catalog[id].capabilities IN
            MatchesScope(Catalog[id], spec) = "error"
            <=> \E i \in DOMAIN cs :
                   /\ cs[i].spec = NoScope
                   /\ \A j \in 1..(i - 1) : CapabilityMatches(cs[j], spec) = "no"

(* What a comment says and the code does not do. *)

(* A caller who signed digests of a hash with the key can go on after a     *)
(* transform that said nothing of hashes: the new version takes that hash   *)
(* too (validateTransformScope: a transform changes "never the contract     *)
(* itself, so callers keep working without code changes").                  *)
CallersKeepWorking ==
    \A s \in signatures :
        Last.named = <<>> => ValidateDigestHash(Last, s.hash) = "ok"

=============================================================================
