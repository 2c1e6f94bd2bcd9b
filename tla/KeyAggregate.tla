---------------------------- MODULE KeyAggregate ----------------------------
(***************************************************************************)
(* What the key service promises about a key, with no requests, providers' *)
(* registry or policies in sight: a key is created with one generated      *)
(* version, grows one version at a time, each either new material or kept  *)
(* from its immediate predecessor, and disappears whole.  The orchestrator *)
(* of KeyOrchestrator.tla is shown to implement this specification.        *)
(***************************************************************************)
EXTENDS KeyTransfer

CONSTANTS
    KeyIds,        \* public ids; an id is never issued twice
    KeyNames,      \* key names; several keys may carry one
    PolicyNames    \* values of Key.policy_id

VARIABLE keys

Status == {"unused", "live", "deleted"}

(* A key with its versions, version n at position n; Key.current_version   *)
(* is their number, as the repository's CreateKey and AddVersion leave it. *)
Key == [status   : Status,
        name     : KeyNames \union {""},
        policy   : PolicyNames \union {""},
        versions : Seq(KeyVersion)]

NoKey(status) == [status |-> status, name |-> "", policy |-> "", versions |-> <<>>]

Generated(v) ==
    /\ v.origin.kind = "GENERATED"
    /\ v.payload = GeneratedPayload(v.placed, v.template)
    /\ v.extractable = ReleasesMaterial(v.placed, v.template)
    /\ v.approved = Desc[v.placed].certified

(* v holds the material of u: byte for byte, under the same or stronger    *)
(* restrictions, and saying where it came from.                            *)
KeptFrom(v, u) ==
    /\ v.origin.sourceVersion = u.version
    /\ v.origin.sourceProvider = u.provider
    /\ v.payload = u.payload
    /\ ~Closed(v.placed)
    /\ v.extractable => u.extractable /\ ReleasesMaterial(v.placed, v.template)
    /\ v.approved => u.approved /\ Desc[v.placed].certified
    /\ \/ /\ v.origin.kind = "RETAINED"
          /\ v.provider = u.provider
          /\ <<u.template, v.template>> \in Compatible
       \/ /\ v.origin.kind = "TRANSFERRED"
          /\ v.provider # u.provider
          /\ v.template = u.template
          /\ u.extractable

-----------------------------------------------------------------------------

KeysInit == keys = [k \in KeyIds |-> NoKey("unused")]

KeyCreated(k) ==
    LET new == keys'[k] IN
    /\ keys[k].status = "unused"
    /\ new \in Key
    /\ new.status = "live"
    /\ Len(new.versions) = 1
    /\ new.versions[1].version = 1
    /\ Generated(new.versions[1])
    /\ keys' = [keys EXCEPT ![k] = new]

VersionAdded(k) ==
    LET vs == keys[k].versions
        v  == keys'[k].versions[Len(vs) + 1]
    IN
    /\ keys[k].status = "live"
    /\ Len(keys'[k].versions) = Len(vs) + 1
    /\ v \in KeyVersion
    /\ v.version = Len(vs) + 1
    /\ v.scope = vs[Len(vs)].scope
    /\ Generated(v) \/ KeptFrom(v, vs[Len(vs)])
    /\ keys' = [keys EXCEPT ![k].versions = Append(vs, v)]

KeyDeleted(k) ==
    /\ keys[k].status = "live"
    /\ keys' = [keys EXCEPT ![k] = NoKey("deleted")]

KeysNext == \E k \in KeyIds : KeyCreated(k) \/ VersionAdded(k) \/ KeyDeleted(k)

KeysSpec == KeysInit /\ [][KeysNext]_keys

-----------------------------------------------------------------------------

KeysTypeOK == keys \in [KeyIds -> Key]

Kept(v) == v.origin.kind # "GENERATED"

(* The positions up to i whose versions hold the same material as i.       *)
Chain(vs, i) == {j \in 1..i : \A m \in (j + 1)..i : Kept(vs[m])}

(* The positions of a key's versions are their numbers, from 1 to the      *)
(* current one, and the key has at least one version (the aggregate        *)
(* invariant of key.Repository).                                           *)
Numbered(vs) == Len(vs) > 0 /\ \A i \in 1..Len(vs) : vs[i].version = i

(* Every version of a key keeps the scope of the first: the key's contract *)
(* with its callers (validateTransformScope).                              *)
OneScope(vs) == \A i, j \in 1..Len(vs) : vs[i].scope = vs[j].scope

(* The stored payload of every version is the one generated at the head of *)
(* its chain.                                                              *)
PayloadFromOrigin(vs) ==
    \A i \in 1..Len(vs) : \E j \in Chain(vs, i) :
        Generated(vs[j]) /\ vs[i].payload = vs[j].payload

(* Material recorded as of approved lineage was generated by a certified   *)
(* module and placed on certified modules only (key.proto, field           *)
(* approved_lineage).                                                      *)
ApprovedLineage(vs) ==
    \A i \in 1..Len(vs) : vs[i].approved =>
        \A j \in Chain(vs, i) : Desc[vs[j].placed].certified

(* Material moved between providers was extractable everywhere it had      *)
(* been: no provider that held it refuses to release it (key.proto, field  *)
(* extractable).                                                           *)
OnlyReleasedMaterialMoves(vs) ==
    \A i \in 2..Len(vs) : vs[i].origin.kind = "TRANSFERRED" =>
        \A j \in Chain(vs, i - 1) : ReleasesMaterial(vs[j].placed, vs[j].template)

ExtractableChain(vs) ==
    \A i \in 1..Len(vs) : vs[i].extractable =>
        \A j \in Chain(vs, i) : ReleasesMaterial(vs[j].placed, vs[j].template)

LineageSound ==
    \A k \in KeyIds : keys[k].status = "live" =>
        LET vs == keys[k].versions IN
        /\ Numbered(vs)
        /\ OneScope(vs)
        /\ PayloadFromOrigin(vs)
        /\ ApprovedLineage(vs)
        /\ OnlyReleasedMaterialMoves(vs)

(* FIPS 140 lets secret keys enter and leave a module as plaintext at       *)
(* levels 1 and 2 only; a level that is not reported is not a low one.      *)
PlaintextPermitted(b) == Desc[b].certified => Desc[b].level \in {1, 2}

(* However a key is retained and migrated, no certified module at level 3   *)
(* or 4, or at no known level, takes in stored material, and none gives any *)
(* away: material moved to another provider was held, all along its chain,  *)
(* only where plaintext keys are permitted (provider/transfer.go,           *)
(* TransferOf: "so a certified provider that reports such a level, or no    *)
(* level at all, has its stored-payload and plaintext channels closed").    *)
FipsLevelsRespected ==
    \A k \in KeyIds : keys[k].status = "live" =>
        LET vs == keys[k].versions IN
        \A i \in 1..Len(vs) :
            /\ Kept(vs[i]) => PlaintextPermitted(vs[i].placed)
            /\ vs[i].origin.kind = "TRANSFERRED" =>
                 \A j \in Chain(vs, i) : PlaintextPermitted(vs[j].placed)

=============================================================================
