---------------------------- MODULE KeyTransfer -----------------------------
(***************************************************************************)
(* How the material of a key version may leave one provider and enter      *)
(* another, and what the versions that keep it record about it:            *)
(* provider/transfer.go, service/transfer_plan.go and                      *)
(* service/key_provenance.go, with the version fields they read            *)
(* (proto/store/key.proto).                                                *)
(***************************************************************************)
EXTENDS ProviderMatching

CONSTANTS
    Scopes,        \* core.Scope values
    Compatible     \* pairs of templates with the same key material profile

ASSUME CompatibleAssumption == Compatible \subseteq Templates \X Templates

Strategies ==
    {"PROVIDER_SWITCH", "EXTRACT_AND_IMPORT", "WRAPPED_TRANSFER",
     "REKEY_AND_ARCHIVE", "REKEY_AND_DESTROY"}

ImplementedStrategies == {"PROVIDER_SWITCH", "REKEY_AND_ARCHIVE"}

(* The stored payload: the provider's marshalled GenerateKeyResponse.  Its *)
(* bytes are identified by the backend and template that generated them;   *)
(* the encoding is the field storedEncoding reads back.                    *)
Payload == [by : Backends, for : Templates, encoding : Encodings \union {NoEncoding}]

(* store.KeyOrigin; the channel of kept material is always STORED_PAYLOAD. *)
Origin == [kind           : {"GENERATED", "RETAINED", "TRANSFERRED"},
           sourceVersion  : Nat,
           sourceProvider : Instances \union {NoInstance}]

(* store.KeyVersion.  placed is a history field: the backend object that   *)
(* was matched when the version was made, which the code keeps only by     *)
(* instance name.                                                          *)
KeyVersion == [version     : Nat \ {0},
               template    : Templates,
               provider    : Instances,
               scope       : Scopes,
               payload     : Payload,
               extractable : BOOLEAN,
               approved    : BOOLEAN,
               origin      : Origin,
               placed      : Backends]

-----------------------------------------------------------------------------

NoChannels == [stored |-> {}, plain |-> {}, wrapped |-> {}]

PermitsUnreported(b) == Desc[b].level < 3    \* faulty: no level counts as a low one

PermitsPlaintextKeys(b) == Desc[b].level \in {1, 2}

(* A certified module at level 3 or 4, or at no reported level, has its    *)
(* stored-payload and plaintext channels closed, whatever it advertises.   *)
Closed(b) == Desc[b].certified /\ ~PermitsPlaintextKeys(b)

Allow(b, channels) ==
    IF Closed(b) THEN [NoChannels EXCEPT !.wrapped = channels.wrapped] ELSE channels

Emit(b, t)   == IF b = NoBackend THEN NoChannels ELSE Allow(b, Desc[b].emit[t])
Accept(b, t) == IF b = NoBackend THEN NoChannels ELSE Allow(b, Desc[b].accept[t])

SourceFeasible(strategy, source, v) ==
    \/ strategy \in {"REKEY_AND_ARCHIVE", "REKEY_AND_DESTROY"}
    \/ /\ strategy = "WRAPPED_TRANSFER"
       /\ source # NoBackend
       /\ Emit(source, v.template).wrapped # {}
    \/ /\ strategy = "EXTRACT_AND_IMPORT"
       /\ source # NoBackend
       /\ v.extractable
       /\ Emit(source, v.template).plain # {}
    \/ /\ strategy = "PROVIDER_SWITCH"
       /\ source # NoBackend
       /\ v.extractable
       /\ v.payload.encoding # NoEncoding
       /\ v.payload.encoding \in Emit(source, v.template).stored

TargetFeasible(strategy, source, target, v) ==
    LET emit   == Emit(source, v.template)
        accept == Accept(target, v.template)
    IN \/ strategy \in {"REKEY_AND_ARCHIVE", "REKEY_AND_DESTROY"}
       \/ strategy = "WRAPPED_TRANSFER" /\ emit.wrapped \intersect accept.wrapped # {}
       \/ strategy = "EXTRACT_AND_IMPORT" /\ emit.plain \intersect accept.plain # {}
       \/ strategy = "PROVIDER_SWITCH" /\ v.payload.encoding \in accept.stored

RetainFeasible(b, v, t) ==
    /\ v.payload.encoding # NoEncoding
    /\ v.payload.encoding \in Accept(b, t).stored

TransfersNewMaterial(strategy) ==    \* faulty: the strategies that do not
    strategy \in {"REKEY_AND_ARCHIVE", "REKEY_AND_DESTROY"}

TransfersMaterial(strategy) ==
    strategy \in {"PROVIDER_SWITCH", "EXTRACT_AND_IMPORT", "WRAPPED_TRANSFER"}

KeepsLineage(custody, v) == custody.approved => v.approved

-----------------------------------------------------------------------------

ReleasesMaterial(b, t) == Emit(b, t).stored # {} \/ Emit(b, t).plain # {}

ApprovedGeneration == [NothingRequired EXCEPT !.approved = TRUE]

GeneratedProvenance(b, t) ==
    [extractable |-> ReleasesMaterial(b, t),
     approved    |-> Meets(b, ApprovedGeneration),
     origin      |-> [kind |-> "GENERATED", sourceVersion |-> 0, sourceProvider |-> NoInstance]]

ProvenanceAnew(v, b, t, kind) ==    \* faulty: forgets the lineage
    [extractable |-> v.extractable /\ ReleasesMaterial(b, t),
     approved    |-> Meets(b, ApprovedGeneration),
     origin      |-> [kind |-> kind, sourceVersion |-> v.version, sourceProvider |-> v.provider]]

ProvenanceReleased(v, b, t, kind) ==    \* faulty: forgets it was not extractable
    [extractable |-> ReleasesMaterial(b, t),
     approved    |-> v.approved /\ Meets(b, ApprovedGeneration),
     origin      |-> [kind |-> kind, sourceVersion |-> v.version, sourceProvider |-> v.provider]]

KeptProvenance(v, b, t, kind) ==
    [extractable |-> v.extractable /\ ReleasesMaterial(b, t),
     approved    |-> v.approved /\ Meets(b, ApprovedGeneration),
     origin      |-> [kind |-> kind, sourceVersion |-> v.version, sourceProvider |-> v.provider]]

GeneratedPayload(b, t) == [by |-> b, for |-> t, encoding |-> Desc[b].generates[t]]

(* key.NewVersion, as the orchestrator calls it. *)
NewVersion(n, t, b, scope, payload, prov) ==
    [version     |-> n,
     template    |-> t,
     provider    |-> Desc[b].name,
     scope       |-> scope,
     payload     |-> payload,
     extractable |-> prov.extractable,
     approved    |-> prov.approved,
     origin      |-> prov.origin,
     placed      |-> b]

=============================================================================
