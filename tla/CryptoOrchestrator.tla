------------------------- MODULE CryptoOrchestrator -------------------------
(***************************************************************************)
(* The crypto orchestrator (service/crypto_orchestrator_impl.go): Sign,    *)
(* DigestSign and Encrypt make artifacts with a key's current version;     *)
(* Verify, DigestVerify and Decrypt take an artifact back with the version *)
(* recorded beside it.  They run while the key orchestrator changes the    *)
(* keys, administrators the policies and the registry, and callers the     *)
(* lifecycle state of a key (key/key.go), which only this module reads.    *)
(*                                                                         *)
(* As in KeyOrchestrator, each call on the repository, the policy engine   *)
(* or the registry is a step.  See TemplateContract for digest hashes.     *)
(***************************************************************************)
EXTENDS KeyOrchestrator

CONSTANTS
    Calls,           \* slots for concurrent calls (goroutines)
    CallSpecs,       \* what callers originate, a subset of CallSpec
    Declares,        \* the operations each template declares for a scope
    Capabilities,    \* which of Signer and Cipher each backend implements
    StateEdits,      \* lifecycle states callers may move a key to
    MaxArtifacts,    \* bound on the artifacts callers keep
    NoArtifact

VARIABLES
    state,        \* Key.state, "none" for a key that is not stored
    call,         \* the state of each call
    artifacts,    \* what callers keep: a signature or ciphertext with its metadata
    seen          \* history: key states and policies while a call ran

cryptoVars == <<vars, state, call, artifacts, seen>>

Originating == {"sign", "digest_sign", "encrypt"}
Receiving   == {"verify", "digest_verify", "decrypt"}

Receiver == [sign |-> "verify", digest_sign |-> "digest_verify", encrypt |-> "decrypt"]

(* The oneof arms of the scope parameters a request may carry. *)
Arms == {"no_context", "domain_context", "vendor_context",
         "no_params", "aead_params", "xts_params", "vendor_params"}

CallSpec == [op : Originating, name : KeyNames, arm : Arms]

(* The metadata stored with a signature or ciphertext (name, version, arm); *)
(* key and made are history: the key and the version that made it.          *)
Artifact == [op      : Originating,
             name    : KeyNames,
             arm     : Arms,
             version : Nat,
             key     : KeyIds,
             made    : KeyVersion]

ASSUME CryptoAssumption ==
    /\ CallSpecs \subseteq CallSpec
    /\ Declares \in [Templates -> [Scopes -> SUBSET (Originating \union Receiving)]]
    /\ Capabilities \in [Backends -> SUBSET {"Signer", "Cipher"}]
    /\ MaxArtifacts \in Nat
    /\ NoArtifact \notin Artifact

-----------------------------------------------------------------------------
(* Lifecycle (key/key.go). *)

LifecycleStates == {"PRE_ACTIVE", "ACTIVE", "SUSPENDED", "DEACTIVATED", "COMPROMISED",
                    "DESTROYED", "DESTROYED_COMPROMISED"}

validTransitions ==
    [PRE_ACTIVE            |-> {"ACTIVE", "DESTROYED"},
     ACTIVE                |-> {"SUSPENDED", "DEACTIVATED", "COMPROMISED"},
     SUSPENDED             |-> {"ACTIVE", "DEACTIVATED", "COMPROMISED"},
     DEACTIVATED           |-> {"DESTROYED", "COMPROMISED"},
     COMPROMISED           |-> {"DESTROYED", "DESTROYED_COMPROMISED"},
     DESTROYED             |-> {},
     DESTROYED_COMPROMISED |-> {}]

CanPerformAnyCrypto(op, s) ==    \* faulty: originating asks only what receiving asks
    s \in {"ACTIVE", "SUSPENDED", "DEACTIVATED"}

(* CanPerformOriginatingCrypto and CanPerformReceivingCrypto. *)
CanPerform(op, s) ==
    \/ s = "ACTIVE"
    \/ op \in Receiving /\ s \in {"SUSPENDED", "DEACTIVATED"}

(* A caller's UpdateState and UpdateKey, taken as one step. *)
UpdateState(k, s) ==
    /\ keys[k].status = "live"
    /\ s \in validTransitions[state[k]]
    /\ state' = [state EXCEPT ![k] = s]
    /\ UNCHANGED <<vars, call, artifacts>>

StateForgotten == UNCHANGED state    \* faulty: NewKey sets no state

(* NewKey makes an ACTIVE key; DeleteKey takes the state away with the key. *)
StateOfStoredKeys ==
    state' = [k \in KeyIds |-> IF keys'[k].status # "live" THEN "none"
                               ELSE IF keys[k].status = "live" THEN state[k] ELSE "ACTIVE"]

-----------------------------------------------------------------------------
(* What a call checks. *)

(* validateSignatureScopeParams and validateEncryptionScopeParams: the key  *)
(* scopes an arm is for.  Vendor arms fit every scope.                      *)
ScopesFor(op, arm) ==
    CASE op \in {"sign", "verify"} /\ arm = "no_context"                -> {"signature_standard"}
      [] op \in {"sign", "verify"} /\ arm = "domain_context"            -> {"signature_with_context"}
      [] op \in {"digest_sign", "digest_verify"} /\ arm = "no_context"  -> {"signature_prehashed"}
      [] op \in {"digest_sign", "digest_verify"} /\ arm = "domain_context" ->
             {"signature_prehashed_with_context"}
      [] op \in {"encrypt", "decrypt"} /\ arm = "aead_params"           -> {"aead_standard"}
      [] op \in {"encrypt", "decrypt"} /\ arm = "no_params"             ->
             {"symmetric_cipher_block", "symmetric_cipher_stream"}
      [] OTHER                                                         -> {}

VendorArm(op, arm) ==
    IF op \in {"encrypt", "decrypt"} THEN arm = "vendor_params" ELSE arm = "vendor_context"

ScopeFits(op, arm, scope) == VendorArm(op, arm) \/ scope \in ScopesFor(op, arm)

(* validateSignatureRequest, validateEncryptionScopeParams: a signature's   *)
(* template must declare the operation even behind a vendor arm; a cipher's *)
(* is not asked.                                                            *)
RequestFits(op, arm, v) ==
    /\ ScopeFits(op, arm, v.scope)
    /\ op \notin {"encrypt", "decrypt"} => op \in Declares[v.template][v.scope]

CapabilityFor(op) == IF op \in {"encrypt", "decrypt"} THEN "Cipher" ELSE "Signer"

-----------------------------------------------------------------------------
(* A call and its local variables. *)

CallRecord ==
    [pc       : {"load", "version", "authorize", "dispatch", "perform"},
     op       : Originating \union Receiving,
     name     : KeyNames,
     arm      : Arms,
     artifact : Artifact \union {NoArtifact},    \* what a receiving call is given
     key      : KeyIds \union {NoKeyId},
     policy   : PolicyNames \union {""},
     v        : KeyVersion \union {NoVersion},   \* kv
     backend  : Backends \union {NoBackend}]     \* prov

NewCall(op, name, arm, artifact) ==
    [pc |-> "load", op |-> op, name |-> name, arm |-> arm, artifact |-> artifact,
     key |-> NoKeyId, policy |-> "", v |-> NoVersion, backend |-> NoBackend]

Running(c) == call[c] # Idle

RunningAt(c, label) == Running(c) /\ call[c].pc = label

Continue(c, next) ==
    /\ call' = [call EXCEPT ![c] = next]
    /\ UNCHANGED <<vars, state, artifacts>>

Return(c) == Continue(c, Idle)    \* with an error or with a receiving call's result

(* Continue if ok, else return an error. *)
Require(c, ok, next) == \/ ok /\ Continue(c, next)
                        \/ ~ok /\ Return(c)

Originate(c, s) ==
    /\ ~Running(c)
    /\ Continue(c, NewCall(s.op, s.name, s.arm, NoArtifact))

Receive(c, a) ==
    /\ ~Running(c)
    /\ Continue(c, NewCall(Receiver[a.op], a.name, a.arm, a))

(* keys.GetKeyByName and the lifecycle rule of the operation. *)
LoadKey(c) ==
    LET q     == call[c]
        named == {k \in KeyIds : keys[k].status = "live" /\ keys[k].name = q.name}
    IN
    /\ RunningAt(c, "load")
    /\ \/ \E k \in named :
            Require(c, CanPerform(q.op, state[k]),
                    [q EXCEPT !.pc = "version", !.key = k, !.policy = keys[k].policy])
       \/ named = {} /\ Return(c)

LoadCurrentVersion(c) ==    \* faulty: the recorded version is not asked for
    LET q  == call[c]
        vs == keys[q.key].versions
    IN
    /\ RunningAt(c, "version")
    /\ \/ vs # <<>> /\ Continue(c, [q EXCEPT !.pc = "authorize", !.v = vs[Len(vs)]])
       \/ vs = <<>> /\ Return(c)

(* keys.GetCurrentVersion of an originating call, keys.GetVersion of a      *)
(* receiving one; a deleted key has no versions.                            *)
LoadVersion(c) ==
    LET q  == call[c]
        vs == keys[q.key].versions
        n  == IF q.op \in Originating THEN Len(vs) ELSE q.artifact.version
    IN
    /\ RunningAt(c, "version")
    /\ \/ n \in DOMAIN vs /\ Continue(c, [q EXCEPT !.pc = "authorize", !.v = vs[n]])
       \/ n \notin DOMAIN vs /\ Return(c)

AuthorizeMessage(c) ==    \* faulty: a digest operation is authorized as a message one
    LET q == call[c]
        asked == CASE q.op = "digest_sign"   -> "sign"
                   [] q.op = "digest_verify" -> "verify"
                   [] OTHER                  -> q.op
    IN
    /\ RunningAt(c, "authorize")
    /\ Require(c, \E d \in Consulted(q) : Permits(d, asked, q.v.template),
               [q EXCEPT !.pc = "dispatch"])

(* policy.ValidateOperation of the version's template. *)
Authorize(c) ==
    LET q == call[c] IN
    /\ RunningAt(c, "authorize")
    /\ Require(c, \E d \in Consulted(q) : Permits(d, q.op, q.v.template),
               [q EXCEPT !.pc = "dispatch"])

(* providers.Get by the version's provider id, then the checks that need no *)
(* shared state.                                                            *)
Dispatch(c) ==
    LET q     == call[c]
        here  == Registered(registry, q.v.provider)
        ok(b) == RequestFits(q.op, q.arm, q.v) /\ CapabilityFor(q.op) \in Capabilities[b]
    IN
    /\ RunningAt(c, "dispatch")
    /\ \/ \E b \in here : Require(c, ok(b), [q EXCEPT !.pc = "perform", !.backend = b])
       \/ here = {} /\ Return(c)

(* The provider's Sign, SignDigest or Encrypt: an artifact the caller may   *)
(* keep with its metadata ...                                               *)
Produce(c) ==
    LET q    == call[c]
        made == [op |-> q.op, name |-> q.name, arm |-> q.arm, version |-> q.v.version,
                 key |-> q.key, made |-> q.v]
    IN
    /\ RunningAt(c, "perform")
    /\ q.op \in Originating
    /\ artifacts' \in {artifacts} \union
                      {s \in {artifacts \union {made}} : Cardinality(s) <= MaxArtifacts}
    /\ call' = [call EXCEPT ![c] = Idle]
    /\ UNCHANGED <<vars, state>>

(* ... or its Verify, VerifyDigest or Decrypt of one. *)
Consume(c) ==
    /\ RunningAt(c, "perform")
    /\ call[c].op \in Receiving
    /\ Return(c)

(* Any call on a dependency may fail. *)
CallError(c) == Running(c) /\ Return(c)

-----------------------------------------------------------------------------

Snapshot == {<<k, state[k]>> : k \in KeyIds} \union {<<p, policies[p]>> : p \in PolicyNames}

Witness ==
    seen' = [c \in Calls |->
               IF call'[c] = Idle THEN {}
               ELSE IF Running(c) THEN seen[c] \union Snapshot' ELSE Snapshot']

CryptoInit ==
    /\ Init
    /\ state = [k \in KeyIds |-> "none"]
    /\ call = [c \in Calls |-> Idle]
    /\ artifacts = {}
    /\ seen = [c \in Calls |-> {}]

CallStep(c) ==
    \/ LoadKey(c) \/ LoadVersion(c) \/ Authorize(c) \/ Dispatch(c)
    \/ Produce(c) \/ Consume(c)

CryptoNext ==
    /\ \/ Next /\ StateOfStoredKeys /\ UNCHANGED <<call, artifacts>>
       \/ \E k \in KeyIds, s \in StateEdits : UpdateState(k, s)
       \/ \E c \in Calls : \/ \E s \in CallSpecs : Originate(c, s)
                           \/ \E a \in artifacts : Receive(c, a)
                           \/ CallStep(c)
                           \/ CallError(c)
    /\ Witness

CryptoSpec == CryptoInit /\ [][CryptoNext]_cryptoVars

-----------------------------------------------------------------------------
(* Properties *)

(* Types; a key has a lifecycle state exactly while it is stored. *)
CryptoTypeOK ==
    /\ state \in [KeyIds -> LifecycleStates \union {"none"}]
    /\ \A k \in KeyIds : (state[k] # "none") = (keys[k].status = "live")
    /\ call \in [Calls -> CallRecord \union {Idle}]
    /\ artifacts \subseteq Artifact
    /\ seen \in [Calls -> SUBSET ((KeyIds \X (LifecycleStates \union {"none"}))
                                  \union (PolicyNames \X (PolicyDocs \union {NoPolicy})))]

(* An artifact is taken back by the very version that made it, whatever the *)
(* key went through since: same material, template and provider instance    *)
(* (service/key_orchestrator.go, MigrateKey: "earlier versions stay on      *)
(* their provider so data they protect remains usable").  A name passed on  *)
(* to another key after a delete is another matter.                         *)
TakenBackByItsMaker ==
    \A c \in Calls : RunningAt(c, "perform") /\ call[c].op \in Receiving =>
        LET q == call[c] IN
        q.key = q.artifact.key => /\ q.v = q.artifact.made
                                  /\ Desc[q.backend].name = q.artifact.made.provider

(* The scope parameters a key accepted once it accepts under every later    *)
(* version, for the operation and its inverse: "the scope is the key's      *)
(* contract with its callers" (validateTransformScope).                     *)
ContractKept ==
    \A c \in Calls : Running(c) /\ call[c].v # NoVersion =>
        \A a \in artifacts :
            LET q == call[c] IN
            a.key = q.key /\ a.arm = q.arm /\ q.op \in {a.op, Receiver[a.op]} =>
                ScopeFits(q.op, q.arm, q.v.scope)

(* Whenever a provider is called, the key was at some time during the call  *)
(* in a state that allows the operation, and its policy permitted the       *)
(* operation by its own name on the version's template.  Not more: state    *)
(* and policy may have changed since they were read.                        *)
PerformedWithinItsRights ==
    \A c \in Calls : RunningAt(c, "perform") =>
        LET q == call[c] IN
        /\ \E s \in LifecycleStates :
             /\ <<q.key, s>> \in seen[c]
             /\ s = "ACTIVE" \/ (q.op \in Receiving /\ s \in {"SUSPENDED", "DEACTIVATED"})
        /\ \E d \in PolicyDocs : <<q.policy, d>> \in seen[c] /\ Permits(d, q.op, q.v.template)

(* What a comment says and the code does not do. *)

(* Material recorded as of approved lineage is only handed to FIPS 140      *)
(* validated modules (proto/store/key.proto, approved_lineage: "has been    *)
(* held only by validated modules since").                                  *)
ApprovedMaterialStaysInModules ==
    \A c \in Calls : RunningAt(c, "perform") /\ call[c].v.approved =>
        Desc[call[c].backend].certified

=============================================================================
