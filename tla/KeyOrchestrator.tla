--------------------------- MODULE KeyOrchestrator ---------------------------
(***************************************************************************)
(* The key orchestrator (service/key_orchestrator_impl.go and              *)
(* service/key_migrate.go): CreateKey, TransformKey, MigrateKey and        *)
(* DeleteKey requests running concurrently over one key repository, one    *)
(* policy store and one provider registry.                                 *)
(*                                                                         *)
(* Nothing spans the calls of a request: each call on the repository, the  *)
(* policy engine or the registry is a step, and other requests, policy     *)
(* edits and registry changes happen in between.  Work that touches no     *)
(* shared state (checks, GenerateKey, building the version) belongs to the *)
(* step of the call it follows.                                            *)
(*                                                                         *)
(* A step either proceeds or refuses; refusing leaves no trace but the end *)
(* of the request.  Requests the code rejects before its first call are    *)
(* never begun.                                                            *)
(***************************************************************************)
EXTENDS KeyAggregate, FiniteSets

CONSTANTS
    Requests,          \* slots for concurrent requests (goroutines)
    Specs,             \* what callers ask for, a subset of RequestSpec
    TemplateScopes,    \* the scopes each template's capabilities declare
    PolicyDocs,        \* rule documents a policy may have
    Rules,             \* the parsed sections of each document
    PolicyEdits,       \* what administrators may put: documents or NoPolicy
    Reconfigurable,    \* backends that may be registered and removed
    InitialRegistry,   \* backends registered at startup, in order
    InitialPolicies,   \* policies stored at startup
    MaxVersions,       \* bound on the versions of a key
    NoPolicy, NoTemplate, NoType, NoKeyId, NoVersion

VARIABLES
    registry,    \* registered backends in registration order
    policies,    \* the policy store: name -> document or NoPolicy
    req,         \* the state of each request
    inForce      \* history: <<name, document>> pairs stored while a request ran

vars == <<keys, registry, policies, req, inForce>>

(* core.KeyCreationSpec, TransformKeySpec, MigrateKeySpec and the name of a *)
(* delete in one record; fields an operation does not have are ignored.     *)
RequestSpec ==
    [op       : {"create", "transform", "migrate", "delete"},
     name     : KeyNames,
     policy   : PolicyNames,
     scope    : Scopes,
     template : Templates \union {NoTemplate},
     instance : Instances \union {NoInstance},
     type     : Types \union {NoType},
     retain   : BOOLEAN,
     strategy : Strategies,
     requires : Requirements]

(* The requests that pass the checks made before the first call:           *)
(* CreateKey's and TransformKey's argument checks, validateMigrationTarget *)
(* ...                                                                     *)
WellFormed(s) ==
    /\ s.op = "transform" => (s.retain => s.template # NoTemplate)
    /\ s.op = "migrate" => (s.instance = NoInstance) # (s.type = NoType)

(* ... and, for a migration that is to be carried out and not only assessed *)
(* (MigrationReport.tla), the rest of validateMigrateKeySpec.               *)
StrategyImplemented(s) == s.op = "migrate" => s.strategy \in ImplementedStrategies

(* The key-bound operations the orchestrators ask a policy about. *)
Operations == {"create_key", "sign", "verify", "digest_sign", "digest_verify",
               "encrypt", "decrypt"}

PolicyRules == [templates  : Seq(Templates),         \* allowed_templates
                operations : SUBSET Operations,      \* key_operations
                requires   : Requirements]           \* provider_requirements

Distinct(reg) == \A i, j \in DOMAIN reg : Desc[reg[i]].name = Desc[reg[j]].name => i = j

ASSUME OrchestratorAssumption ==
    /\ Specs \subseteq RequestSpec
    /\ \A s \in Specs : WellFormed(s)
    /\ TemplateScopes \in [Templates -> SUBSET Scopes]
    /\ Rules \in [PolicyDocs -> PolicyRules]
    /\ NoPolicy \notin PolicyDocs
    /\ PolicyEdits \subseteq PolicyDocs \union {NoPolicy}
    /\ Reconfigurable \subseteq Backends
    /\ InitialRegistry \in Seq(Backends)
    /\ Distinct(InitialRegistry)
    /\ InitialPolicies \in [PolicyNames -> PolicyDocs \union {NoPolicy}]
    /\ NoTemplate \notin Templates
    /\ NoKeyId \notin KeyIds
    /\ NoVersion \notin KeyVersion

Labels == {"getKey", "getVersion", "getSource", "requirements", "allowed", "servable",
           "match", "list", "search", "validate", "persist", "delete"}

(* A request's progress (pc) and its local variables. *)
Request ==
    [pc         : Labels,
     spec       : Specs,
     policy     : PolicyNames \union {""},
     key        : KeyIds \union {NoKeyId},
     at         : Nat,                                  \* current_version read
     last       : KeyVersion \union {NoVersion},        \* lastVersion
     source     : Backends \union {NoBackend},          \* migration.source
     custody    : Requirements,
     candidates : Seq(Templates),                       \* still to try with Match
     servable   : Seq(Templates),
     template   : Templates \union {NoTemplate},
     listing    : Seq(Backends),                        \* firstMigrationTarget's
     tried      : SUBSET Nat,                           \* positions passed over
     target     : Backends \union {NoBackend},
     new        : KeyVersion \union {NoVersion}]

Idle == [pc |-> "idle"]

Start(s) ==
    [pc         |-> IF s.op = "create" THEN "requirements" ELSE "getKey",
     spec       |-> s,
     policy     |-> IF s.op = "create" THEN s.policy ELSE "",
     key        |-> NoKeyId,
     at         |-> 0,
     last       |-> NoVersion,
     source     |-> NoBackend,
     custody    |-> NothingRequired,
     candidates |-> <<>>,
     servable   |-> <<>>,
     template   |-> NoTemplate,
     listing    |-> <<>>,
     tried      |-> {},
     target     |-> NoBackend,
     new        |-> NoVersion]

Active(r) == req[r] # Idle

At(r, label) == Active(r) /\ req[r].pc = label

-----------------------------------------------------------------------------
(* How a step ends. *)

Proceed(r, next) ==
    /\ req' = [req EXCEPT ![r] = next]
    /\ UNCHANGED <<keys, registry, policies, inForce>>

End(r) ==
    /\ req' = [req EXCEPT ![r] = Idle]
    /\ inForce' = [inForce EXCEPT ![r] = {}]

Refuse(r) == End(r) /\ UNCHANGED <<keys, registry, policies>>

(* The documents the policy engine may read for q's policy: the stored one, *)
(* or none when the policy is missing.                                      *)
Consulted(q) == {d \in PolicyDocs : q.policy \in PolicyNames /\ policies[q.policy] = d}

(* ValidateOperation(op, t) under document d. *)
Permits(d, op, t) ==
    /\ \E i \in DOMAIN Rules[d].templates : Rules[d].templates[i] = t
    /\ op \in Rules[d].operations

(* registry.Select over a list of candidates: the first that matches. *)
FirstInScope(ts, scope) ==
    {t \in Templates : \E i \in DOMAIN ts :
        /\ ts[i] = t
        /\ scope \in TemplateScopes[t]
        /\ \A j \in 1..(i - 1) : scope \notin TemplateScopes[ts[j]]}

PinNamed(q) == q.spec.instance    \* faulty: a transform is not pinned

Pin(q) == IF q.spec.op = "transform" THEN q.last.provider ELSE q.spec.instance

(* The scope of the version being made: a migration keeps it, the others    *)
(* store what the request asks for.                                         *)
ScopeOf(q) == IF q.spec.op = "migrate" THEN q.last.scope ELSE q.spec.scope

CustodyOfRequest(q, d) ==    \* faulty: the policy's requirements are lost
    IF q.spec.op = "create" THEN q.spec.requires ELSE NothingRequired

(* What custody() returns, but for the pin: a request adds to its policy's  *)
(* requirements and never relaxes them; only CreateKey's request has any.   *)
Custody(q, d) ==
    Merge(IF q.spec.op = "create" THEN q.spec.requires ELSE NothingRequired, Rules[d].requires)

(* Where a request goes once its template is known. *)
WithTemplate(q, t) ==
    [q EXCEPT !.template = t, !.pc = IF q.spec.op = "create" THEN "validate" ELSE "match"]

WithVersion(q, new) == [q EXCEPT !.new = new, !.pc = "persist"]

(* Proceed if ok, else return an error to the caller. *)
Check(r, ok, next) == \/ ok /\ Proceed(r, next)
                      \/ ~ok /\ Refuse(r)

-----------------------------------------------------------------------------
(* A request arrives. *)

Begin(r, s) ==
    /\ ~Active(r)
    /\ req' = [req EXCEPT ![r] = Start(s)]
    /\ inForce' = [inForce EXCEPT ![r] = {<<p, policies[p]>> : p \in PolicyNames}]
    /\ UNCHANGED <<keys, registry, policies>>

-----------------------------------------------------------------------------
(* Loading the key and its current version: keys.GetKeyByName and           *)
(* keys.GetVersion, two reads that a delete may come between.               *)

GetKey(r) ==
    LET q     == req[r]
        named == {k \in KeyIds : keys[k].status = "live" /\ keys[k].name = q.spec.name}
    IN
    /\ At(r, "getKey")
    /\ \/ \E k \in named :
            Proceed(r, [q EXCEPT !.pc     = IF q.spec.op = "delete" THEN "delete" ELSE "getVersion",
                                 !.key    = k,
                                 !.policy = keys[k].policy,
                                 !.at     = Len(keys[k].versions)])
       \/ named = {} /\ Refuse(r)

GetVersionUnscoped(r) ==    \* faulty: the scope may change
    LET q    == req[r]
        last == keys[q.key].versions[q.at]
    IN
    /\ At(r, "getVersion")
    /\ Check(r,
             keys[q.key].status = "live",
             [q EXCEPT !.pc   = IF q.spec.op = "migrate" THEN "getSource" ELSE "requirements",
                       !.last = last])

GetVersion(r) ==
    LET q    == req[r]
        last == keys[q.key].versions[q.at]
    IN
    /\ At(r, "getVersion")
    /\ Check(r,
             /\ keys[q.key].status = "live"
             /\ q.spec.op = "transform" => q.spec.scope = last.scope,
             [q EXCEPT !.pc   = IF q.spec.op = "migrate" THEN "getSource" ELSE "requirements",
                       !.last = last])

(* migrationSource: an instance that is no longer registered is no error. *)
GetSource(r) ==
    LET q    == req[r]
        here == Registered(registry, q.last.provider)
    IN
    /\ At(r, "getSource")
    /\ \E b \in (IF here = {} THEN {NoBackend} ELSE here) :
         Proceed(r, [q EXCEPT !.pc = "requirements", !.source = b])

-----------------------------------------------------------------------------
(* custody: the policy's provider requirements.  A migration then checks    *)
(* what its version and source decide (migrationTarget), a request with an  *)
(* explicit template that the template has the scope (pickTemplate).        *)

ReadRequirements(r) ==
    LET q == req[r]
        migrationPossible(custody) ==
            /\ q.spec.instance # q.last.provider
            /\ TransfersMaterial(q.spec.strategy) => KeepsLineage(custody, q.last)
            /\ SourceFeasible(q.spec.strategy, q.source, q.last)
    IN
    /\ At(r, "requirements")
    /\ \/ \E d \in Consulted(q) :
            LET custody == Custody(q, d)
                read    == [q EXCEPT !.custody = custody]
            IN
            \/ /\ q.spec.op = "migrate"
               /\ Check(r, migrationPossible(custody),
                        [read EXCEPT !.template = q.last.template,
                                     !.pc = IF q.spec.type = NoType THEN "match" ELSE "list"])
            \/ /\ q.spec.op # "migrate"
               /\ q.spec.template # NoTemplate
               /\ Check(r, ScopeOf(q) \in TemplateScopes[q.spec.template],
                        WithTemplate(read, q.spec.template))
            \/ /\ q.spec.op # "migrate"
               /\ q.spec.template = NoTemplate
               /\ Proceed(r, [read EXCEPT !.pc = "allowed"])
       \/ Consulted(q) = {} /\ Refuse(r)

(* pickTemplate without a template: the policy's allowed templates ... *)
ReadAllowed(r) ==
    LET q == req[r] IN
    /\ At(r, "allowed")
    /\ \/ \E d \in Consulted(q) :
            Proceed(r, [q EXCEPT !.pc = "servable", !.candidates = Rules[d].templates])
       \/ Consulted(q) = {} /\ Refuse(r)

(* ... each tried with one Match (servable) ... *)
TryCandidate(r) ==
    LET q == req[r]
        t == Head(q.candidates)
        served == Match(registry, Pin(q), q.custody, t) # {}
    IN
    /\ At(r, "servable")
    /\ q.candidates # <<>>
    /\ Proceed(r, [q EXCEPT !.candidates = Tail(@),
                            !.servable   = IF served THEN Append(@, t) ELSE @])

(* ... and of those the first that has the scope (registry.Select). *)
SelectTemplate(r) ==
    LET q      == req[r]
        chosen == FirstInScope(q.servable, ScopeOf(q))
    IN
    /\ At(r, "servable")
    /\ q.candidates = <<>>
    /\ \/ \E t \in chosen : Proceed(r, WithTemplate(q, t))
       \/ chosen = {} /\ Refuse(r)

-----------------------------------------------------------------------------
(* Choosing the provider: generateAndPersistKey's Match and GenerateKey for *)
(* a create, TransformKey's Match, migrationTarget for a named instance.    *)

MatchProvider(r) ==
    LET q == req[r]
        qualifies(b) == q.spec.op = "migrate" =>
                            TargetFeasible(q.spec.strategy, q.source, b, q.last)
        found == {b \in Match(registry, Pin(q), q.custody, q.template) : qualifies(b)}
        chosen(b) ==
            IF q.spec.op = "create"
            THEN WithVersion(q, NewVersion(1, q.template, b, ScopeOf(q),
                                           GeneratedPayload(b, q.template),
                                           GeneratedProvenance(b, q.template)))
            ELSE [q EXCEPT !.target = b, !.pc = "validate"]
    IN
    /\ At(r, "match")
    /\ \/ \E b \in found : Proceed(r, chosen(b))
       \/ found = {} /\ Refuse(r)

(* firstMigrationTarget: a listing taken once ... *)
ListTargets(r) ==
    /\ At(r, "list")
    /\ Proceed(r, [req[r] EXCEPT !.pc = "search", !.listing = registry])

UntriedOfAnyType(q) ==    \* faulty: the type asked for is forgotten
    {i \in DOMAIN q.listing \ q.tried : Desc[q.listing[i]].name # q.last.provider}

(* ... whose instances of the wanted type are tried in Rank's order, each   *)
(* by name, against the registry as it is by then.                          *)
Untried(q) ==
    {i \in DOMAIN q.listing \ q.tried :
        /\ Desc[q.listing[i]].type = q.spec.type
        /\ Desc[q.listing[i]].name # q.last.provider}

TryTargetAgain(r) ==    \* faulty: never moves on
    LET q == req[r]
        found(i) == {b \in MatchPinned(registry, Desc[q.listing[i]].name, q.custody, q.template) :
                        TargetFeasible(q.spec.strategy, q.source, b, q.last)}
    IN
    /\ At(r, "search")
    /\ \/ \E i \in Untried(q) :
            /\ \A j \in Untried(q) \ {i} : RanksBefore(q.listing, q.custody, q.template, i, j)
            /\ \/ \E b \in found(i) : Proceed(r, [q EXCEPT !.target = b, !.pc = "validate"])
               \/ found(i) = {} /\ Proceed(r, q)
       \/ Untried(q) = {} /\ Refuse(r)

TryTargetRelisting(r) ==    \* faulty: an unfit target has it list again
    LET q == req[r]
        found(i) == {b \in MatchPinned(registry, Desc[q.listing[i]].name, q.custody, q.template) :
                        TargetFeasible(q.spec.strategy, q.source, b, q.last)}
    IN
    /\ At(r, "search")
    /\ \/ \E i \in Untried(q) :
            /\ \A j \in Untried(q) \ {i} : RanksBefore(q.listing, q.custody, q.template, i, j)
            /\ \/ \E b \in found(i) : Proceed(r, [q EXCEPT !.target = b, !.pc = "validate"])
               \/ found(i) = {} /\ Proceed(r, [q EXCEPT !.pc = "list"])
       \/ Untried(q) = {} /\ Refuse(r)

TryTarget(r) ==
    LET q == req[r]
        found(i) == {b \in MatchPinned(registry, Desc[q.listing[i]].name, q.custody, q.template) :
                        TargetFeasible(q.spec.strategy, q.source, b, q.last)}
    IN
    /\ At(r, "search")
    /\ \/ \E i \in Untried(q) :
            /\ \A j \in Untried(q) \ {i} : RanksBefore(q.listing, q.custody, q.template, i, j)
            /\ \/ \E b \in found(i) : Proceed(r, [q EXCEPT !.target = b, !.pc = "validate"])
               \/ /\ found(i) = {}
                  /\ Proceed(r, [q EXCEPT !.tried = @ \union {i}])
       \/ Untried(q) = {} /\ Refuse(r)

-----------------------------------------------------------------------------
(* policy.ValidateOperation(create_key, template), then what needs no more  *)
(* shared state: the provenance and the material of the new version.        *)

(* transformProvenance and transformKeyMaterial. *)
MayRetain(q) ==
    /\ KeepsLineage(q.custody, q.last)
    /\ RetainFeasible(q.target, q.last, q.template)
    /\ <<q.last.template, q.template>> \in Compatible

Keeps(q) == \/ q.spec.op = "transform" /\ q.spec.retain
            \/ q.spec.op = "migrate" /\ q.spec.strategy = "PROVIDER_SWITCH"

NextVersionUnmarked(q) ==    \* faulty: kept material passes for generated
    NewVersion(q.last.version + 1, q.template, q.target, ScopeOf(q),
               IF Keeps(q) THEN q.last.payload ELSE GeneratedPayload(q.target, q.template),
               GeneratedProvenance(q.target, q.template))

NextVersion(q) ==
    LET kind == IF q.spec.op = "transform" THEN "RETAINED" ELSE "TRANSFERRED"
    IN IF Keeps(q)
       THEN NewVersion(q.last.version + 1, q.template, q.target, ScopeOf(q),
                       q.last.payload, KeptProvenance(q.last, q.target, q.template, kind))
       ELSE NewVersion(q.last.version + 1, q.template, q.target, ScopeOf(q),
                       GeneratedPayload(q.target, q.template),
                       GeneratedProvenance(q.target, q.template))

ValidateOp(r) ==
    LET q       == req[r]
        allowed == \E d \in Consulted(q) : Permits(d, "create_key", q.template)
    IN
    /\ At(r, "validate")
    /\ \/ /\ q.spec.op = "create"
          /\ Check(r, allowed, [q EXCEPT !.pc = "match"])
       \/ /\ q.spec.op # "create"
          /\ Check(r, allowed /\ (q.spec.op = "transform" /\ q.spec.retain => MayRetain(q)),
                   WithVersion(q, NextVersion(q)))

-----------------------------------------------------------------------------
(* The write.  CreateKey and AddVersion of key.Repository are atomic;       *)
(* AddVersion takes only the version after the current one, so of the       *)
(* requests that read the same version at most one succeeds.  A write at a  *)
(* bound of the model is refused like any other.                            *)

Write(r, k, key) ==
    /\ keys' = [keys EXCEPT ![k] = key]
    /\ End(r)
    /\ UNCHANGED <<registry, policies>>

PersistKey(r) ==
    LET q     == req[r]
        fresh == {k \in KeyIds : keys[k].status = "unused"}
    IN
    /\ At(r, "persist")
    /\ q.spec.op = "create"
    /\ \/ \E k \in fresh : Write(r, k, [status   |-> "live",
                                        name     |-> q.spec.name,
                                        policy   |-> q.policy,
                                        versions |-> <<q.new>>])
       \/ fresh = {} /\ Refuse(r)

PersistUnnumbered(r) ==    \* faulty: the current version is not checked
    LET q   == req[r]
        old == keys[q.key]
        ok  == old.status = "live" /\ Len(old.versions) < MaxVersions
    IN
    /\ At(r, "persist")
    /\ q.spec.op # "create"
    /\ \/ ok /\ Write(r, q.key, [old EXCEPT !.versions = Append(@, q.new)])
       \/ ~ok /\ Refuse(r)

PersistInPlace(r) ==    \* faulty: the new version takes the place of the last
    LET q   == req[r]
        old == keys[q.key]
        ok  == old.status = "live" /\ q.new.version = Len(old.versions) + 1
    IN
    /\ At(r, "persist")
    /\ q.spec.op # "create"
    /\ \/ ok /\ Write(r, q.key, [old EXCEPT !.versions[q.last.version] = q.new])
       \/ ~ok /\ Refuse(r)

PersistVersion(r) ==
    LET q   == req[r]
        old == keys[q.key]
        ok  == /\ old.status = "live"
               /\ q.new.version = Len(old.versions) + 1
               /\ q.new.version <= MaxVersions
    IN
    /\ At(r, "persist")
    /\ q.spec.op # "create"
    /\ \/ ok /\ Write(r, q.key, [old EXCEPT !.versions = Append(@, q.new)])
       \/ ~ok /\ Refuse(r)

DeleteKey(r) ==
    LET q == req[r] IN
    /\ At(r, "delete")
    /\ \/ keys[q.key].status = "live" /\ Write(r, q.key, NoKey("deleted"))
       \/ keys[q.key].status # "live" /\ Refuse(r)

(* Any call a request makes may fail: storage, policy engine, provider. *)
DependencyError(r) == Active(r) /\ Refuse(r)

-----------------------------------------------------------------------------
(* What goes on around the requests. *)

(* CreatePolicy, UpdatePolicy (d a document) and DeletePolicy (NoPolicy). *)
PutPolicy(p, d) ==
    /\ policies[p] # d
    /\ policies' = [policies EXCEPT ![p] = d]
    /\ inForce' = [r \in Requests |->
                     IF Active(r) THEN inForce[r] \union {<<p, d>>} ELSE inForce[r]]
    /\ UNCHANGED <<keys, registry, req>>

RegisterTwice(b) ==    \* faulty: a taken name is not refused
    /\ \A i \in DOMAIN registry : registry[i] # b
    /\ registry' = Append(registry, b)
    /\ UNCHANGED <<keys, policies, req, inForce>>

(* provider.Registry.Register and Remove, on the order it keeps. *)
RegisterBackend(b) ==
    /\ Registered(registry, Desc[b].name) = {}
    /\ registry' = Append(registry, b)
    /\ UNCHANGED <<keys, policies, req, inForce>>

RemoveBackend(b) ==
    /\ \E i \in DOMAIN registry :
         /\ registry[i] = b
         /\ registry' = [j \in 1..(Len(registry) - 1) |->
                           IF j < i THEN registry[j] ELSE registry[j + 1]]
    /\ UNCHANGED <<keys, policies, req, inForce>>

-----------------------------------------------------------------------------

Init ==
    /\ KeysInit
    /\ registry = InitialRegistry
    /\ policies = InitialPolicies
    /\ req = [r \in Requests |-> Idle]
    /\ inForce = [r \in Requests |-> {}]

(* The steps of a request that succeed or are refused for cause. *)
Step(r) ==
    \/ GetKey(r) \/ GetVersion(r) \/ GetSource(r)
    \/ ReadRequirements(r)
    \/ ReadAllowed(r) \/ TryCandidate(r) \/ SelectTemplate(r)
    \/ MatchProvider(r) \/ ListTargets(r) \/ TryTarget(r)
    \/ ValidateOp(r)
    \/ PersistKey(r) \/ PersistVersion(r) \/ DeleteKey(r)

Environment ==
    \/ \E p \in PolicyNames, d \in PolicyEdits : PutPolicy(p, d)
    \/ \E b \in Reconfigurable : RegisterBackend(b) \/ RemoveBackend(b)

Next ==
    \/ \E r \in Requests, s \in Specs : StrategyImplemented(s) /\ Begin(r, s)
    \/ \E r \in Requests : Step(r) \/ DependencyError(r)
    \/ Environment

Spec == Init /\ [][Next]_vars

(* A request runs in its caller's goroutine, which the Go scheduler keeps   *)
(* running; nothing obliges callers, administrators or failures to occur.   *)
FairSpec == Spec /\ \A r \in Requests : WF_vars(Step(r))

-----------------------------------------------------------------------------
(* Properties *)

TypeOK ==
    /\ KeysTypeOK
    /\ registry \in Seq(Backends)
    /\ Distinct(registry)
    /\ policies \in [PolicyNames -> PolicyDocs \union {NoPolicy}]
    /\ req \in [Requests -> Request \union {Idle}]
    /\ inForce \in [Requests -> SUBSET (PolicyNames \X (PolicyDocs \union {NoPolicy}))]

(* What a request remembers of its key stays true while the key lives: the  *)
(* version it read is still the key's version of that number, under the     *)
(* same policy.  Keys only grow, and an id is never issued again.           *)
Remembers(q) ==
    LET k == keys[q.key] IN
    /\ q.key \in KeyIds
    /\ k.status # "unused"
    /\ k.status = "live" =>
         /\ q.at \in DOMAIN k.versions
         /\ k.policy = q.policy
         /\ q.last # NoVersion =>
              /\ q.last.version \in DOMAIN k.versions
              /\ k.versions[q.last.version] = q.last

SnapshotIsPast ==
    \A r \in Requests :
        Active(r) /\ req[r].spec.op # "create" /\ req[r].pc # "getKey" => Remembers(req[r])

(* What has been established of a request by the time it reaches a label:   *)
(* the local half of the inductive invariant.                               *)
Stages(op) ==
    CASE op = "create"    -> {"requirements", "allowed", "servable", "validate", "match", "persist"}
      [] op = "transform" -> {"getKey", "getVersion", "requirements", "allowed", "servable",
                              "match", "validate", "persist"}
      [] op = "migrate"   -> {"getKey", "getVersion", "getSource", "requirements", "match",
                              "list", "search", "validate", "persist"}
      [] op = "delete"    -> {"getKey", "delete"}

HasLast(q) == q.spec.op \in {"transform", "migrate"} /\ q.pc \notin {"getKey", "getVersion"}

TargetChosen(q) ==
    /\ q.target \in Backends
    /\ q.spec.op = "transform" => Desc[q.target].name = q.last.provider
    /\ q.spec.op = "migrate" =>
         /\ Desc[q.target].name # q.last.provider
         /\ TargetFeasible(q.spec.strategy, q.source, q.target, q.last)

Built(q) ==
    /\ q.new \in KeyVersion
    /\ q.spec.op = "create" => q.new.version = 1 /\ Generated(q.new)
    /\ q.spec.op # "create" =>
         /\ q.new.version = q.last.version + 1
         /\ q.new.scope = q.last.scope
         /\ Generated(q.new) \/ KeptFrom(q.new, q.last)

StageOK(q) ==
    /\ q.pc \in Stages(q.spec.op)
    /\ q.spec.op = "create" => q.policy \in PolicyNames
    /\ IF HasLast(q) THEN q.last \in KeyVersion ELSE q.last = NoVersion
    /\ HasLast(q) => ScopeOf(q) = q.last.scope
    /\ q.pc \in {"match", "list", "search", "validate"} =>
         /\ q.template \in Templates
         /\ q.spec.op = "migrate" =>
              /\ q.template = q.last.template
              /\ SourceFeasible(q.spec.strategy, q.source, q.last)
    /\ q.pc = "match" /\ q.spec.op = "migrate" =>
         q.spec.instance \in Instances \ {q.last.provider}
    /\ q.pc = "validate" /\ q.spec.op # "create" => TargetChosen(q)
    /\ q.pc = "persist" => Built(q)

StagesOK == \A r \in Requests : Active(r) => StageOK(req[r])

(* What is about to be written was permitted by a version of its policy in  *)
(* force during the request, and placed on a provider meeting the           *)
(* requirements of one, lineage included (CreateKey's and TransformKey's    *)
(* policy checks; MigrateKeySpec's comment, "the target must meet the       *)
(* policy").  They may be two different versions of the policy.             *)
PlacedUnderAPolicyInForce ==
    \A r \in Requests : At(r, "persist") =>
        LET q      == req[r]
            docs   == {d \in PolicyDocs : <<q.policy, d>> \in inForce[r]}
        IN /\ \E d \in docs : Permits(d, "create_key", q.new.template)
           /\ \E d \in docs :
                /\ Meets(q.new.placed, Rules[d].requires)
                /\ Kept(q.new) => KeepsLineage(Rules[d].requires, q.last)

(* A policy all of whose versions require approved generation never has a   *)
(* key with a version whose material was generated or kept by a module that *)
(* is not certified (core.ProviderRequirements.ApprovedGeneration).         *)
AlwaysStrict(p) ==
    \A d \in PolicyDocs \intersect ({InitialPolicies[p]} \union PolicyEdits) :
        Rules[d].requires.approved

StrictPolicyKeepsLineage ==
    \A k \in KeyIds : keys[k].status = "live" /\ AlwaysStrict(keys[k].policy) =>
        \A i \in DOMAIN keys[k].versions : keys[k].versions[i].approved

(* Of the type q's migration asked for when q took its listing.  What was   *)
(* not registered then may have taken the name of such an instance since,   *)
(* and may be of any type; what was listed has the type itself.             *)
ListedWithItsType(q, b) ==
    \E i \in DOMAIN q.listing :
        LET listed == q.listing[i] IN
        /\ Desc[listed].type = q.spec.type
        /\ Desc[listed].name = Desc[b].name
        /\ b = listed \/ \A j \in DOMAIN q.listing : q.listing[j] # b

(* A new version is written by a request that had read the version it       *)
(* follows, so no concurrent writer's version is built over unseen; it      *)
(* keeps what the operation promises, a transform the provider instance, a  *)
(* migration the template; and a migration moves it to another instance,    *)
(* the one that was named or, when a type was, one that carried the name of *)
(* an instance of that type (service/key_orchestrator.go, TransformKey and  *)
(* MigrateKey).  The promise of MigrateKeySpec's comment that it is itself  *)
(* of that type is LandsOnItsType below.                                    *)
Honours(q, u, v) ==
    /\ q.last = u
    /\ q.spec.op = "transform" =>
         /\ v.provider = u.provider
         /\ q.spec.template # NoTemplate => v.template = q.spec.template
         /\ q.spec.retain => v.payload = u.payload
    /\ q.spec.op = "migrate" =>
         /\ v.provider # u.provider
         /\ v.template = u.template
         /\ q.spec.instance # NoInstance => v.provider = q.spec.instance
         /\ q.spec.type # NoType => ListedWithItsType(q, v.placed)
         /\ q.spec.strategy = "PROVIDER_SWITCH" => v.payload = u.payload

NewVersionHonoursItsRequest ==
    [][\A k \in KeyIds :
         LET vs == keys[k].versions IN
         keys[k].status = "live" /\ Len(keys'[k].versions) > Len(vs) =>
             \E r \in Requests :
                 /\ At(r, "persist")
                 /\ req[r].key = k
                 /\ Honours(req[r], vs[Len(vs)], keys'[k].versions[Len(vs) + 1])]_vars

(* A request only ever moves on: to a later call, or to fewer candidates or *)
(* fewer targets of the listing it took (pickTemplate, firstMigrationTarget *)
(* and their callers).  No retry, and nothing that others do meanwhile,     *)
(* sends it back, so a request makes finitely many calls.                   *)
Course(op) ==
    IF op = "create"
    THEN <<"requirements", "allowed", "servable", "validate", "match", "persist">>
    ELSE <<"getKey", "getVersion", "getSource", "requirements", "allowed", "servable",
           "match", "list", "search", "validate", "persist", "delete">>

Later(op, from, to) ==
    \E i, j \in DOMAIN Course(op) : i < j /\ Course(op)[i] = from /\ Course(op)[j] = to

MovedOn(q, next) ==
    /\ next.spec = q.spec
    /\ \/ Later(q.spec.op, q.pc, next.pc)
       \/ /\ next.pc = q.pc
          /\ Len(next.candidates) < Len(q.candidates)
       \/ /\ next.pc = q.pc
          /\ next.candidates = q.candidates
          /\ next.listing = q.listing
          /\ Untried(next) \subseteq Untried(q)
          /\ Untried(next) # Untried(q)

RequestsMoveOn ==
    [][\A r \in Requests :
         Active(r) /\ Active(r)' /\ req'[r] # req[r] => MovedOn(req[r], req'[r])]_vars

(* Every request returns, whatever the others, the policies and the         *)
(* registry do meanwhile.                                                   *)
EveryRequestReturns == \A r \in Requests : Active(r) ~> ~Active(r)

(* What a comment says and the code does not do. *)

(* A migration to a provider type lands on an instance of that type         *)
(* (service/key_migrate.go, MigrateKeySpec: "the first instance of that     *)
(* type that ... can carry out the strategy is used").                      *)
LandsOnItsType ==
    \A r \in Requests : At(r, "persist") /\ req[r].spec.op = "migrate" /\ req[r].spec.type # NoType =>
        Desc[req[r].new.placed].type = req[r].spec.type

=============================================================================
