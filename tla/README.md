# citius-core in TLA+

Specifications of the core of citius-core: the services that create, transform,
migrate and use cryptographic keys, with the policy engine and the provider
registry they consult. TLC checks them on small instances; the central ones are
proved with TLAPS for every value of their constants. Paths below are relative
to the repository.

- [1. The system](#1-the-system)
- [2. What can go wrong](#2-what-can-go-wrong)
- [3. The modules and the code](#3-the-modules-and-the-code)
- [4. The runs](#4-the-runs)
- [5. The proofs](#5-the-proofs)
- [6. Where comments and code differ](#6-where-comments-and-code-differ)
- [7. What is not modelled](#7-what-is-not-modelled)
- [8. Plan](#8-plan)

## 1. The system

| Component (source) | State | Operations | Correct when |
|---|---|---|---|
| Key orchestrator (`service/key_orchestrator_impl.go`, `key_migrate.go`) | none of its own; each request's local variables | CreateKey, TransformKey, MigrateKey, DeleteKey; reads ReadKey, ListKeys; RotateKey and others return NotImplemented | versions are numbered, of one scope and of sound lineage; a version is placed as its request and policy say; requests return |
| Migration report (`service/key_migrate_validate.go`) | none of its own | ValidateMigration | it foretells what MigrateKey does, of one policy per strategy, changes nothing, and returns |
| Transfer rules (`service/transfer_plan.go`, `key_provenance.go`, `provider/transfer.go`) | none | feasibility of a strategy, provenance of a version | material only moves over open channels; recorded lineage never better than the truth |
| Crypto orchestrator (`service/crypto_orchestrator_impl.go`) | none of its own | Sign, Verify, DigestSign, DigestVerify, Encrypt, Decrypt | an artifact is taken back by the version that made it; lifecycle and policy are respected |
| Key aggregate (`key/key.go`, `key_version.go`, `repository.go`) | a key, its lifecycle state and versions | NewKey, UpdateState, the repository's atomic writes | current version = number of versions; the state machine |
| Provider registry (`provider/registry.go`, `match.go`) | map by name, order, index by template, under one RWMutex | Register, Remove; Get, List, Match, Rank | the three agree; Match returns a registered, eligible backend, the best ranked |
| Policy enforcer (`policy/enforcer.go`, `rules.go`, `simple_evaluator.go`) | the policy store | Create-, Update-, Delete-, List-, GetPolicy; ValidateOperation, AllowedTemplates, ProviderRequirements | only valid documents are stored; creates do not overwrite; deny by default |
| Template registry, catalog, matcher (`template/`) | the registry, filled from the catalog file at every start; never stored | LoadStandardCatalog, Register, Select, MatchesScope, SupportsOperation, CompatibleKeyMaterial | only valid templates are reachable; stored versions stay usable under every catalog that has their template; hash lists stay within the offer |
| Scopes, primitives, specifications (`scope*.go`, `primitive*.go`) | none; a specification is stored with each version | tables; ToProto, ScopeSpecificationFromProto | storing what was read back changes nothing |
| Errors, ids, protocol buffers | none | - | - |

The orchestrators hold no lock and keep nothing between requests. A request is a
sequence of calls on three shared services - the key repository, the policy
engine and the provider registry - and reads again what it needs at each. There
is no transaction over two calls: the only coordination is that the repository
writes atomically, that `AddVersion` refuses a version number other than the one
after the current, and that the registry locks each of its methods.

## 2. What can go wrong

`PROJECT.json` lists the hazards at their lines. The hard ones are

- two requests of one key reading the same current version (optimistic
  concurrency by version number);
- a policy, or the registry, replaced between two reads of one request: policy
  documents are read up to three times, providers are looked up by a name that
  may have changed hands;
- a long sequence of retains, switches and rekeys that would launder the
  recorded `extractable` and `approved_lineage` of material;
- key state, policy and version read one after the other by a crypto operation;
- check-then-write in the policy store;
- the registry's three structures, maintained from lists asked of the backends
  at different times;
- what a version stores of its request - scope, flags, accepted digest hashes -
  resolved anew by each transform, copied by each migration, read back through a
  proto form that does not distinguish everything;
- a restart with another catalog under the versions of the last one;
- a report whose strategies are assessed one after the other, under policies
  and a registry that change in between.

## 3. The modules and the code

```
ProviderMatching              Requirements, Merge, Meets, Rank, Match   (operators)
  |-- ProviderListing         what the registry promises: the abstract specification
  |     `-- ProviderRegistry        map, order, index of provider/registry.go
  |           `-- ProviderRegistry_proofs
  `-- KeyTransfer             channels, feasibility, provenance         (operators)
        `-- KeyAggregate            what a key is: the abstract specification
              |-- KeyAggregate_proofs
              `-- KeyOrchestrator         requests, policies, registry
                    |-- KeyOrchestrator_proofs, KeyPolicy_proofs
                    |-- CryptoOrchestrator    crypto calls, lifecycle
                    |     `-- CryptoOrchestrator_proofs
                    `-- MigrationReport       reports beside requests
                          `-- MigrationReport_proofs
ScopeSpecification            scopes, specifications, stored form       (operators)
  `-- TemplateMatching        matching, hash lists, key material        (operators)
        `-- TemplateContract        catalog, versions, digest signing
              `-- TemplateContract_proofs
PolicyEnforcer                the policy store and its administrators
  `-- PolicyEnforcer_proofs
```

`MC*.tla` give the constants their values; a run's cfg is `<MC module>_<run>.cfg`.
Definitions marked `faulty` are wrong on purpose: each is a plausible bug of the
code which, put in the place of the definition it imitates, violates a property.
They are used by no specification.

**ProviderMatching.** A backend is a value described by `Desc`: instance name,
type, advertised templates, certification, FIPS level, properties, hardware,
channels. `Match` is the set of backends `registry.Match` may return: at most
one. `RanksBefore` is the stable order of `provider.Rank`.

**KeyTransfer.** A stored payload is identified by the backend and template that
generated it and its encoding. `Emit` and `Accept` are `TransferOf` with the
FIPS 140 closing: a certified module not at level 1 or 2 has only its wrapped
channels. `SourceFeasible`, `TargetFeasible`, `RetainFeasible`,
`GeneratedProvenance` and `KeptProvenance` are the functions of those names. A
version has one history field, `placed`: the backend it was matched with (the
code stores only the instance name).

**KeyAggregate.** The promise: a key is created with one generated version,
grows by one version at a time, generated or kept from its predecessor
(`KeptFrom`), and disappears whole. Its `LineageSound` collects what the versions
say of each other.

**KeyOrchestrator.** `req[r]` is one goroutine's request: the label of its next
call and its local variables. The correspondence:

| Action | Call in the code |
|---|---|
| `Begin` | arrival, after the argument checks (`WellFormed`; of a migration, `StrategyImplemented`) |
| `GetKey`, `GetVersion` | `keys.GetKeyByName`, `keys.GetVersion`; `validateTransformScope` |
| `GetSource` | `migrationSource`: `providers.Get`; not registered is no error |
| `ReadRequirements` | `custody`: `policy.ProviderRequirements`; then `requireKeptLineage`, `sourceFeasibility` of a migration, or the scope check of an explicit template |
| `ReadAllowed`, `TryCandidate`, `SelectTemplate` | `pickTemplate`: allowed templates, one Match each (`servable`), `registry.Select` |
| `MatchProvider` | `providers.Match`, and GenerateKey of a create |
| `ListTargets`, `TryTarget` | `firstMigrationTarget` over one listing |
| `ValidateOp` | `policy.ValidateOperation`, then provenance and material of the version |
| `PersistKey`, `PersistVersion`, `DeleteKey` | the repository's atomic writes |
| `DependencyError` | any call may fail |
| `PutPolicy`, `RegisterBackend`, `RemoveBackend` | administrators |

What touches no shared state (argument checks, GenerateKey, NewID) belongs to the
step of the call before it. A refusal leaves no trace but the end of the request,
whatever its error code. `ValidateKeyCreation` of the enforcer is a stub and is
not a step. `inForce` is history: the policy documents stored while a request
ran.

**CryptoOrchestrator** extends it with `call[c]` (one crypto operation each:
`LoadKey`, `LoadVersion`, `Authorize`, `Dispatch`, then `Produce` or `Consume`),
the `artifacts` callers keep (signature or ciphertext with the metadata the code
returns; which key and version made it is history) and the lifecycle `state`.
`UpdateState` is a caller loading, updating and storing a key, as one step: no code
of the repository does it yet. `StateOfStoredKeys` ties the state to the
key's creation and deletion. `seen` is history as `inForce` is.

**PolicyEnforcer.** The store's calls are atomic, the enforcer's methods several
of them. A document is a record of its sections; `Valid` is `Rules.Validate` after a parse. A
create takes every failed read, not only "not found", for the absence of a duplicate, as
`err == nil` does. To KeyOrchestrator all writes are `PutPolicy`; evaluation
(absent section = deny) appears there as `Rules`, with absent sections empty.

**MigrationReport** puts reports beside the requests of KeyOrchestrator. The code
runs MigrateKey's own functions (`loadMigration`, `checkMigration`) for each
strategy, so `V == INSTANCE KeyOrchestrator` has a second set of slots, `probe`,
whose steps are those of migrate requests. `report[v]` holds the strategies left, the
migration as loaded (once), and the assessments so far; `Conclude` notes one
and starts the next strategy from what was loaded. A refusal for cause makes a
strategy infeasible; a missing policy or a failing dependency ends the report, but for
a target that is the key's own instance, which is refused before the policy is read. `seen`
is to probes what `inForce` is to requests, begun anew for each strategy; `calm`
is history: the report began when no request was in progress, and keys, registry
and policies are as they were then.

**ScopeSpecification** has the tables of scopes and primitives, the specification
and `ToProto`/`FromProto`, with what they lose: properties of another
primitive than the scope's are dropped, properties that ask for nothing come back as
none. **TemplateMatching** has `MatchesScope` with its three outcomes
(yes, no, error), `SupportsOperation`, `ScopeSpecFor`, the resolution of digest
hash lists and `CompatibleKeyMaterial`.

**TemplateContract** joins them over time. The server starts with a catalog
`edition`, visits its entries in any order (a Go map), stops at the first
invalid one, and serves with whatever is `registered` when the load has ended; a
restart begins again with another edition, while `versions` stay. The requests of
one key are one step each: their interleaving is KeyOrchestrator's subject. The
template a request gets is any allowed one that matches, as which of them a
provider serves varies. `signatures` are the digests callers signed. `named` and
`generated` of a version are history.

**ProviderListing** is what users of the registry see: a list with distinct names,
that grows at its end and loses one backend at a time.

**ProviderRegistry.** Every method holds the mutex from beginning to end, so it
is one step. Registration appends a name to the index once per occurrence in
the backend's list and removal takes out as many; `supported` is what a backend answers
now, which for those in `Changing` may vary.
`ImplementsListing` (the refinement of ProviderListing) and `MatchAgrees` justify that the other modules see a
sequence of backends and `Match` on it.

## 4. The runs

| Run | Instance | Checks |
|---|---|---|
| race | 2 requests on 1 key id, 3 versions, 3 backends | `LineageSound`, `SnapshotIsPast`, `StagesOK`, `KeysSpec` (implements KeyAggregate), `NewVersionHonoursItsRequest` |
| types | 1 request at a time, 2 policies (open, later perhaps strict; always strict), 7 backends, modules replaced by a sink or a software stand-in | `TypeOK`, `LineageSound`, `PlacedUnderAPolicyInForce`, `StrictPolicyKeepsLineage`, `FipsLevelsRespected`, `NewVersionHonoursItsRequest`, `RequestsMoveOn` |
| report | 1 report on all strategies or one, 1 request, 2 versions, a vault that ranks before the module, the policy made strict or deleted at any time | `ReportTypeOK`, `ReportPredictsMigrateKey`, `FeasibleUnderAPolicyInForce`, `RekeyIsTheWeakerDemand` |
| returns | 1 request and 1 report, fair; a module removed and registered for ever | `EveryRequestReturns`, `EveryReportReturns` |
| use | 1 call, 1 request, 2 key ids with one name, 2 versions; suspension and policy changes | `CryptoTypeOK`, `TakenBackByItsMaker`, `ContractKept`, `PerformedWithinItsRights` |
| contract | 7 templates (one declares a scope twice, one has a capability without a scope, two are invalid), 4 catalogs, 7 specifications asked for, 3 versions, 1 signature, 2 hashes | `TypeOK`, `SingleChokePoint`, `NeverCorrupt`, `ReadBackIsAccepted`, `SignedWithinTheOffer`, `RetainedMaterialFits`, `SignaturesStayVerifiable`, `ComparableWithAll` |
| store | 2 administrators, 2 names, 8 documents (6 invalid, one per way) | `TypeOK` (with: only valid documents stored), `ListIsOfItsTime` |
| registry | 5 backends under 4 names, one with a changing list, duplicates in lists | `TypeOK`, `OrderMatchesMap`, `IndexFollowsOrder`, `MatchAgrees`, `ImplementsListing`, `MatchIsSound` |
| standin, samehash, writerace, retyped | see section 6 | one property each, violated |

All but `returns` start from `Spec` without fairness; deadlock is checked in every
run, so some step is always possible.

**Bounds.** Two requests are what optimistic concurrency needs: requests interact
only through `keys`, and a third reader of the same version loses like the
second. Three versions (`MaxVersions`) make a chain kept twice - a material's
third holder, where lineage is inherited from an inheritor - and two
suffice where no chain is at stake. One
key id is enough where properties are per key. `use` has two, to pass a name on after a
delete: `OneKeyAtATime` cuts off states in which two live keys share the name, which the
repository's contract does not exclude and the proofs include, and ids are
interchangeable (`KeyIdSymmetry`). It calls DigestSign and Encrypt and their inverses; Sign
and Verify take the same steps under other names, and Sign is what `standin` calls. The seven backends are the kinds the rules tell apart: software; a level 2 module; a
level 1 module that releases nothing and goes by the same name; a software instance that takes a
module's name; certified modules at levels 3 and 4 and one at no reported level (0),
whose advertised channels are closed. A run has those its question needs. Writes at `MaxVersions`, or with no unused id, are refused, which
every request must expect anyway. `MaxArtifacts` bounds what callers keep: an
artifact is compared with its own key only. One call at a time suffices in
`use`: calls change nothing that other calls read but `artifacts`, which only grow.
One report and one request are enough in `report` for the like reason: reports write
nothing. In `contract` three versions give a chain retained twice and a migration after a
transform. The catalogs are one good, one in which a template in use is retired or
missing, and two that fail to load; the two specifications that
`NewScopeSpecification` would refuse are there because the type is exported and can be
built without it. Two hashes make lists that are equal, narrower, reordered or disjoint. `MaxNames`
bounds the index, which stale names would let grow for ever.

**Fairness.** `FairReportSpec` has weak fairness of each request's and of each report's own steps: a request
or report runs in its caller's goroutine, which the Go scheduler runs again and again, and
none of its steps waits for another actor. Nothing obliges callers to call,
administrators to edit, or dependencies to fail, and `DependencyError` is not
what makes requests return. Each step leads to a later label, or shortens
`candidates`, or grows `tried` within a fixed listing, and nothing that others do sends
a request back: that half of `EveryRequestReturns` is a safety property of its own,
`RequestsMoveOn`, and is proved. A report has finitely many strategies, each of
which is assessed as a request is.

## 5. The proofs

`KeyAggregate_proofs` proves `LineageSound` of the abstract specification
(`AggregateLineage`). `LineageSound` is not inductive: that material is
extractable is what allows the next move, so `LineageInv` adds
`ExtractableChain` (material recorded as extractable was released by every holder) and
`TakenInOpenly` (material that was moved is where it could be taken in).
`FipsLevelsRespected` is read off the two: what is released or taken in as it is stored
passes a plaintext channel, and those of a certified module are closed but at levels 1 and 2
(`OpenIsPermitted`). The core is
`NextVersionSound`: appending a generated version, or one kept from the last,
preserves each part, because the chain of the new version is the new position
alone or the last one's chain with the new position (`ChainAppend`).

`KeyOrchestrator_proofs` proves for any sets of requests, keys, backends,
templates and documents:

- `Invariant`: `IInv`, the conjunction of `TypeOK`, `LineageInv`,
  `SnapshotIsPast` and `StagesOK`. `SnapshotIsPast` is needed because a request
  writes long after it read; it is stable because keys only grow
  (`GrowthKeepsMemory`) and ids are not reused. `StagesOK` says what each label
  may count on - the target is on another instance and feasible, the version
  about to be written is generated or kept from the one read - and is why
  `PersistVersion` is a `VersionAdded`.
- `TypesCorrect`, `SnapshotsStayTrue`, `StagesHold`: its parts.
- `Refinement`: `Spec => KeysSpec`; every step creates a key, adds a version, deletes a
  key or leaves `keys` alone.
- `LineageAlwaysSound`, `LevelsRespected`: by `Invariant`.

The proof of `Invariant` has one lemma per action (`GetKeyOK`, `ReadRequirementsOK`, ...);
`ProceedOK`, `RefuseOK` and `LocalStep` reduce a step that touches no shared
state to a fact about the one request.

`KeyPolicy_proofs` proves what a request writes, for the same generality, by a second
invariant `PInv` beside `IInv`: the custody a request carries is that of a
document its policy had while it ran (`Ruled`), the place it has chosen is the
one it named, or has the name of an instance it listed with the type it named (`Requested`). Both speak only of the request's own variables and of
a set of documents that only grows, so no step of another actor disturbs them -
which is why three reads of a policy that changes are harmless to this extent.
`PlacedUnderPolicy`, `RequestsHonoured` follow; `StrictPolicyHolds` adds that the stored
documents are among those possible for their name (`PossibleDocs`). The same module proves

- `EveryStepMovesOn`: a request's steps only lead to later calls of its operation
  (`Course`), to fewer candidates or to fewer targets of its listing, and nobody
  else moves it. Candidates and listing are finite and fixed once taken, so a request makes
  finitely many calls in any environment; what remains of `EveryRequestReturns` is that
  it is scheduled.
- what becomes of a migration while keys, registry and policies stay as they are.
  `Fate(q)` is the set of targets it may be led to, a function of what it has loaded
  and of the document consulted; `Blocked(q)`, that there is none. Each step either proceeds to an
  undisturbed request of the same fate or is the refusal of a blocked one, and a
  request that arrives at its write has a target of its fate. `TryTarget` is the hard
  one: whatever can be found among all that is registered must be shown to be among the
  targets left to try.

`CryptoOrchestrator_proofs` shows first that calls leave the orchestrator's
variables alone (`OrchestratedAsBefore`), so that `IInv` carries over, then
`CInv`: a version carried by a call or an artifact is its key's version of that
number for as long as the key lives, which holds because keys only grow; versions of
one key in use agree in scope, also after the key is gone, when nothing new can be
loaded from it. `MakerTakesBack` and `ContractAlwaysKept` read it off.
`WithinItsRights` has an invariant of its own (`RInv`) over the states and
policies seen during a call.

`MigrationReport_proofs`: reports only read (`ReportsOnlyRead`, `ReportSpec => Spec`), so what is
proved of the key orchestrator holds with any number of them; `LineageSoundBesideReports`
draws that conclusion for the lineage. An assessment runs steps of migrate requests on
slots of its own, so the lemmas about requests hold of it too: `VP`, an instance of
`KeyPolicy_proofs` on those slots, gives `IInv` and `PInv` of the probes, whose
keys change beside them. `RInv` adds where a report stands: it has loaded the migration
or is about to, and the probe is that migration started anew with the first strategy
left. From it follow

- `ReportsTyped`, `FeasibleUnderPolicy`;
- with `CalmInv` (while the report is calm, each assessment made is the fate of its
  strategy, and each request in progress is undisturbed): `ReportPredicts`, as a request and the
  strategy assessed for it have loaded the same and so share their fate
  (`AlikeFates`), and `RekeyRecommended`, as the fate of a rekeying contains that of a
  switch: fewer checks on lineage and source, more targets.

`TemplateContract_proofs` proves, for any catalog, editions and specifications:

- `StoredFormIsStable`: a specification that was stored and read back is stored as
  it was. The first trip may lose something, the second never does.
- `ContractTyped`, `LoaderIsTheChokePoint`, `VersionsNeverCorrupt`,
  `DigestsWithinTheOffer`, `RetainedMaterialKeepsItsShape`, `SignaturesVerifyAgain`,
  `VersionsCanBeAskedAgain`, `RequestsAreComparable`. Their invariant is
  `ContractInv`: the catalog half says that what is left to load and what is
  registered cover the edition (`CatalogInv`); the versions half says that what is
  stored was resolved for the version's template (`Resolved`), that retained
  material is of the kind it was generated for, and that the stored form may be asked again
  (`Reaskable`). The last rests on `AnswersAgain`: the capability that answered
  the request is the one that lent its hash list - which is where "declares the scope
  once" is needed - so it answers the resolved request too.

`ProviderRegistry_proofs`: order and map agree (`OrderAndMapAgree`), hence the registry
implements ProviderListing (`RegistryIsAListing`), whatever lists the backends answer.
`RegistryTyped` and `MatchSafe` hold in the same generality: whatever stale names are
in the index, Match looks each up again. `IndexInOrder` is about the names of
backends that repeat themselves, beside others that do not, and `IndexMatchAgrees` about
calls of Match in which only the former are in play. The invariant is `IndexInv`: types,
order and map, and of each such name that the index has it in registration order and as
often as its backend lists the template. Register appends;
removal is the recursive function `Evicted`, as many single removals as the backend
answers entries, and what those leave is proved by induction over their number
(`NatInd`: a set of numbers with 0 and closed under successor is all of them, from
`WFMin` of the library, as its induction theorems take operators). That Match on the index
agrees with ranking everything is then seen from the index being the order restricted to the
backends that advertise the template, with repetitions: the same one is first among the best.

`PolicyEnforcer_proofs`: only valid documents are stored (`OnlyValidStored`) and lists are
of their time (`ListsAreOfTheirTime`). The invariant says of a running list that
each entry it holds was stored at some time since it began, and that every name stored all
along is held or still to be fetched (`Listed`).

Assumptions, all named and evaluated by TLC in every run that extends their
module: those of `ProviderMatching` and `KeyTransfer` on the descriptions of
backends and `Compatible`; `OrchestratorAssumption` (requests are well formed, the
initial registry has no name twice, the "no ..." constants are none of the
values they stand beside) and the like of the modules above it;
`ContractAssumption` (types of the catalog and of what is asked).

Only model-checked: the liveness properties `EveryRequestReturns` and
`EveryReportReturns`, which are out of the prover's reach beyond `EveryStepMovesOn`; and
the violated properties of section 6. Every other property that a run checks
is stated by a theorem.

## 6. Where comments and code differ

Each is a run that TLC ends with a counterexample; `PROJECT.json` quotes the lines.

- **standin**: a crypto operation hands material to whatever is registered under
  the version's instance name, certified or not, while the version goes on
  recording an approved lineage.
- **samehash**: a transform that names no digest hash takes over the new template's list
  whole. A caller whose hash is not on it can no longer sign, although the
  transform was accepted as keeping the contract and said nothing of hashes.
- **writerace**: CreatePolicy may overwrite and UpdatePolicy may create, when
  something comes between check and write; and a create whose check cannot
  read the store goes on to write.
- **retyped**: a migration to the first instance of a provider type takes the type from
  one listing and then looks each instance up by its name, so that it may land on an instance
  of another type that has taken a listed name meanwhile. What does hold is in
  `NewVersionHonoursItsRequest`: an instance of the type was listed under the name.

Two more things a reader of the models will notice, which no text of the
repository contradicts: the template may be permitted by one document of a policy and
the provider chosen under another, as the policy is read up to three times
(`PlacedUnderAPolicyInForce` is what does hold); transform
and migrate do not look at the lifecycle state.

## 7. What is not modelled

- Payload bytes, provider outputs, labels, metadata, error codes: no property
  is about them.
- The template registry's implementation and the messages of a template's proto
  (`TemplateInfo`, `ScopedCapabilities`) with their constraints are not in the
  repository: `Select` follows the contract in `template/registry.go`, and whether an entry
  meets the constraints is a field of it. So templates with a capability without
  scope, and templates that declare a scope twice, may be in a catalog: nothing in
  `template/loader.go` forbids either. `ComparableWithAll` says when the former fail a
  request; `ReadBackIsAccepted` leaves out the latter, of which it does not hold, and
  `SignedWithinTheOffer` measures them by the first declaration, as `ScopeSpecFor` does.
- Catalogs that redefine a template. `Catalog` gives an id one entry for good, and an edition
  only has it or not, retired or not: versions store the id alone and the code reads the entry
  of the day, but `template/doc.go:11` has templates for "immutable reference data".
  `ReadBackIsAccepted`, `SignedWithinTheOffer`, `RetainedMaterialFits` and
  `SignaturesStayVerifiable` rest on that; a later catalog with another hash list, flag or
  key size under the same id could break each of them.
- Catalogs whose map key is not the template's own id: an entry is registered under the
  latter (`template/loader.go:61-69`), and the models take the two for one.
- What becomes of a version whose template is gone from the catalog: it is refused by every
  operation that needs the template, until a catalog has it again. No text of the
  repository promises more. `SignaturesStayVerifiable` is about the catalogs that have it.
- Requests without a policy: CreateKey refuses an empty policy name, so the
  enforcer's bypass is out of reach of what is modelled.
- WRAPPED_TRANSFER, EXTRACT_AND_IMPORT and REKEY_AND_DESTROY: their feasibility
  is modelled, MigrateKey refuses them as not implemented.
- ReadKey and ListKeys only read. UpdateKey of the repository and `UpdateState` of the
  aggregate have no caller; the models take the latter as one step, so two
  concurrent loads and stores of a lifecycle state are not modelled.
- VetForWrite's field checks: the orchestrators build complete aggregates.
- `scope_validate.go` is commented out; `scope_options.go` and
  `NewPrimitiveSpecificProperties` serve no caller in the services.
- JSON parsing of rules: a document that does not parse is refused before any of
  the steps; sections that are parsed but not evaluated count only by their presence.
- Errors, ids, generated code: values and conversions without shared state.
- Crashes: the orchestrators persist nothing but by the repository's atomic writes, so a
  crash of a request is the `DependencyError` of its next call. The restart that
  matters, of a server with another catalog, is in TemplateContract.

## 8. Plan

Done: all modules of section 3 with their runs and proofs. What would come next is
TemplateContract under KeyOrchestrator, when the key's lifecycle operations have
callers and templates an implementation to follow.
