------------------------ MODULE MigrationReport_proofs ------------------------
(***************************************************************************)
(* Proofs about MigrationReport: reports only read, so that all that is    *)
(* proved of the key orchestrator holds with reports beside its requests;  *)
(* and what a report assesses is a migrate request, so that it holds of    *)
(* the strategies under assessment too (VP below).                         *)
(*                                                                         *)
(* The second invariant, CalmInv, says what reports foretell: as long as   *)
(* keys, registry and policies stay as they are, the assessments made are  *)
(* the fates of the strategies, and a request beside them shares its fate  *)
(* with the strategy of its specification (Fate and Blocked of             *)
(* KeyPolicy_proofs).                                                      *)
(***************************************************************************)
EXTENDS MigrationReport, KeyPolicy_proofs, FiniteSetTheorems

-----------------------------------------------------------------------------
(* The steps of a report. *)

(* A report's steps leave keys, registry and policies alone.                *)
Reads == UNCHANGED <<keys, registry, policies>>

LEMMA ProbeReads ==
    ASSUME NEW v \in Validators
    PROVE  /\ V!GetKey(v) => Reads
           /\ V!GetVersion(v) => Reads
           /\ V!GetSource(v) => Reads
           /\ V!ReadRequirements(v) => Reads
           /\ V!MatchProvider(v) => Reads
           /\ V!ListTargets(v) => Reads
           /\ V!TryTarget(v) => Reads
           /\ V!ValidateOp(v) => Reads
<1>1. \A next, ok : /\ V!Proceed(v, next) => Reads
                    /\ V!Refuse(v) => Reads
                    /\ V!Check(v, ok, next) => Reads
  BY DEF V!Proceed, V!Refuse, V!Check, Reads
<1>2. V!GetKey(v) => Reads
  BY <1>1 DEF V!GetKey
<1>3. V!GetVersion(v) => Reads
  BY <1>1 DEF V!GetVersion
<1>4. V!GetSource(v) => Reads
  BY <1>1 DEF V!GetSource
<1>5. V!ReadRequirements(v) => Reads
  BY <1>1 DEF V!ReadRequirements
<1>6. V!MatchProvider(v) => Reads
  BY <1>1 DEF V!MatchProvider
<1>7. V!ListTargets(v) => Reads
  BY <1>1 DEF V!ListTargets
<1>8. V!TryTarget(v) => Reads
  BY <1>1 DEF V!TryTarget
<1>9. V!ValidateOp(v) => Reads
  BY <1>1 DEF V!ValidateOp
<1> QED
  BY <1>2, <1>3, <1>4, <1>5, <1>6, <1>7, <1>8, <1>9

LEMMA ReportStutters ==
    ASSUME NEW v \in Validators, ReportStep(v)
    PROVE  UNCHANGED vars
<1>1. CASE LoadMigration(v)
  BY <1>1, ProbeReads DEF LoadMigration, RequestsWait, Reads, vars
<1>2. CASE AssessStrategy(v)
  <2>1. V!Refuse(v) => Reads
    BY DEF V!Refuse, Reads
  <2> QED
    BY <1>2, <2>1, ProbeReads DEF AssessStrategy, FailReport, RequestsWait, Reads, vars
<1>3. CASE Conclude(v)
  BY <1>3 DEF Conclude
<1> QED
  BY <1>1, <1>2, <1>3 DEF ReportStep

LEMMA ReportNextIsNext == [ReportNext]_reportVars => [Next]_vars
<1> SUFFICES ASSUME [ReportNext]_reportVars PROVE [Next]_vars
  OBVIOUS
<1>1. ASSUME NEW v \in Validators, NEW s \in Probes, NEW strategies, BeginReport(v, s, strategies)
      PROVE  UNCHANGED vars
  BY <1>1 DEF BeginReport, V!Begin, RequestsWait, vars
<1>2. ASSUME NEW v \in Validators, FailReport(v) PROVE UNCHANGED vars
  BY <1>2 DEF FailReport, V!Refuse, RequestsWait, vars
<1>3. ASSUME NEW v \in Validators, DropReport(v) PROVE UNCHANGED vars
  BY <1>3 DEF DropReport
<1>4. ASSUME NEW r \in Requests, RequestStep(r) PROVE Next
  BY <1>4 DEF RequestStep, Next
<1>5. ASSUME Beside PROVE Next
  BY <1>5 DEF Beside, Next, Environment
<1>6. ASSUME UNCHANGED reportVars PROVE UNCHANGED vars
  BY <1>6 DEF reportVars
<1> QED
  BY <1>1, <1>2, <1>3, <1>4, <1>5, <1>6, ReportStutters DEF ReportNext

-----------------------------------------------------------------------------
(* The strategies under assessment are requests of a key orchestrator: what *)
(* the proofs about KeyOrchestrator say of req and inForce, VP says of      *)
(* probe and seen, once the assumptions are discharged for the probes.      *)

VP == INSTANCE KeyPolicy_proofs
         WITH Requests <- Validators, Specs <- Probes, req <- probe, inForce <- seen

LEMMA ProbesAreSpecs == VP!OrchestratorAssumption /\ VP!BackendAssumption /\ VP!CompatibleAssumption
<1>1. VP!BackendAssumption
  BY BackendAssumption
  DEF VP!BackendAssumption, VP!Description, VP!Channels, VP!MaxFIPS140Level,
      Description, Channels, MaxFIPS140Level
<1>2. VP!CompatibleAssumption
  BY CompatibleAssumption DEF VP!CompatibleAssumption
<1>3. VP!OrchestratorAssumption
  <2>1. /\ VP!RequestSpec = RequestSpec
        /\ VP!KeyVersion = KeyVersion
        /\ VP!PolicyRules = PolicyRules
    <3>1. VP!Requirements = Requirements
      BY DEF VP!Requirements, Requirements, VP!MaxFIPS140Level, MaxFIPS140Level
    <3>2. VP!Strategies = Strategies
      BY DEF VP!Strategies, Strategies
    <3>3. VP!Payload = Payload /\ VP!Origin = Origin
      BY DEF VP!Payload, Payload, VP!Origin, Origin
    <3>4. VP!KeyVersion = KeyVersion
      BY <3>3 DEF VP!KeyVersion, KeyVersion
    <3>5. VP!PolicyRules = PolicyRules
      BY <3>1 DEF VP!PolicyRules, PolicyRules, VP!Operations, Operations
    <3>6. VP!RequestSpec = RequestSpec
      BY <3>1, <3>2 DEF VP!RequestSpec, RequestSpec
    <3> QED
      BY <3>4, <3>5, <3>6
  <2>2. \A s \in Probes : VP!WellFormed(s)
    BY ReportAssumption DEF VP!WellFormed, WellFormed
  <2>3. VP!Distinct(InitialRegistry)
    BY OrchestratorAssumption DEF VP!Distinct, Distinct
  <2>4. Probes \subseteq RequestSpec
    BY ReportAssumption
  <2> QED
    BY <2>1, <2>2, <2>3, <2>4, OrchestratorAssumption DEF VP!OrchestratorAssumption, OrchestratorAssumption
<1> QED
  BY <1>1, <1>2, <1>3

(* V, of the model, and VP are instances of the same definitions.           *)
LEMMA SameSteps ==
    ASSUME NEW v
    PROVE  /\ \A s : V!Begin(v, s) <=> VP!Begin(v, s)
           /\ V!Refuse(v) <=> VP!Refuse(v)
           /\ V!GetKey(v) <=> VP!GetKey(v)
           /\ V!GetVersion(v) <=> VP!GetVersion(v)
           /\ V!GetSource(v) <=> VP!GetSource(v)
           /\ V!ReadRequirements(v) <=> VP!ReadRequirements(v)
           /\ V!MatchProvider(v) <=> VP!MatchProvider(v)
           /\ V!ListTargets(v) <=> VP!ListTargets(v)
           /\ V!TryTarget(v) <=> VP!TryTarget(v)
           /\ V!ValidateOp(v) <=> VP!ValidateOp(v)
<1>1. \A s : V!Begin(v, s) <=> VP!Begin(v, s)
  BY DEF V!Begin, VP!Begin, V!Active, VP!Active, V!Idle, VP!Idle, V!Start, VP!Start,
      V!NothingRequired, VP!NothingRequired
<1>2. V!Refuse(v) <=> VP!Refuse(v)
  BY DEF V!Refuse, VP!Refuse, V!End, VP!End, V!Idle, VP!Idle
<1>3. V!GetKey(v) <=> VP!GetKey(v)
  BY DEF V!GetKey, VP!GetKey, V!At, VP!At, V!Active, VP!Active, V!Idle, VP!Idle,
      V!Proceed, VP!Proceed, V!Refuse, VP!Refuse, V!End, VP!End
<1>4. V!GetVersion(v) <=> VP!GetVersion(v)
  BY DEF V!GetVersion, VP!GetVersion, V!At, VP!At, V!Active, VP!Active, V!Idle, VP!Idle,
      V!Check, VP!Check, V!Proceed, VP!Proceed, V!Refuse, VP!Refuse, V!End, VP!End
<1>5. V!GetSource(v) <=> VP!GetSource(v)
  BY DEF V!GetSource, VP!GetSource, V!Registered, VP!Registered, V!At, VP!At, V!Active,
      VP!Active, V!Idle, VP!Idle, V!Proceed, VP!Proceed
<1>6. V!ReadRequirements(v) <=> VP!ReadRequirements(v)
  BY DEF V!ReadRequirements, VP!ReadRequirements, V!TransfersMaterial,
      VP!TransfersMaterial, V!KeepsLineage, VP!KeepsLineage, V!SourceFeasible,
      VP!SourceFeasible, V!Emit, VP!Emit, V!NoChannels, VP!NoChannels, V!Allow,
      VP!Allow, V!Closed, VP!Closed, V!PermitsPlaintextKeys, VP!PermitsPlaintextKeys,
      V!At, VP!At, V!Active, VP!Active, V!Idle, VP!Idle, V!Consulted, VP!Consulted,
      V!Custody, VP!Custody, V!Merge, VP!Merge, V!NothingRequired, VP!NothingRequired,
      V!Check, VP!Check, V!Proceed, VP!Proceed, V!Refuse, VP!Refuse, V!End, VP!End,
      V!ScopeOf, VP!ScopeOf, V!WithTemplate, VP!WithTemplate
<1>7. V!MatchProvider(v) <=> VP!MatchProvider(v)
  BY DEF V!MatchProvider, VP!MatchProvider, V!TargetFeasible, VP!TargetFeasible, V!Emit,
      VP!Emit, V!NoChannels, VP!NoChannels, V!Allow, VP!Allow, V!Closed, VP!Closed,
      V!PermitsPlaintextKeys, VP!PermitsPlaintextKeys, V!Accept, VP!Accept, V!Match,
      VP!Match, V!MatchFirst, VP!MatchFirst, V!Eligible, VP!Eligible, V!Advertises,
      VP!Advertises, V!Meets, VP!Meets, V!RanksBefore, VP!RanksBefore, V!RankGroup,
      VP!RankGroup, V!Preferred, VP!Preferred, V!MatchPinned, VP!MatchPinned,
      V!Registered, VP!Registered, V!Pin, VP!Pin, V!WithVersion, VP!WithVersion,
      V!NewVersion, VP!NewVersion, V!ScopeOf, VP!ScopeOf, V!GeneratedPayload,
      VP!GeneratedPayload, V!GeneratedProvenance, VP!GeneratedProvenance,
      V!ReleasesMaterial, VP!ReleasesMaterial, V!ApprovedGeneration,
      VP!ApprovedGeneration, V!NothingRequired, VP!NothingRequired, V!At, VP!At,
      V!Active, VP!Active, V!Idle, VP!Idle, V!Proceed, VP!Proceed, V!Refuse,
      VP!Refuse, V!End, VP!End
<1>8. V!ListTargets(v) <=> VP!ListTargets(v)
  BY DEF V!ListTargets, VP!ListTargets, V!At, VP!At, V!Active, VP!Active, V!Idle,
      VP!Idle, V!Proceed, VP!Proceed
<1>9. V!TryTarget(v) <=> VP!TryTarget(v)
  BY DEF V!TryTarget, VP!TryTarget, V!MatchPinned, VP!MatchPinned, V!Registered,
      VP!Registered, V!Eligible, VP!Eligible, V!Advertises, VP!Advertises, V!Meets,
      VP!Meets, V!TargetFeasible, VP!TargetFeasible, V!Emit, VP!Emit, V!NoChannels,
      VP!NoChannels, V!Allow, VP!Allow, V!Closed, VP!Closed, V!PermitsPlaintextKeys,
      VP!PermitsPlaintextKeys, V!Accept, VP!Accept, V!At, VP!At, V!Active, VP!Active,
      V!Idle, VP!Idle, V!Untried, VP!Untried, V!RanksBefore, VP!RanksBefore,
      V!RankGroup, VP!RankGroup, V!Preferred, VP!Preferred, V!Proceed, VP!Proceed,
      V!Refuse, VP!Refuse, V!End, VP!End
<1>10. V!ValidateOp(v) <=> VP!ValidateOp(v)
  BY DEF V!ValidateOp, VP!ValidateOp, V!Consulted, VP!Consulted, V!Permits, VP!Permits,
      V!At, VP!At, V!Active, VP!Active, V!Idle, VP!Idle, V!Check, VP!Check, V!Proceed,
      VP!Proceed, V!Refuse, VP!Refuse, V!End, VP!End, V!MayRetain, VP!MayRetain,
      V!KeepsLineage, VP!KeepsLineage, V!RetainFeasible, VP!RetainFeasible, V!Accept,
      VP!Accept, V!NoChannels, VP!NoChannels, V!Allow, VP!Allow, V!Closed, VP!Closed,
      V!PermitsPlaintextKeys, VP!PermitsPlaintextKeys, V!WithVersion, VP!WithVersion,
      V!NextVersion, VP!NextVersion, V!Keeps, VP!Keeps, V!NewVersion, VP!NewVersion,
      V!ScopeOf, VP!ScopeOf, V!KeptProvenance, VP!KeptProvenance, V!ReleasesMaterial,
      VP!ReleasesMaterial, V!Emit, VP!Emit, V!Meets, VP!Meets, V!ApprovedGeneration,
      VP!ApprovedGeneration, V!NothingRequired, VP!NothingRequired,
      V!GeneratedPayload, VP!GeneratedPayload, V!GeneratedProvenance,
      VP!GeneratedProvenance
<1> QED
  BY <1>1, <1>2, <1>3, <1>4, <1>5, <1>6, <1>7, <1>8, <1>9, <1>10

LEMMA SameNames ==
    ASSUME NEW v, NEW q, NEW p, NEW d
    PROVE  /\ V!Active(v) <=> VP!Active(v)
           /\ \A l : V!At(v, l) <=> VP!At(v, l)
           /\ V!Request = VP!Request
           /\ VP!Idle = Idle
           /\ V!Consulted(q) = VP!Consulted(q)
           /\ V!PutPolicy(p, d) <=> VP!PutPolicy(p, d)
<1>1. V!Request = VP!Request
  BY DEF V!Request, VP!Request, V!Labels, VP!Labels, V!KeyVersion, VP!KeyVersion, V!Payload,
     VP!Payload, V!Origin, VP!Origin, V!Requirements, VP!Requirements, V!MaxFIPS140Level,
     VP!MaxFIPS140Level
<1>2. /\ V!Active(v) <=> VP!Active(v)
      /\ \A l : V!At(v, l) <=> VP!At(v, l)
      /\ VP!Idle = Idle
      /\ V!PutPolicy(p, d) <=> VP!PutPolicy(p, d)
  BY DEF V!Active, VP!Active, V!At, VP!At, V!Idle, VP!Idle, Idle, V!PutPolicy, VP!PutPolicy
<1>3. V!Consulted(q) = VP!Consulted(q)
  BY DEF V!Consulted, VP!Consulted
<1> QED
  BY <1>1, <1>2, <1>3

-----------------------------------------------------------------------------
(* The inductive invariant.  A strategy is under assessment exactly while   *)
(* some are left: first the key is loaded, for all of them, then the        *)
(* request is started anew, for each, from what was loaded, which stays     *)
(* true of the key as long as the key lives.                                *)

Restartable(m) ==
    /\ m \in VP!Request
    /\ m.pc = "requirements"
    /\ VP!StageOK(m)
    /\ VP!Remembers(m)

Assessing(R, q) ==
    /\ R = NoReport => q = Idle
    /\ R # NoReport /\ R.left = <<>> => q = Idle /\ R.migration # Idle
    /\ R # NoReport /\ R.migration # Idle => Restartable(R.migration) /\ R.migration.spec = R.spec
    /\ R # NoReport /\ R.left # <<>> =>
         IF R.migration = Idle
         THEN /\ q # Idle
              /\ q.pc \in VP!Loading
              /\ q.spec = R.spec
              /\ Head(R.left) = R.spec.strategy
         ELSE q # Idle =>
                /\ q.pc \in VP!Checking
                /\ q.spec = [R.spec EXCEPT !.strategy = Head(R.left)]
                /\ q.key = R.migration.key

ReportsOK ==
    /\ report \in [Validators -> Report \union {NoReport}]
    /\ \A v \in Validators : Assessing(report[v], probe[v])

RInv == IInv /\ VP!IInv /\ VP!PInv /\ ReportsOK

LEMMA NoReportIsNone == NoReport \notin Report
BY DEF NoReport, Report

LEMMA SameGrowth == KeysGrow <=> VP!KeysGrow
BY DEF KeysGrow, VP!KeysGrow

(* What other slots do leaves a report as it was, but for its calm.         *)
LEMMA OthersKeepAssessing ==
    ASSUME KeysGrow, NEW R, NEW q, NEW S, NEW c \in BOOLEAN,
           R \in Report \union {NoReport},
           S = R \/ (R # NoReport /\ S = [R EXCEPT !.calm = c]),
           Assessing(R, q)
    PROVE  Assessing(S, q)' /\ S \in Report \union {NoReport}
<1>1. ASSUME NEW m, Restartable(m) PROVE Restartable(m)'
  <2>1. VP!Remembers(m)'
    BY <1>1, ProbesAreSpecs, SameGrowth, VP!GrowthKeepsMemory DEF Restartable
  <2>2. VP!StageOK(m)'
    BY <1>1 DEF Restartable
  <2> QED
    BY <1>1, <2>1, <2>2 DEF Restartable
<1>2. Assessing(R, q)'
  BY <1>1 DEF Assessing
<1>3. CASE R # NoReport /\ S = [R EXCEPT !.calm = c]
  <2>1. /\ S.spec = R.spec
        /\ S.left = R.left
        /\ S.migration = R.migration
        /\ S \in Report
    BY <1>3 DEF Report
  <2>2. S # NoReport
    BY <2>1, NoReportIsNone
  <2> QED
    BY <1>2, <1>3, <2>1, <2>2 DEF Assessing
<1> QED
  BY <1>2, <1>3

LEMMA OthersKeepReports ==
    ASSUME ReportsOK, KeysGrow, UNCHANGED probe, Stirred
    PROVE  ReportsOK'
<1>1. PICK calm \in BOOLEAN : calm = UNCHANGED <<keys, registry, policies>>
  OBVIOUS
<1>2. ASSUME NEW v \in Validators
      PROVE  /\ report'[v] \in Report \union {NoReport}
             /\ Assessing(report[v], probe[v])'
  <2>1. PICK R, q, S : /\ R = report[v]
                       /\ R \in Report \union {NoReport}
                       /\ q = probe[v]
                       /\ S = report'[v]
    BY DEF ReportsOK
  <2>2. Assessing(R, q)
    BY <2>1 DEF ReportsOK
  <2>3. S = IF R = NoReport THEN NoReport ELSE [R EXCEPT !.calm = R.calm /\ calm]
    BY <1>1, <2>1 DEF Stirred
  <2>4. R # NoReport => (R.calm /\ calm) \in BOOLEAN
    OBVIOUS
  <2>5. Assessing(S, q)' /\ S \in Report \union {NoReport}
    BY <2>1, <2>2, <2>3, <2>4, OthersKeepAssessing
  <2> QED
    BY <2>1, <2>5
<1>3. report' \in [Validators -> Report \union {NoReport}]
  BY <1>2 DEF Stirred
<1> QED
  BY <1>2, <1>3 DEF ReportsOK

LEMMA OneReportMoves ==
    ASSUME ReportsOK, KeysGrow, NEW v \in Validators, NEW S \in Report \union {NoReport}, NEW q,
           report' = [report EXCEPT ![v] = S],
           \A w \in Validators : probe'[w] = IF w = v THEN q ELSE probe[w],
           Assessing(S, q)'
    PROVE  ReportsOK'
<1>1. ASSUME NEW w \in Validators, w # v
      PROVE  Assessing(report[w], probe[w])'
  <2>1. PICK R, p : R = report[w] /\ p = probe[w] /\ R \in Report \union {NoReport}
    BY DEF ReportsOK
  <2>2. Assessing(R, p)
    BY <2>1 DEF ReportsOK
  <2>3. Assessing(R, p)'
    BY <2>1, <2>2, OthersKeepAssessing
  <2>4. report'[w] = R /\ probe'[w] = p
    BY <1>1, <2>1
  <2> QED
    BY <2>3, <2>4
<1>2. report' \in [Validators -> Report \union {NoReport}]
  BY DEF ReportsOK
<1>3. report'[v] = S /\ probe'[v] = q
  BY DEF ReportsOK
<1>4. Assessing(report[v], probe[v])'
  BY <1>3
<1> QED
  BY <1>1, <1>2, <1>4 DEF ReportsOK

(* What is said of keys and registry is the same on both sides.             *)
LEMMA SameStore ==
    /\ Key = VP!Key
    /\ \A vs : Lineage(vs) <=> VP!Lineage(vs)
    /\ \A reg : Distinct(reg) <=> VP!Distinct(reg)
<1>1. Key = VP!Key
  <2>1. VP!Payload = Payload /\ VP!Origin = Origin
    BY DEF VP!Payload, Payload, VP!Origin, Origin
  <2>2. VP!KeyVersion = KeyVersion
    BY <2>1 DEF VP!KeyVersion, KeyVersion
  <2> QED
    BY <2>2 DEF VP!Key, Key, VP!Status, Status
<1>2. ASSUME NEW vs PROVE Lineage(vs) <=> VP!Lineage(vs)
  <2>1. \A b, t : Emit(b, t) = VP!Emit(b, t)
    BY DEF Emit, VP!Emit, Allow, VP!Allow, Closed, VP!Closed, NoChannels, VP!NoChannels,
       PermitsPlaintextKeys, VP!PermitsPlaintextKeys
  <2>2. \A b, t : ReleasesMaterial(b, t) <=> VP!ReleasesMaterial(b, t)
    BY <2>1 DEF ReleasesMaterial, VP!ReleasesMaterial
  <2>3. \A v : Generated(v) <=> VP!Generated(v)
    BY <2>2 DEF Generated, VP!Generated, GeneratedPayload, VP!GeneratedPayload
  <2>4. \A i : Chain(vs, i) = VP!Chain(vs, i)
    BY DEF Chain, VP!Chain, Kept, VP!Kept
  <2>5. /\ Numbered(vs) <=> VP!Numbered(vs)
        /\ OneScope(vs) <=> VP!OneScope(vs)
    BY DEF Numbered, VP!Numbered, OneScope, VP!OneScope
  <2>6. PayloadFromOrigin(vs) <=> VP!PayloadFromOrigin(vs)
    BY <2>3, <2>4 DEF PayloadFromOrigin, VP!PayloadFromOrigin
  <2>7. ApprovedLineage(vs) <=> VP!ApprovedLineage(vs)
    BY <2>4 DEF ApprovedLineage, VP!ApprovedLineage
  <2>8. /\ OnlyReleasedMaterialMoves(vs) <=> VP!OnlyReleasedMaterialMoves(vs)
        /\ ExtractableChain(vs) <=> VP!ExtractableChain(vs)
    BY <2>2, <2>4
    DEF OnlyReleasedMaterialMoves, VP!OnlyReleasedMaterialMoves, ExtractableChain, VP!ExtractableChain
  <2>9. TakenInOpenly(vs) <=> VP!TakenInOpenly(vs)
    BY DEF TakenInOpenly, VP!TakenInOpenly, Kept, VP!Kept, Closed, VP!Closed,
       PermitsPlaintextKeys, VP!PermitsPlaintextKeys
  <2> QED
    BY <2>5, <2>6, <2>7, <2>8, <2>9 DEF Lineage, VP!Lineage
<1> QED
  BY <1>1, <1>2 DEF Distinct, VP!Distinct

LEMMA OthersKeepProbes ==
    ASSUME IInv', VP!IInv, KeysGrow, UNCHANGED <<probe, seen>>
    PROVE  VP!IInv'
<1>1. /\ KeysTypeOK'
      /\ LineageInv'
      /\ registry' \in Seq(Backends)
      /\ Distinct(registry)'
      /\ policies' \in [PolicyNames -> PolicyDocs \union {NoPolicy}]
  BY DEF IInv, TypeOK
<1>2. VP!KeysTypeOK' /\ VP!LineageInv' /\ VP!Distinct(registry)'
  BY <1>1, SameStore DEF KeysTypeOK, VP!KeysTypeOK, LineageInv, VP!LineageInv
<1>3. VP!TypeOK'
  BY <1>1, <1>2 DEF VP!IInv, VP!TypeOK
<1>4. VP!StagesOK'
  BY DEF VP!IInv, VP!StagesOK, VP!Active
<1>5. VP!SnapshotIsPast'
  BY ProbesAreSpecs, SameGrowth, VP!GrowthKeepsMemory DEF VP!IInv, VP!SnapshotIsPast, VP!Active
<1> QED
  BY <1>2, <1>3, <1>4, <1>5 DEF VP!IInv

LEMMA OthersKeepRuled ==
    ASSUME VP!PInv, UNCHANGED <<probe, seen, policies>>
    PROVE  VP!PInv'
BY DEF VP!PInv, VP!Active

-----------------------------------------------------------------------------
(* Every step preserves it. *)

(* A step the probe of v makes as a request: it is refused, or follows the  *)
(* one before.                                                              *)
LEMMA ProbeStep ==
    ASSUME RInv, NEW v \in Validators,
           \/ V!GetKey(v) \/ V!GetVersion(v) \/ V!GetSource(v) \/ V!ReadRequirements(v)
           \/ V!MatchProvider(v) \/ V!ListTargets(v) \/ V!TryTarget(v) \/ V!ValidateOp(v)
           \/ V!Refuse(v)
    PROVE  VP!IInv' /\ VP!PInv'
<1>1. VP!IInv /\ VP!PInv
  BY DEF RInv
<1>2. CASE V!GetKey(v)
  BY <1>1, <1>2, SameSteps, ProbesAreSpecs, VP!GetKeyOK, VP!LoadingRuled
<1>3. CASE V!GetVersion(v)
  BY <1>1, <1>3, SameSteps, ProbesAreSpecs, VP!GetVersionOK, VP!LoadingRuled
<1>4. CASE V!GetSource(v)
  BY <1>1, <1>4, SameSteps, ProbesAreSpecs, VP!GetSourceOK, VP!LoadingRuled
<1>5. CASE V!ReadRequirements(v)
  BY <1>1, <1>5, SameSteps, ProbesAreSpecs, VP!ReadRequirementsOK, VP!ReadRequirementsRuled
<1>6. CASE V!MatchProvider(v)
  BY <1>1, <1>6, SameSteps, ProbesAreSpecs, VP!MatchProviderOK, VP!MatchProviderRuled
<1>7. CASE V!ListTargets(v)
  BY <1>1, <1>7, SameSteps, ProbesAreSpecs, VP!ListTargetsOK, VP!SearchRuled
<1>8. CASE V!TryTarget(v)
  BY <1>1, <1>8, SameSteps, ProbesAreSpecs, VP!TryTargetOK, VP!SearchRuled
<1>9. CASE V!ValidateOp(v)
  BY <1>1, <1>9, SameSteps, ProbesAreSpecs, VP!ValidateOpOK, VP!ValidateOpRuled
<1>10. CASE V!Refuse(v)
  BY <1>1, <1>10, SameSteps, ProbesAreSpecs, VP!RefuseOK, VP!RefuseRuled
<1> QED
  BY <1>2, <1>3, <1>4, <1>5, <1>6, <1>7, <1>8, <1>9, <1>10

LEMMA BeginReportOK ==
    ASSUME RInv, NEW v \in Validators, NEW s \in Probes,
           NEW strategies \in {MigrationStrategies, <<s.strategy>>}, BeginReport(v, s, strategies)
    PROVE  RInv'
<1>1. IInv' /\ KeysGrow
  <2>1. UNCHANGED vars
    BY DEF BeginReport, V!Begin, RequestsWait, vars
  <2> QED
    BY <2>1, StutterGrows, NextOK DEF RInv, vars
<1>2. VP!IInv' /\ VP!PInv'
  BY SameSteps, ProbesAreSpecs, VP!BeginOK, VP!BeginRuled DEF BeginReport, RInv
<1>3. /\ s \in RequestSpec
      /\ s.op = "migrate"
      /\ s.strategy \in Strategies
  BY ReportAssumption DEF RequestSpec
<1>4. /\ strategies \in Seq(Strategies)
      /\ strategies # <<>>
      /\ Head(strategies) = s.strategy
  <2>1. CASE strategies = MigrationStrategies
    BY <2>1 DEF MigrationStrategies, Strategies, BeginReport
  <2>2. CASE strategies = <<s.strategy>>
    BY <1>3, <2>2
  <2> QED
    BY <2>1, <2>2
<1>5. PICK calm \in BOOLEAN : calm = \A r \in Requests : ~Active(r)
  OBVIOUS
<1> DEFINE S == [spec |-> s, left |-> strategies, migration |-> Idle, options |-> <<>>, calm |-> calm]
<1>6. S \in Report /\ S # NoReport
  <2>1. <<>> \in [{} -> Backends \union {NoBackend}]
    OBVIOUS
  <2>2. <<>> \in UNION {[T -> Backends \union {NoBackend}] : T \in SUBSET Strategies}
    BY <2>1
  <2>3. S \in Report
    BY <1>4, <2>2 DEF Report
  <2> QED
    BY <2>3, NoReportIsNone
<1>7. PICK q : q = VP!Start(s)
  OBVIOUS
<1>8. /\ q.pc = "getKey"
      /\ q.spec = s
      /\ q # Idle
  BY <1>3, <1>7 DEF VP!Start, Idle
<1>9. /\ report' = [report EXCEPT ![v] = S]
      /\ probe' = [probe EXCEPT ![v] = q]
  BY <1>5, <1>7, SameSteps DEF BeginReport, VP!Begin
<1>10. \A w \in Validators : probe'[w] = IF w = v THEN q ELSE probe[w]
  BY <1>9 DEF RInv, VP!IInv, VP!TypeOK
<1>11. Assessing(S, q)'
  BY <1>4, <1>6, <1>8 DEF Assessing, VP!Loading
<1>12. ReportsOK'
  BY <1>1, <1>6, <1>9, <1>10, <1>11, OneReportMoves DEF RInv
<1> QED
  BY <1>1, <1>2, <1>12 DEF RInv

LEMMA FailReportOK ==
    ASSUME RInv, NEW v \in Validators, FailReport(v)
    PROVE  RInv'
<1>1. IInv' /\ KeysGrow
  <2>1. UNCHANGED vars
    BY DEF FailReport, V!Refuse, RequestsWait, vars
  <2> QED
    BY <2>1, StutterGrows, NextOK DEF RInv, vars
<1>2. VP!IInv' /\ VP!PInv'
  BY ProbeStep DEF FailReport
<1>3. /\ report' = [report EXCEPT ![v] = NoReport]
      /\ probe' = [probe EXCEPT ![v] = Idle]
  BY SameSteps, SameNames DEF FailReport, VP!Refuse, VP!End
<1>4. \A w \in Validators : probe'[w] = IF w = v THEN Idle ELSE probe[w]
  BY <1>3 DEF RInv, VP!IInv, VP!TypeOK
<1>5. Assessing(NoReport, Idle)'
  BY DEF Assessing
<1>6. ReportsOK'
  BY <1>1, <1>3, <1>4, <1>5, OneReportMoves DEF RInv
<1> QED
  BY <1>1, <1>2, <1>6 DEF RInv

LEMMA ActiveProbe ==
    ASSUME RInv, NEW v \in Validators, NEW q, q = probe[v], q # Idle
    PROVE  /\ q \in VP!Request
           /\ q.spec \in Probes
           /\ q.spec.op = "migrate"
           /\ q.spec.strategy \in Strategies
           /\ VP!Active(v)
           /\ VP!StageOK(q)
           /\ q.pc # "getKey" => VP!Remembers(q)
<1>1. /\ q \in VP!Request
      /\ VP!Active(v)
  BY SameNames DEF RInv, VP!IInv, VP!TypeOK, VP!Active
<1>2. q.spec \in Probes
  BY <1>1 DEF VP!Request
<1>3. q.spec.op = "migrate" /\ q.spec.strategy \in Strategies
  BY <1>2, ReportAssumption DEF RequestSpec
<1>4. VP!StageOK(q)
  BY <1>1 DEF RInv, VP!IInv, VP!StagesOK
<1>5. q.pc # "getKey" => VP!Remembers(q)
  BY <1>1, <1>3 DEF RInv, VP!IInv, VP!SnapshotIsPast
<1> QED
  BY <1>1, <1>2, <1>3, <1>4, <1>5

LEMMA LoadMigrationOK ==
    ASSUME RInv, NEW v \in Validators, LoadMigration(v)
    PROVE  RInv'
<1>1. IInv' /\ KeysGrow
  <2>1. UNCHANGED vars
    BY ReportStutters DEF ReportStep
  <2> QED
    BY <2>1, StutterGrows, NextOK DEF RInv, vars
<1>2. VP!IInv' /\ VP!PInv'
  BY ProbeStep DEF LoadMigration
<1>3. PICK q, R : q = probe[v] /\ R = report[v]
  OBVIOUS
<1>4. /\ q # Idle
      /\ q.pc \in VP!Loading
      /\ VP!GetKey(v) \/ VP!GetVersion(v) \/ VP!GetSource(v)
  BY <1>3, SameSteps, SameNames
  DEF LoadMigration, VP!GetKey, VP!GetVersion, VP!GetSource, VP!At, VP!Active, VP!Loading
<1>5. /\ q.spec \in Probes
      /\ q.spec.op = "migrate"
  BY <1>3, <1>4, ActiveProbe
<1>6. /\ R \in Report
      /\ R # NoReport
      /\ R.left # <<>>
      /\ R.migration = Idle
      /\ R.spec = q.spec
      /\ Head(R.left) = q.spec.strategy
      /\ probe \in [Validators -> VP!Request \union {Idle}]
  BY <1>3, <1>4, SameNames
  DEF RInv, ReportsOK, Assessing, VP!Loading, VP!Checking, VP!IInv, VP!TypeOK
<1>7. CASE VP!Refuse(v)
  <2>1. /\ report' = [report EXCEPT ![v] = NoReport]
        /\ probe' = [probe EXCEPT ![v] = Idle]
    BY <1>6, <1>7, SameNames DEF LoadMigration, VP!Refuse, VP!End
  <2>2. Assessing(NoReport, Idle)'
    BY DEF Assessing
  <2>3. \A w \in Validators : probe'[w] = IF w = v THEN Idle ELSE probe[w]
    BY <1>6, <2>1
  <2>4. ReportsOK'
    BY <1>1, <2>1, <2>2, <2>3, OneReportMoves DEF RInv
  <2> QED
    BY <1>1, <1>2, <2>4 DEF RInv
<1>8. ASSUME NEW next, VP!Proceed(v, next), VP!Follows(q, next)
      PROVE  RInv'
  <2>1. /\ probe' = [probe EXCEPT ![v] = next]
        /\ next.spec = q.spec
        /\ next.pc \in VP!Loading \union {"requirements"}
    BY <1>4, <1>8 DEF VP!Proceed, VP!Follows, VP!Loading
  <2>2. \A w \in Validators : probe'[w] = IF w = v THEN next ELSE probe[w]
    BY <1>6, <2>1
  <2>3. next # Idle
    BY <2>1 DEF Idle, VP!Loading
  <2>4. /\ next \in VP!Request
        /\ VP!StageOK(next)
        /\ next.pc # "getKey" => VP!Remembers(next)'
    <3>1. probe'[v] = next /\ VP!Active(v)'
      BY <1>6, <2>1, <2>3, SameNames DEF VP!Active
    <3>2. next \in VP!Request
      BY <1>2, <2>3, <3>1, SameNames DEF VP!IInv, VP!TypeOK
    <3>3. VP!StageOK(next)'
      BY <1>2, <3>1 DEF VP!IInv, VP!StagesOK
    <3>4. next.pc # "getKey" => VP!Remembers(next)'
      BY <1>2, <1>5, <2>1, <3>1 DEF VP!IInv, VP!SnapshotIsPast
    <3> QED
      BY <3>2, <3>3, <3>4
  <2>5. CASE next.pc = "requirements"
    <3> DEFINE S == [R EXCEPT !.migration = next]
    <3>1. report' = [report EXCEPT ![v] = S]
      BY <1>3, <1>6, <2>1, <2>3, <2>5 DEF LoadMigration
    <3>2. /\ S \in Report
          /\ S.left = R.left
          /\ S.spec = R.spec
          /\ S.migration = next
      BY <1>6, <2>4, SameNames DEF Report
    <3>3. S # NoReport
      BY <3>2, NoReportIsNone
    <3>4. Restartable(next)'
      BY <2>4, <2>5 DEF Restartable
    <3>5. q.spec = [q.spec EXCEPT !.strategy = q.spec.strategy]
      BY <1>5, ReportAssumption DEF RequestSpec
    <3> HIDE DEF S
    <3>6. Assessing(S, next)'
      BY <1>6, <2>1, <2>3, <2>5, <3>2, <3>3, <3>4, <3>5 DEF Assessing, VP!Checking
    <3>7. ReportsOK'
      BY <1>1, <2>2, <3>1, <3>2, <3>6, OneReportMoves DEF RInv
    <3> QED
      BY <1>1, <1>2, <3>7 DEF RInv
  <2>6. CASE next.pc # "requirements"
    <3>1. report' = [report EXCEPT ![v] = R]
      BY <1>3, <1>6, <2>1, <2>3, <2>6 DEF LoadMigration
    <3>2. Assessing(R, next)'
      BY <1>6, <2>1, <2>3, <2>6 DEF Assessing
    <3>3. ReportsOK'
      BY <1>1, <1>6, <2>2, <3>1, <3>2, OneReportMoves DEF RInv
    <3> QED
      BY <1>1, <1>2, <3>3 DEF RInv
  <2> QED
    BY <2>5, <2>6
<1>9. VP!Refuse(v) \/ \E next : VP!Proceed(v, next) /\ VP!Follows(q, next)
  BY <1>3, <1>4, <1>5, ProbesAreSpecs, VP!LoadingMoves DEF RInv
<1> QED
  BY <1>7, <1>8, <1>9

LEMMA AssessStrategyOK ==
    ASSUME RInv, NEW v \in Validators, AssessStrategy(v)
    PROVE  RInv'
<1>1. IInv' /\ KeysGrow
  <2>1. UNCHANGED vars
    BY ReportStutters DEF ReportStep
  <2> QED
    BY <2>1, StutterGrows, NextOK DEF RInv, vars
<1>2. CASE FailReport(v)
  BY <1>2, FailReportOK
<1>3. CASE /\ \/ V!ReadRequirements(v) \/ V!MatchProvider(v)
              \/ V!ListTargets(v) \/ V!TryTarget(v) \/ V!ValidateOp(v)
           /\ UNCHANGED report
  <2>1. VP!IInv' /\ VP!PInv'
    BY <1>3, ProbeStep
  <2>2. PICK q, R : q = probe[v] /\ R = report[v]
    OBVIOUS
  <2>3. /\ q # Idle
        /\ q.pc \in VP!Checking
        /\ \/ VP!ReadRequirements(v) \/ VP!MatchProvider(v)
           \/ VP!ListTargets(v) \/ VP!TryTarget(v) \/ VP!ValidateOp(v)
    BY <1>3, <2>2, SameSteps, SameNames
    DEF VP!ReadRequirements, VP!MatchProvider, VP!ListTargets, VP!TryTarget, VP!ValidateOp,
        VP!At, VP!Active, VP!Checking
  <2>4. q.spec.op = "migrate"
    BY <2>2, <2>3, ActiveProbe
  <2>5. /\ R \in Report
        /\ R # NoReport
        /\ R.left # <<>>
        /\ R.migration # Idle
        /\ Restartable(R.migration)
        /\ R.migration.spec = R.spec
        /\ q.spec = [R.spec EXCEPT !.strategy = Head(R.left)]
        /\ q.key = R.migration.key
        /\ probe \in [Validators -> VP!Request \union {Idle}]
    BY <2>2, <2>3, SameNames
    DEF RInv, ReportsOK, Assessing, VP!IInv, VP!TypeOK, VP!Loading, VP!Checking
  <2>6. VP!Refuse(v) \/ \E next : VP!Proceed(v, next) /\ VP!Follows(q, next)
    BY <2>2, <2>3, <2>4, ProbesAreSpecs, VP!CheckingMoves DEF RInv
  <2>7. ASSUME NEW next, probe' = [probe EXCEPT ![v] = next], next = Idle \/ VP!Follows(q, next)
        PROVE  ReportsOK'
    <3>1. report' = [report EXCEPT ![v] = R]
      BY <1>3, <2>2 DEF RInv, ReportsOK
    <3>2. \A w \in Validators : probe'[w] = IF w = v THEN next ELSE probe[w]
      BY <2>5, <2>7
    <3>3. PICK m : m = R.migration
      OBVIOUS
    <3>4. Restartable(m)'
      <4>1. VP!Remembers(m)'
        BY <1>1, <2>5, <3>3, ProbesAreSpecs, SameGrowth, VP!GrowthKeepsMemory DEF Restartable
      <4>2. VP!StageOK(m)'
        BY <2>5, <3>3 DEF Restartable
      <4> QED
        BY <2>5, <3>3, <4>1, <4>2 DEF Restartable
    <3>5. Assessing(R, next)'
      BY <2>3, <2>5, <2>7, <3>3, <3>4 DEF Assessing, VP!Follows, VP!Loading, VP!Checking
    <3> QED
      BY <1>1, <2>5, <3>1, <3>2, <3>5, OneReportMoves DEF RInv
  <2>8. ReportsOK'
    BY <2>6, <2>7, SameNames DEF VP!Refuse, VP!End, VP!Proceed
  <2> QED
    BY <1>1, <2>1, <2>8 DEF RInv
<1> QED
  BY <1>2, <1>3 DEF AssessStrategy

LEMMA DropReportOK ==
    ASSUME RInv, NEW v \in Validators, DropReport(v)
    PROVE  RInv'
<1>1. KeysGrow /\ UNCHANGED <<vars, probe, seen>>
  BY StutterGrows DEF DropReport, vars
<1>2. IInv'
  BY <1>1, NextOK DEF RInv
<1>3. VP!IInv' /\ VP!PInv'
  BY <1>1, <1>2, OthersKeepProbes, OthersKeepRuled DEF RInv, vars
<1>4. probe[v] = Idle
  BY DEF DropReport, Reported, RInv, ReportsOK, Assessing
<1>5. Assessing(NoReport, Idle)'
  BY DEF Assessing
<1>6. ReportsOK'
  BY <1>1, <1>4, <1>5, OneReportMoves DEF RInv, DropReport
<1> QED
  BY <1>2, <1>3, <1>6 DEF RInv

(* The request a report starts anew for its next strategy.                  *)
StartedAnew(m, t) == [m EXCEPT !.spec.strategy = t]

LEMMA RestartedOK ==
    ASSUME NEW m, Restartable(m), NEW t \in Strategies, NEW next, next = StartedAnew(m, t)
    PROVE  /\ Restartable(next)
           /\ next.spec = [m.spec EXCEPT !.strategy = t]
           /\ next.key = m.key
           /\ next.pc = "requirements"
           /\ next # Idle
<1>1. m \in VP!Request /\ m.spec \in Probes
  BY DEF Restartable, VP!Request
<1>2. /\ next = [m EXCEPT !.spec = [m.spec EXCEPT !.strategy = t]]
      /\ [m.spec EXCEPT !.strategy = t] \in Probes
  BY <1>1, ReportAssumption DEF StartedAnew
<1>3. /\ next \in VP!Request
      /\ next.spec = [m.spec EXCEPT !.strategy = t]
      /\ next.key = m.key
      /\ next.pc = m.pc
      /\ next.policy = m.policy
      /\ next.at = m.at
      /\ next.last = m.last
  <2>1. \A n \in Probes : [m EXCEPT !.spec = n] \in VP!Request
    BY <1>1 DEF VP!Request
  <2>2. next.spec = [m.spec EXCEPT !.strategy = t] /\ next.key = m.key /\ next.pc = m.pc
    BY <1>1, <1>2 DEF VP!Request
  <2>3. next.policy = m.policy /\ next.at = m.at /\ next.last = m.last
    BY <1>1, <1>2 DEF VP!Request
  <2> QED
    BY <1>2, <2>1, <2>2, <2>3
<1>4. next.spec.op = m.spec.op /\ m.spec.op = "migrate"
  BY <1>1, <1>2, <1>3, ReportAssumption DEF RequestSpec
<1>5. m.pc = "requirements"
  BY DEF Restartable
<1>6. VP!StageOK(next)
  BY <1>3, <1>4, <1>5 DEF Restartable, VP!StageOK, VP!Stages, VP!HasLast, VP!ScopeOf
<1>7. VP!Remembers(next)
  BY <1>3 DEF Restartable, VP!Remembers
<1>8. next # Idle
  BY <1>3, <1>5 DEF Idle
<1> QED
  BY <1>3, <1>5, <1>6, <1>7, <1>8 DEF Restartable

LEMMA ConcludeOK ==
    ASSUME RInv, NEW v \in Validators, Conclude(v)
    PROVE  RInv'
<1>1. UNCHANGED vars
  BY DEF Conclude
<1>2. IInv' /\ KeysGrow
  BY <1>1, StutterGrows, NextOK DEF RInv, vars
<1>3. PICK R, q, m : R = report[v] /\ q = probe[v] /\ m = R.migration
  OBVIOUS
<1>4. /\ R \in Report
      /\ R # NoReport
      /\ R.left # <<>>
      /\ m # Idle
      /\ Restartable(m)
      /\ m.spec = R.spec
  BY <1>3 DEF Conclude, Decided, Loaded, Reporting, RInv, ReportsOK, Assessing
<1>5. PICK strategy, rest : strategy = Head(R.left) /\ rest = Tail(R.left)
  OBVIOUS
<1>6. /\ strategy \in Strategies
      /\ rest \in Seq(Strategies)
      /\ rest # <<>> => Head(rest) \in Strategies
  BY <1>4, <1>5 DEF Report
<1>7. PICK a : a = Assessment(v)
  OBVIOUS
<1>8. a \in Backends \union {NoBackend}
  <2>1. CASE V!Active(v)
    <3>1. q \in VP!Request
      BY <1>3, <2>1, ActiveProbe, SameNames DEF VP!Active
    <3> QED
      BY <1>3, <1>7, <3>1 DEF Assessment, VP!Request
  <2>2. CASE ~V!Active(v)
    BY <1>7, <2>2 DEF Assessment
  <2> QED
    BY <2>1, <2>2
<1> DEFINE options == [s \in DOMAIN R.options \union {strategy} |-> IF s = strategy THEN a ELSE R.options[s]]
           S == [R EXCEPT !.left = rest, !.options = options]
<1>9. report' = [report EXCEPT ![v] = S]
  BY <1>3, <1>5, <1>7 DEF Conclude
<1>10. /\ S \in Report
       /\ S.left = rest
       /\ S.spec = R.spec
       /\ S.migration = m
       /\ S # NoReport
  <2>1. PICK T \in SUBSET Strategies : R.options \in [T -> Backends \union {NoBackend}]
    BY <1>4 DEF Report
  <2>2. options \in [T \union {strategy} -> Backends \union {NoBackend}]
    BY <1>8, <2>1
  <2>3. options \in UNION {[U -> Backends \union {NoBackend}] : U \in SUBSET Strategies}
    BY <1>6, <2>2
  <2> HIDE DEF options
  <2>4. S \in Report
    BY <1>4, <1>6, <2>3 DEF Report
  <2>5. S.left = rest /\ S.spec = R.spec /\ S.migration = m
    BY <1>3, <1>4 DEF Report
  <2> HIDE DEF S
  <2> QED
    BY <2>4, <2>5, NoReportIsNone
<1> HIDE DEF options, S
<1>11. PICK next : next = IF rest # <<>> THEN StartedAnew(m, Head(rest)) ELSE Idle
  OBVIOUS
<1>12. rest # <<>> => /\ Restartable(next)
                      /\ next.spec = [m.spec EXCEPT !.strategy = Head(rest)]
                      /\ next.key = m.key
                      /\ next.pc = "requirements"
                      /\ next # Idle
  <2> SUFFICES ASSUME rest # <<>>
               PROVE  /\ Restartable(next)
                      /\ next.spec = [m.spec EXCEPT !.strategy = Head(rest)]
                      /\ next.key = m.key
                      /\ next.pc = "requirements"
                      /\ next # Idle
    OBVIOUS
  <2>1. PICK t \in Strategies : t = Head(rest)
    BY <1>6
  <2>2. next = StartedAnew(m, t)
    BY <1>11, <2>1
  <2> QED
    BY <1>4, <2>1, <2>2, RestartedOK
<1>13. probe' = [probe EXCEPT ![v] = next]
  BY <1>3, <1>5, <1>11 DEF Conclude, Restarted, StartedAnew
<1>14. ReportsOK'
  <2>1. \A w \in Validators : probe'[w] = IF w = v THEN next ELSE probe[w]
    BY <1>13 DEF RInv, VP!IInv, VP!TypeOK
  <2>2. Restartable(m)'
    <3>1. VP!Remembers(m)'
      BY <1>2, <1>4, ProbesAreSpecs, SameGrowth, VP!GrowthKeepsMemory DEF Restartable
    <3>2. VP!StageOK(m)'
      BY <1>4 DEF Restartable
    <3> QED
      BY <1>4, <3>1, <3>2 DEF Restartable
  <2>3. Assessing(S, next)'
    BY <1>4, <1>10, <1>11, <1>12, <2>2 DEF Assessing, VP!Checking
  <2> QED
    BY <1>2, <1>9, <1>10, <2>1, <2>3, OneReportMoves DEF RInv
<1>15. VP!IInv'
  <2>1. VP!KeysGrow
    BY <1>2, SameGrowth
  <2>2. /\ probe' \in [Validators -> VP!Request \union {Idle}]
        /\ VP!StagesOK'
        /\ VP!SnapshotIsPast'
    <3>1. CASE rest # <<>>
      <4>1. /\ next \in VP!Request
            /\ VP!StageOK(next)
            /\ VP!Remembers(next)'
        BY <1>12, <2>1, <3>1, ProbesAreSpecs, VP!GrowthKeepsMemory DEF Restartable
      <4> QED
        BY <1>13, <2>1, <4>1, ProbesAreSpecs, VP!RequestUpdate, SameNames DEF RInv
    <3>2. CASE rest = <<>>
      BY <1>11, <1>13, <2>1, <3>2, ProbesAreSpecs, VP!RequestEnds, SameNames DEF RInv
    <3> QED
      BY <3>1, <3>2
  <2>3. seen' \in [Validators -> SUBSET (PolicyNames \X (PolicyDocs \union {NoPolicy}))]
    <3>1. policies \in [PolicyNames -> PolicyDocs \union {NoPolicy}]
      BY DEF RInv, IInv, TypeOK
    <3>2. {<<p, policies[p]>> : p \in PolicyNames} \subseteq PolicyNames \X (PolicyDocs \union {NoPolicy})
      BY <3>1
    <3> QED
      BY <3>2 DEF Conclude, RInv, VP!IInv, VP!TypeOK
  <2> QED
    BY <1>1, <2>2, <2>3, SameNames
    DEF RInv, VP!IInv, VP!TypeOK, VP!KeysTypeOK, VP!LineageInv, VP!Distinct, vars
<1>16. VP!PInv'
  <2>1. probe \in [Validators -> VP!Request \union {Idle}]
    BY SameNames DEF RInv, VP!IInv, VP!TypeOK
  <2>2. ASSUME NEW w \in Validators, VP!Active(w)', w # v
        PROVE  /\ \A p \in PolicyNames : <<p, policies'[p]>> \in seen'[w]
               /\ VP!Ruled(probe[w], seen[w])'
               /\ VP!Requested(probe[w])'
    <3>1. probe'[w] = probe[w] /\ seen'[w] = seen[w] /\ UNCHANGED policies
      BY <1>1, <1>13, <2>1, <2>2 DEF Conclude, RInv, VP!IInv, VP!TypeOK, vars
    <3> QED
      BY <2>2, <3>1 DEF RInv, VP!PInv, VP!Active
  <2>3. ASSUME VP!Active(v)'
        PROVE  /\ \A p \in PolicyNames : <<p, policies'[p]>> \in seen'[v]
               /\ VP!Ruled(probe[v], seen[v])'
               /\ VP!Requested(probe[v])'
    <3>1. probe'[v] = next /\ rest # <<>>
      BY <1>11, <1>13, <2>1, <2>3, SameNames DEF VP!Active
    <3>2. PICK docs : docs = seen'[v]
      OBVIOUS
    <3>3. docs = {<<p, policies[p]>> : p \in PolicyNames}
      BY <1>3, <1>5, <3>1, <3>2 DEF Conclude, RInv, VP!IInv, VP!TypeOK
    <3>4. VP!Ruled(next, docs) /\ VP!Requested(next)
      BY <1>12, <3>1, ProbesAreSpecs, VP!UnruledLabel
    <3> QED
      BY <1>1, <3>1, <3>2, <3>3, <3>4 DEF vars
  <2> QED
    BY <2>2, <2>3 DEF VP!PInv
<1> QED
  BY <1>2, <1>14, <1>15, <1>16 DEF RInv

(* Steps of requests, administrators and registry: the probes and what was  *)
(* loaded for them outlive whatever is done to the keys.                    *)
LEMMA OthersStepOK ==
    ASSUME RInv, [Next]_vars, Stirred, UNCHANGED probe,
           UNCHANGED <<seen, policies>> \/ \E p \in PolicyNames, d \in PolicyEdits : V!PutPolicy(p, d)
    PROVE  RInv'
<1>1. IInv' /\ KeysGrow
  BY NextOK, StepRefines, AbstractStepGrows DEF RInv, IInv, TypeOK
<1>2. CASE UNCHANGED <<seen, policies>>
  BY <1>1, <1>2, OthersKeepReports, OthersKeepProbes, OthersKeepRuled DEF RInv
<1>3. ASSUME NEW p \in PolicyNames, NEW d \in PolicyEdits, V!PutPolicy(p, d)
      PROVE  RInv'
  <2>1. VP!PutPolicy(p, d)
    BY <1>3, SameNames
  <2>2. VP!IInv' /\ VP!PInv'
    BY <2>1, ProbesAreSpecs, VP!PutPolicyOK, VP!PutPolicyRuled DEF RInv
  <2> QED
    BY <1>1, <2>2, OthersKeepReports DEF RInv
<1> QED
  BY <1>2, <1>3

LEMMA ReportInitOK == ReportInit => RInv
<1> SUFFICES ASSUME ReportInit PROVE RInv
  OBVIOUS
<1>1. IInv
  BY InitOK DEF ReportInit
<1>2. \A v \in Validators : probe[v] = Idle /\ report[v] = NoReport
  BY DEF ReportInit
<1>3. ReportsOK
  BY <1>2 DEF ReportInit, ReportsOK, Assessing
<1>4. VP!TypeOK
  <2>1. KeysTypeOK /\ Distinct(registry)
    BY <1>1 DEF IInv, TypeOK
  <2>2. VP!KeysTypeOK /\ VP!Distinct(registry)
    BY <2>1, SameStore DEF KeysTypeOK, VP!KeysTypeOK
  <2>3. /\ registry \in Seq(Backends)
        /\ policies \in [PolicyNames -> PolicyDocs \union {NoPolicy}]
    BY <1>1 DEF IInv, TypeOK
  <2>4. /\ probe \in [Validators -> VP!Request \union {VP!Idle}]
        /\ seen \in [Validators -> SUBSET (PolicyNames \X (PolicyDocs \union {NoPolicy}))]
    BY SameNames DEF ReportInit
  <2> QED
    BY <2>2, <2>3, <2>4 DEF VP!TypeOK
<1>5. VP!LineageInv
  BY <1>1, SameStore DEF IInv, LineageInv, VP!LineageInv
<1>6. \A v \in Validators : ~VP!Active(v)
  BY <1>2, SameNames DEF VP!Active
<1>7. VP!StagesOK /\ VP!SnapshotIsPast /\ VP!PInv
  BY <1>6 DEF VP!StagesOK, VP!SnapshotIsPast, VP!PInv
<1> QED
  BY <1>1, <1>3, <1>4, <1>5, <1>7 DEF RInv, VP!IInv

LEMMA ReportNextOK ==
    ASSUME RInv, [ReportNext]_reportVars
    PROVE  RInv'
<1>1. [Next]_vars
  BY ReportNextIsNext
<1>2. ASSUME NEW v \in Validators, NEW s \in Probes,
             BeginReport(v, s, MigrationStrategies) \/ BeginReport(v, s, <<s.strategy>>)
      PROVE  RInv'
  BY <1>2, BeginReportOK
<1>3. ASSUME NEW v \in Validators, ReportStep(v)
      PROVE  RInv'
  BY <1>3, LoadMigrationOK, AssessStrategyOK, ConcludeOK DEF ReportStep
<1>4. ASSUME NEW r \in Requests, RequestStep(r)
      PROVE  RInv'
  <2>1. UNCHANGED policies
    BY <1>4, StepAlone DEF RequestStep, StepsAlone
  <2> QED
    BY <1>1, <1>4, <2>1, OthersStepOK DEF RequestStep
<1>5. ASSUME Beside
      PROVE  RInv'
  <2>1. ASSUME NEW r \in Requests, DependencyError(r) \/ \E s \in Specs : Begin(r, s)
        PROVE  UNCHANGED policies
    BY <2>1 DEF DependencyError, Refuse, Begin
  <2>2. ASSUME NEW b, RegisterBackend(b) \/ RemoveBackend(b)
        PROVE  UNCHANGED policies
    BY <2>2 DEF RegisterBackend, RemoveBackend
  <2>3. CASE UNCHANGED <<probe, seen, policies>> /\ Stirred
    BY <1>1, <2>3, OthersStepOK
  <2>4. ASSUME NEW p \in PolicyNames, NEW d \in PolicyEdits, PutPolicy(p, d), V!PutPolicy(p, d), Stirred
        PROVE  RInv'
    <3>1. UNCHANGED probe
      BY <2>4 DEF V!PutPolicy
    <3> QED
      BY <1>1, <2>4, <3>1, OthersStepOK
  <2> QED
    BY <1>5, <2>1, <2>2, <2>3, <2>4 DEF Beside
<1>6. ASSUME UNCHANGED reportVars
      PROVE  RInv'
  <2>1. UNCHANGED <<vars, probe, seen, report>>
    BY <1>6 DEF reportVars
  <2>2. IInv' /\ KeysGrow
    BY <1>1, <2>1, NextOK, StutterGrows DEF RInv, vars
  <2>3. VP!IInv' /\ VP!PInv'
    BY <2>1, <2>2, OthersKeepProbes, OthersKeepRuled DEF RInv, vars
  <2>4. ASSUME NEW v \in Validators
        PROVE  Assessing(report[v], probe[v])'
    <3>1. PICK R, q : R = report[v] /\ q = probe[v] /\ R \in Report \union {NoReport}
      BY DEF RInv, ReportsOK
    <3>2. Assessing(R, q)'
      BY <2>2, <3>1, OthersKeepAssessing DEF RInv, ReportsOK
    <3> QED
      BY <2>1, <3>1, <3>2
  <2> QED
    BY <2>1, <2>2, <2>3, <2>4 DEF RInv, ReportsOK
<1> QED
  BY <1>2, <1>3, <1>4, <1>5, <1>6, FailReportOK, DropReportOK DEF ReportNext

-----------------------------------------------------------------------------
(* What a report foretells.  While it is calm what it has loaded stays      *)
(* current, and the strategy under assessment is an undisturbed request;    *)
(* so each assessment made is the fate of a request for that strategy.      *)

Foretold(R, q) ==
    /\ DOMAIN R.options \union {R.left[i] : i \in DOMAIN R.left} \in {{R.spec.strategy}, Strategies}
    /\ R.migration = Idle => DOMAIN R.options = {}
    /\ \A s \in DOMAIN R.options : R.options[s] # NoBackend => s \in ImplementedStrategies
    /\ R.calm =>
         /\ q # Idle => VP!Undisturbed(q)
         /\ R.migration # Idle => VP!Undisturbed(R.migration)
         /\ R.migration # Idle /\ R.left # <<>> /\ q = Idle =>
              VP!Blocked(StartedAnew(R.migration, Head(R.left)))
         /\ \A s \in DOMAIN R.options :
              LET m == StartedAnew(R.migration, s) IN
              IF R.options[s] # NoBackend THEN R.options[s] \in VP!Fate(m)
              ELSE s \in ImplementedStrategies => VP!Blocked(m)

Calm == \E v \in Validators : report[v] # NoReport /\ report[v].calm

CalmInv ==
    /\ StrategiesOK
    /\ Calm => AllUndisturbed
    /\ \A v \in Validators : report[v] # NoReport => Foretold(report[v], probe[v])

LEMMA StoreKeepsForetold ==
    ASSUME NEW R \in Report, NEW q, NEW S, NEW c \in BOOLEAN,
           S = R \/ S = [R EXCEPT !.calm = c],
           S.calm => R.calm /\ UNCHANGED <<keys, registry, policies>>,
           Foretold(R, q)
    PROVE  Foretold(S, q)'
<1>1. /\ S.spec = R.spec
      /\ S.left = R.left
      /\ S.migration = R.migration
      /\ S.options = R.options
  BY DEF Report
<1>2. ASSUME S.calm, NEW m
      PROVE  /\ VP!Undisturbed(m)' <=> VP!Undisturbed(m)
             /\ VP!Fate(m)' = VP!Fate(m)
             /\ VP!Blocked(m)' <=> VP!Blocked(m)
  BY <1>2, ProbesAreSpecs, VP!UndisturbedStays
<1> QED
  BY <1>1, <1>2 DEF Foretold

(* A step of the report of v that leaves it as S, with the probe q.         *)
LEMMA OneForetells ==
    ASSUME RInv, RInv', CalmInv, UNCHANGED vars, NEW v \in Validators, NEW S, NEW q,
           report' = [report EXCEPT ![v] = S],
           \A w \in Validators : probe'[w] = IF w = v THEN q ELSE probe[w],
           S # NoReport => S \in Report /\ Foretold(S, q) /\ (S.calm => AllUndisturbed)
    PROVE  CalmInv'
<1>1. /\ report \in [Validators -> Report \union {NoReport}]
      /\ UNCHANGED <<keys, registry, policies>>
  BY DEF RInv, ReportsOK, vars
<1>2. StrategiesOK'
  BY StrategiesStep DEF RInv, CalmInv, vars
<1>3. Calm' => AllUndisturbed'
  <2>1. ASSUME NEW w \in Validators, report'[w] # NoReport, report'[w].calm
        PROVE  AllUndisturbed
    <3>1. CASE w = v
      BY <1>1, <2>1, <3>1
    <3>2. CASE w # v
      BY <1>1, <2>1, <3>2 DEF CalmInv, Calm
    <3> QED
      BY <3>1, <3>2
  <2>2. AllUndisturbed => AllUndisturbed'
    BY <1>1, UndisturbedStep DEF RInv
  <2> QED
    BY <2>1, <2>2 DEF Calm
<1>4. ASSUME NEW R \in Report, NEW p, Foretold(R, p)
      PROVE  Foretold(R, p)'
  <2>1. PICK c \in BOOLEAN : c = R.calm
    BY DEF Report
  <2> QED
    BY <1>1, <1>4, <2>1, StoreKeepsForetold
<1>5. ASSUME NEW w \in Validators, report'[w] # NoReport
      PROVE  Foretold(report[w], probe[w])'
  <2>1. CASE w = v
    <3>1. report'[w] = S /\ probe'[w] = q
      BY <1>1, <2>1
    <3>2. Foretold(S, q)'
      BY <1>4, <1>5, <3>1
    <3> QED
      BY <3>1, <3>2
  <2>2. CASE w # v
    <3>1. PICK R, p : R = report[w] /\ p = probe[w]
      OBVIOUS
    <3>2. report'[w] = R /\ probe'[w] = p
      BY <1>1, <2>2, <3>1
    <3>3. R \in Report /\ Foretold(R, p)
      BY <1>1, <1>5, <3>1, <3>2 DEF CalmInv
    <3>4. Foretold(R, p)'
      BY <1>4, <3>3
    <3> QED
      BY <3>2, <3>4
  <2> QED
    BY <2>1, <2>2
<1> QED
  BY <1>2, <1>3, <1>5 DEF CalmInv

(* A step of another.                                                       *)
LEMMA OthersForetell ==
    ASSUME RInv, CalmInv, [Next]_vars, Stirred, UNCHANGED probe
    PROVE  CalmInv'
<1>1. PICK calm \in BOOLEAN : calm = UNCHANGED <<keys, registry, policies>>
  OBVIOUS
<1>2. StrategiesOK'
  BY StrategiesStep DEF RInv, CalmInv
<1>3. ASSUME NEW v \in Validators, NEW R, R = report[v], NEW S, S = report'[v], S # NoReport
      PROVE  /\ R \in Report /\ R # NoReport
             /\ S = [R EXCEPT !.calm = R.calm /\ calm]
             /\ S.calm => R.calm /\ calm
  <2>1. R \in Report \union {NoReport}
    BY <1>3 DEF RInv, ReportsOK
  <2>2. S = IF R = NoReport THEN NoReport ELSE [R EXCEPT !.calm = R.calm /\ calm]
    BY <1>1, <1>3 DEF Stirred
  <2> QED
    BY <1>3, <2>1, <2>2 DEF Report
<1>4. Calm' => AllUndisturbed'
  <2>1. Calm' => Calm /\ calm
    BY <1>3 DEF Calm
  <2> QED
    BY <1>1, <2>1, UndisturbedStep DEF RInv, CalmInv
<1>5. ASSUME NEW v \in Validators, report'[v] # NoReport
      PROVE  Foretold(report[v], probe[v])'
  <2>1. PICK R, S, q : R = report[v] /\ S = report'[v] /\ q = probe[v]
    OBVIOUS
  <2>2. /\ R \in Report /\ R # NoReport
        /\ S = [R EXCEPT !.calm = R.calm /\ calm]
        /\ S.calm => R.calm /\ calm
    BY <1>3, <1>5, <2>1
  <2>3. PICK c \in BOOLEAN : c = (R.calm /\ calm)
    OBVIOUS
  <2>4. Foretold(R, q)
    BY <2>1, <2>2 DEF CalmInv
  <2>5. S = [R EXCEPT !.calm = c]
    BY <2>2, <2>3
  <2>6. Foretold(S, q)'
    BY <1>1, <2>2, <2>3, <2>4, <2>5, StoreKeepsForetold
  <2> QED
    BY <2>1, <2>6
<1> QED
  BY <1>2, <1>4, <1>5 DEF CalmInv

LEMMA StartedAnewUndisturbed ==
    ASSUME NEW m, Restartable(m), VP!Undisturbed(m), NEW t \in Strategies,
           NEW next, next = StartedAnew(m, t)
    PROVE  VP!Undisturbed(next)
<1>1. m \in VP!Request /\ m.pc = "requirements" /\ m.spec \in RequestSpec
  BY ReportAssumption DEF Restartable, VP!Request
<1>2. next = [m EXCEPT !.spec = [m.spec EXCEPT !.strategy = t]]
  BY <1>1 DEF StartedAnew
<1>3. /\ next.spec.name = m.spec.name
      /\ next.pc = m.pc
      /\ next.key = m.key
      /\ next.policy = m.policy
      /\ next.at = m.at
      /\ next.last = m.last
      /\ next.source = m.source
      /\ next.tried = m.tried
  <2>1. "spec" \in DOMAIN m
    BY <1>1 DEF VP!Request
  <2>2. next.spec = [m.spec EXCEPT !.strategy = t]
    BY <1>2, <2>1
  <2>3. next.spec.name = m.spec.name
    BY <1>1, <2>2 DEF RequestSpec
  <2>4. /\ {"pc", "key", "policy", "at", "last", "source", "tried"} \subseteq DOMAIN m
    BY <1>1 DEF VP!Request
  <2> QED
    BY <1>2, <2>3, <2>4
<1>4. VP!Current(next)
  BY <1>1, <1>3 DEF VP!Undisturbed, VP!Current, VP!Loading
<1> QED
  BY <1>1, <1>3, <1>4 DEF VP!Undisturbed, VP!Loading, VP!Checking

(* A strategy under assessment has the fate of the request started anew.    *)
LEMMA AssessedAlike ==
    ASSUME RInv, NEW m, Restartable(m), VP!Undisturbed(m), NEW q, VP!Undisturbed(q),
           q.pc \in VP!Checking, q.key = m.key, NEW t \in Strategies,
           q.spec = [m.spec EXCEPT !.strategy = t], NEW p, p = StartedAnew(m, t)
    PROVE  VP!Fate(q) = VP!Fate(p) /\ (VP!Blocked(q) <=> VP!Blocked(p))
<1>1. /\ p.pc = "requirements"
      /\ p.spec = q.spec
      /\ p.key = q.key
  BY RestartedOK
<1>2. VP!Current(q) /\ VP!Current(p)
  BY StartedAnewUndisturbed DEF VP!Undisturbed
<1>3. q.pc \notin VP!Loading /\ p.pc \notin VP!Loading
  BY <1>1 DEF VP!Loading, VP!Checking
<1>4. VP!Distinct(registry)
  BY DEF RInv, VP!IInv, VP!TypeOK
<1>5. VP!Alike(q, p)
  BY <1>1, <1>2, <1>3, <1>4, ProbesAreSpecs, VP!SameKeySameFate
<1> QED
  BY <1>5, ProbesAreSpecs, VP!AlikeFates

LEMMA BeginReportForetells ==
    ASSUME RInv, RInv', CalmInv, NEW v \in Validators, NEW s \in Probes,
           NEW strategies \in {MigrationStrategies, <<s.strategy>>}, BeginReport(v, s, strategies)
    PROVE  CalmInv'
<1>1. UNCHANGED vars
  BY DEF BeginReport, V!Begin, RequestsWait, vars
<1>2. s.op = "migrate" /\ s.strategy \in Strategies
  BY ReportAssumption DEF RequestSpec
<1>3. PICK calm \in BOOLEAN : calm = \A r \in Requests : ~Active(r)
  OBVIOUS
<1>4. PICK q, S : /\ q = VP!Start(s)
                  /\ S = [spec |-> s, left |-> strategies, migration |-> Idle, options |-> <<>>, calm |-> calm]
  OBVIOUS
<1>5. report' = [report EXCEPT ![v] = S] /\ probe' = [probe EXCEPT ![v] = q]
  BY <1>3, <1>4, SameSteps DEF BeginReport, VP!Begin
<1>6. \A w \in Validators : probe'[w] = IF w = v THEN q ELSE probe[w]
  BY <1>5 DEF RInv, VP!IInv, VP!TypeOK
<1>7. S.calm => AllUndisturbed
  BY <1>3, <1>4 DEF AllUndisturbed
<1>8. {strategies[i] : i \in DOMAIN strategies} \in {{s.strategy}, Strategies}
  <2>1. CASE strategies = <<s.strategy>>
    BY <2>1
  <2>2. CASE strategies = MigrationStrategies
    <3>1. DOMAIN strategies = {1, 2, 3, 4, 5}
      BY <2>2 DEF MigrationStrategies
    <3>2. {strategies[i] : i \in DOMAIN strategies} = Strategies
      BY <2>2, <3>1 DEF MigrationStrategies, Strategies
    <3> QED
      BY <3>2
  <2> QED
    BY <2>1, <2>2
<1>9. Foretold(S, q)
  <2>1. /\ q.pc = "getKey"
        /\ q.tried = {}
    BY <1>2, <1>4 DEF VP!Start
  <2>2. VP!Undisturbed(q)
    BY <2>1 DEF VP!Undisturbed, VP!Current, VP!Loading, VP!Checking
  <2>3. /\ S.spec = s
        /\ S.left = strategies
        /\ S.migration = Idle
        /\ DOMAIN S.options = {}
    BY <1>4
  <2>4. DOMAIN S.options \union {S.left[i] : i \in DOMAIN S.left} \in {{S.spec.strategy}, Strategies}
    BY <1>8, <2>3
  <2> QED
    BY <2>2, <2>3, <2>4 DEF Foretold
<1>10. S # NoReport => S \in Report
  BY <1>5 DEF RInv, ReportsOK
<1> QED
  BY <1>1, <1>5, <1>6, <1>7, <1>9, <1>10, OneForetells

LEMMA EndForetells ==
    ASSUME RInv, RInv', CalmInv, NEW v \in Validators, FailReport(v) \/ DropReport(v)
    PROVE  CalmInv'
<1>1. UNCHANGED vars
  BY DEF FailReport, V!Refuse, RequestsWait, DropReport, vars
<1>2. report' = [report EXCEPT ![v] = NoReport]
  BY DEF FailReport, DropReport
<1>3. PICK q : q = probe'[v]
  OBVIOUS
<1>4. \A w \in Validators : probe'[w] = IF w = v THEN q ELSE probe[w]
  BY <1>3 DEF FailReport, V!Refuse, V!End, DropReport, RInv, VP!IInv, VP!TypeOK
<1> QED
  BY <1>1, <1>2, <1>4, OneForetells

LEMMA LoadMigrationForetells ==
    ASSUME RInv, RInv', CalmInv, NEW v \in Validators, LoadMigration(v)
    PROVE  CalmInv'
<1>1. UNCHANGED vars
  BY ReportStutters DEF ReportStep
<1>2. PICK q, R : q = probe[v] /\ R = report[v]
  OBVIOUS
<1>3. /\ q # Idle
      /\ q.pc \in VP!Loading
      /\ VP!GetKey(v) \/ VP!GetVersion(v) \/ VP!GetSource(v)
  BY <1>2, SameSteps, SameNames
  DEF LoadMigration, VP!GetKey, VP!GetVersion, VP!GetSource, VP!At, VP!Active, VP!Loading
<1>4. q.spec.op = "migrate"
  BY <1>2, <1>3, ActiveProbe
<1>5. /\ R \in Report
      /\ R # NoReport
      /\ R.left # <<>>
      /\ R.migration = Idle
      /\ probe \in [Validators -> VP!Request \union {Idle}]
  <2>1. R \in Report \union {NoReport} /\ Assessing(R, q)
    BY <1>2 DEF RInv, ReportsOK
  <2>2. R # NoReport /\ R.left # <<>>
    BY <2>1, <1>3 DEF Assessing
  <2>3. q.pc \notin VP!Checking
    BY <1>3 DEF VP!Loading, VP!Checking
  <2>4. R.migration = Idle
    BY <2>1, <2>2, <2>3, <1>3 DEF Assessing
  <2>5. probe \in [Validators -> VP!Request \union {Idle}]
    BY SameNames DEF RInv, VP!IInv, VP!TypeOK
  <2> QED
    BY <2>1, <2>2, <2>4, <2>5
<1>6. Foretold(R, q) /\ (R.calm => AllUndisturbed)
  BY <1>2, <1>5 DEF CalmInv, Calm
<1>7. PICK next : next = probe'[v]
  OBVIOUS
<1>8. \A w \in Validators : probe'[w] = IF w = v THEN next ELSE probe[w]
  BY <1>3, <1>5, <1>7
  DEF VP!GetKey, VP!GetVersion, VP!GetSource, VP!Check, VP!Proceed, VP!Refuse, VP!End
<1>9. R.calm => next = Idle \/ VP!Undisturbed(next)
  <2> SUFFICES ASSUME R.calm PROVE next = Idle \/ VP!Undisturbed(next)
    OBVIOUS
  <2>1. VP!Undisturbed(q)
    BY <1>3, <1>6 DEF Foretold
  <2>2. VP!Advances(v, q) \/ VP!Refuse(v)
    BY <1>2, <1>3, <1>4, <2>1, ProbesAreSpecs, VP!UndisturbedGetKey, VP!UndisturbedGetVersion,
       VP!UndisturbedGetSource DEF RInv
  <2> QED
    BY <1>5, <1>7, <2>2, SameNames DEF VP!Advances, VP!Proceed, VP!Refuse, VP!End
<1>10. PICK S : S = report'[v]
  OBVIOUS
<1>11. /\ report' = [report EXCEPT ![v] = S]
       /\ S = IF next = Idle THEN NoReport
              ELSE IF next.pc = "requirements" THEN [R EXCEPT !.migration = next]
              ELSE R
  BY <1>2, <1>7, <1>10 DEF LoadMigration, RInv, ReportsOK
<1>12. S # NoReport => S \in Report
  BY <1>10 DEF RInv, ReportsOK
<1>13. ASSUME S # NoReport
       PROVE  Foretold(S, next) /\ (S.calm => R.calm)
  <2>1. /\ S.spec = R.spec
        /\ S.left = R.left
        /\ S.options = R.options
        /\ S.calm = R.calm
        /\ S.migration = Idle \/ S.migration = next
        /\ next # Idle
    BY <1>5, <1>11, <1>13 DEF Report
  <2> QED
    BY <1>5, <1>6, <1>9, <2>1 DEF Foretold
<1> QED
  BY <1>1, <1>6, <1>8, <1>11, <1>12, <1>13, OneForetells

LEMMA AssessStrategyForetells ==
    ASSUME RInv, RInv', CalmInv, NEW v \in Validators, AssessStrategy(v)
    PROVE  CalmInv'
<1>1. UNCHANGED vars
  BY ReportStutters DEF ReportStep
<1>2. CASE FailReport(v)
  BY <1>2, EndForetells
<1>3. CASE /\ \/ V!ReadRequirements(v) \/ V!MatchProvider(v)
              \/ V!ListTargets(v) \/ V!TryTarget(v) \/ V!ValidateOp(v)
           /\ UNCHANGED report
  <2>1. PICK q, R, next : q = probe[v] /\ R = report[v] /\ next = probe'[v]
    OBVIOUS
  <2>2. /\ q # Idle
        /\ q.pc \in VP!Checking
        /\ \/ VP!ReadRequirements(v) \/ VP!MatchProvider(v)
           \/ VP!ListTargets(v) \/ VP!TryTarget(v) \/ VP!ValidateOp(v)
    BY <1>3, <2>1, SameSteps, SameNames
    DEF VP!ReadRequirements, VP!MatchProvider, VP!ListTargets, VP!TryTarget, VP!ValidateOp,
        VP!At, VP!Active, VP!Checking
  <2>3. q.spec.op = "migrate"
    BY <2>1, <2>2, ActiveProbe
  <2>4. /\ R \in Report
        /\ R # NoReport
        /\ R.left # <<>>
        /\ R.migration # Idle
        /\ Restartable(R.migration)
        /\ R.migration.spec = R.spec
        /\ q.spec = [R.spec EXCEPT !.strategy = Head(R.left)]
        /\ q.key = R.migration.key
        /\ probe \in [Validators -> VP!Request \union {Idle}]
    BY <2>1, <2>2, SameNames
    DEF RInv, ReportsOK, Assessing, VP!IInv, VP!TypeOK, VP!Loading, VP!Checking
  <2>5. Foretold(R, q) /\ (R.calm => AllUndisturbed)
    BY <2>1, <2>4 DEF CalmInv, Calm
  <2>6. VP!Refuse(v) \/ \E n : VP!Proceed(v, n)
    BY <2>1, <2>2, <2>3, ProbesAreSpecs, VP!CheckingMoves DEF RInv
  <2>7. \A w \in Validators : probe'[w] = IF w = v THEN next ELSE probe[w]
    BY <2>1, <2>4, <2>6 DEF VP!Proceed, VP!Refuse, VP!End
  <2>8. ASSUME R.calm
        PROVE  /\ next # Idle => VP!Undisturbed(next)
               /\ next = Idle => VP!Blocked(StartedAnew(R.migration, Head(R.left)))
    <3>1. VP!Undisturbed(q) /\ VP!Undisturbed(R.migration)
      BY <2>2, <2>4, <2>5, <2>8 DEF Foretold
    <3>2. VP!Advances(v, q) \/ (VP!Refuse(v) /\ VP!Blocked(q))
      BY <2>1, <2>2, <2>3, <3>1, ProbesAreSpecs, VP!UndisturbedReadRequirements,
         VP!UndisturbedMatchProvider, VP!UndisturbedListTargets, VP!UndisturbedTryTarget,
         VP!UndisturbedValidateOp DEF RInv
    <3>3. CASE VP!Advances(v, q)
      <4>1. PICK n : VP!Proceed(v, n) /\ VP!Follows(q, n) /\ VP!Undisturbed(n)
        BY <3>3 DEF VP!Advances
      <4>2. n = next /\ n # Idle
        BY <2>1, <2>2, <2>4, <4>1 DEF VP!Proceed, VP!Follows, VP!Loading, VP!Checking, Idle
      <4> QED
        BY <4>1, <4>2
    <3>4. CASE VP!Refuse(v) /\ VP!Blocked(q)
      <4>1. next = Idle
        BY <2>1, <2>4, <3>4, SameNames DEF VP!Refuse, VP!End
      <4>2. PICK m, t, p : m = R.migration /\ t = Head(R.left) /\ p = StartedAnew(m, t)
        OBVIOUS
      <4>3. t \in Strategies
        BY <2>4, <4>2 DEF Report
      <4>4. VP!Blocked(p)
        BY <2>2, <2>4, <3>1, <3>4, <4>2, <4>3, AssessedAlike
      <4> QED
        BY <4>1, <4>2, <4>4
    <3> QED
      BY <3>2, <3>3, <3>4
  <2>9. Foretold(R, next)
    BY <2>4, <2>5, <2>8 DEF Foretold
  <2>10. report' = [report EXCEPT ![v] = R]
    BY <1>3, <2>1 DEF RInv, ReportsOK
  <2> QED
    BY <1>1, <2>4, <2>5, <2>7, <2>9, <2>10, OneForetells
<1> QED
  BY <1>2, <1>3 DEF AssessStrategy

(* The assessment of the strategy first left: its fate, if it is calm.      *)
LEMMA AssessmentIsFate ==
    ASSUME RInv, CalmInv, NEW v \in Validators, Decided(v),
           NEW R, R = report[v], R.calm, NEW t, t = Head(R.left),
           NEW p, p = StartedAnew(R.migration, t)
    PROVE  /\ Assessment(v) # NoBackend => Assessment(v) \in VP!Fate(p)
           /\ Assessment(v) = NoBackend /\ t \in ImplementedStrategies => VP!Blocked(p)
<1>1. PICK q, m : q = probe[v] /\ m = R.migration
  OBVIOUS
<1>2. /\ R \in Report
      /\ R # NoReport
      /\ R.left # <<>>
      /\ m # Idle
      /\ Restartable(m)
      /\ m.spec = R.spec
  BY <1>1 DEF Decided, Loaded, Reporting, RInv, ReportsOK, Assessing
<1>3. t \in Strategies
  BY <1>2 DEF Report
<1>4. Foretold(R, q)
  BY <1>1, <1>2 DEF CalmInv
<1>5. VP!Undisturbed(m)
  BY <1>1, <1>2, <1>4 DEF Foretold
<1>6. CASE V!Active(v)
  <2>1. q # Idle /\ q.pc = "persist"
    BY <1>1, <1>6, SameNames DEF Decided, VP!Active, VP!At
  <2>2. VP!Undisturbed(q)
    BY <1>4, <2>1 DEF Foretold
  <2>3. /\ q.spec = [m.spec EXCEPT !.strategy = t]
        /\ q.key = m.key
    BY <1>1, <1>2, <2>1 DEF RInv, ReportsOK, Assessing
  <2>4. VP!Fate(q) = VP!Fate(p)
    BY <1>1, <1>2, <1>3, <1>5, <2>1, <2>2, <2>3, AssessedAlike DEF VP!Checking
  <2>5. q.target \in Backends
    <3>1. VP!Leads(q, q.custody, q.target)
      BY <2>1, <2>2 DEF VP!Undisturbed
    <3>2. VP!Distinct(registry) /\ registry \in Seq(Backends)
      BY DEF RInv, VP!IInv, VP!TypeOK
    <3> QED
      BY <3>1, <3>2, ProbesAreSpecs, VP!OneTarget
  <2>6. q.target \in VP!Fate(p)
    BY <2>1, <2>2, <2>4, <2>5, ProbesAreSpecs, VP!ArrivesAtFate
  <2>7. q.target # NoBackend
    BY <2>5, BackendAssumption
  <2>8. Assessment(v) = IF t \in ImplementedStrategies THEN q.target ELSE NoBackend
    BY <1>1, <1>6 DEF Assessment
  <2> QED
    BY <2>6, <2>7, <2>8
<1>7. CASE ~V!Active(v)
  <2>1. q = Idle
    BY <1>1, <1>7, SameNames DEF VP!Active
  <2>2. VP!Blocked(p)
    BY <1>1, <1>2, <1>4, <2>1 DEF Foretold
  <2> QED
    BY <1>7, <2>2 DEF Assessment
<1> QED
  BY <1>6, <1>7

LEMMA ConcludeForetells ==
    ASSUME RInv, RInv', CalmInv, NEW v \in Validators, Conclude(v)
    PROVE  CalmInv'
<1>1. UNCHANGED vars /\ Decided(v)
  BY DEF Conclude
<1>2. PICK R, q, m : R = report[v] /\ q = probe[v] /\ m = R.migration
  OBVIOUS
<1>3. /\ R \in Report
      /\ R # NoReport
      /\ R.left # <<>>
      /\ m # Idle
      /\ Restartable(m)
      /\ m.spec = R.spec
  BY <1>1, <1>2 DEF Decided, Loaded, Reporting, RInv, ReportsOK, Assessing
<1>4. PICK strategy, rest, a, old :
         strategy = Head(R.left) /\ rest = Tail(R.left) /\ a = Assessment(v) /\ old = R.options
  OBVIOUS
<1>5. /\ strategy \in Strategies
      /\ rest \in Seq(Strategies)
      /\ rest # <<>> => Head(rest) \in Strategies
      /\ {R.left[i] : i \in DOMAIN R.left} = {strategy} \union {rest[i] : i \in DOMAIN rest}
  <2>1. PICK n \in Nat : DOMAIN R.left = 1..n /\ n > 0 /\ n = Len(R.left)
    BY <1>3 DEF Report
  <2>2. DOMAIN rest = 1..(n - 1) /\ \A i \in 1..(n - 1) : rest[i] = R.left[i + 1]
    BY <1>3, <1>4, <2>1 DEF Report
  <2>3. \A i \in 1..n : i = 1 \/ (i - 1 \in 1..(n - 1) /\ R.left[i] = rest[i - 1])
    BY <2>1, <2>2
  <2>4. strategy = R.left[1]
    BY <1>3, <1>4 DEF Report
  <2>5. \A i \in DOMAIN R.left : R.left[i] \in {strategy} \union {rest[j] : j \in DOMAIN rest}
    <3>1. ASSUME NEW i \in 1..n, i # 1
          PROVE  R.left[i] \in {rest[j] : j \in DOMAIN rest}
      BY <2>2, <2>3, <3>1
    <3> QED
      BY <2>1, <2>4, <3>1
  <2>6. ASSUME NEW x \in {strategy} \union {rest[i] : i \in DOMAIN rest}
        PROVE  x \in {R.left[i] : i \in DOMAIN R.left}
    <3>1. CASE x = strategy
      BY <3>1, <2>1, <2>4
    <3>2. CASE x # strategy
      <4>1. PICK i \in 1..(n - 1) : x = rest[i]
        BY <3>2, <2>2
      <4> QED
        BY <4>1, <2>1, <2>2
    <3> QED
      BY <3>1, <3>2
  <2>7. strategy \in Strategies /\ rest \in Seq(Strategies)
    BY <1>3, <1>4 DEF Report
  <2>8. rest # <<>> => Head(rest) \in Strategies
    BY <2>7
  <2> QED
    BY <2>5, <2>6, <2>7, <2>8
<1>6. PICK S, options, next :
         /\ options = [s \in DOMAIN old \union {strategy} |-> IF s = strategy THEN a ELSE old[s]]
         /\ S = [R EXCEPT !.left = rest, !.options = options]
         /\ next = IF rest # <<>> THEN StartedAnew(m, Head(rest)) ELSE Idle
  OBVIOUS
<1>7. report' = [report EXCEPT ![v] = S]
  BY <1>2, <1>4, <1>6 DEF Conclude
<1>8. \A w \in Validators : probe'[w] = IF w = v THEN next ELSE probe[w]
  <2>1. probe' = [probe EXCEPT ![v] = next]
    BY <1>2, <1>4, <1>6 DEF Conclude, Restarted, StartedAnew
  <2> QED
    BY <2>1 DEF RInv, VP!IInv, VP!TypeOK
<1>9. S # NoReport => S \in Report
  BY <1>7 DEF RInv, ReportsOK
<1>10. /\ S.spec = R.spec
       /\ S.left = rest
       /\ S.migration = m
       /\ S.options = options
       /\ S.calm = R.calm
  BY <1>2, <1>3, <1>6 DEF Report
<1>11. /\ DOMAIN options = DOMAIN old \union {strategy}
       /\ \A s \in DOMAIN options : options[s] = IF s = strategy THEN a ELSE old[s]
  BY <1>6
<1>12. Foretold(R, q) /\ (R.calm => AllUndisturbed)
  BY <1>2, <1>3 DEF CalmInv, Calm
<1>13. a # NoBackend => strategy \in ImplementedStrategies
  BY <1>2, <1>4 DEF Assessment
<1>14. DOMAIN options \union {rest[i] : i \in DOMAIN rest} \in {{R.spec.strategy}, Strategies}
  <2>1. DOMAIN old \union {R.left[i] : i \in DOMAIN R.left} \in {{R.spec.strategy}, Strategies}
    BY <1>4, <1>12 DEF Foretold
  <2>2. DOMAIN options \union {rest[i] : i \in DOMAIN rest} =
          DOMAIN old \union {R.left[i] : i \in DOMAIN R.left}
    BY <1>5, <1>11
  <2> QED
    BY <2>1, <2>2
<1>15. \A s \in DOMAIN options : options[s] # NoBackend => s \in ImplementedStrategies
  BY <1>4, <1>11, <1>12, <1>13 DEF Foretold
<1>16. ASSUME R.calm
       PROVE  /\ next # Idle => VP!Undisturbed(next)
              /\ VP!Undisturbed(m)
              /\ rest # <<>> => next # Idle
  <2>1. VP!Undisturbed(m)
    BY <1>2, <1>3, <1>12, <1>16 DEF Foretold
  <2>2. CASE rest # <<>>
    <3>1. PICK t \in Strategies : t = Head(rest)
      BY <1>5, <2>2
    <3>2. next = StartedAnew(m, t)
      BY <1>6, <2>2, <3>1
    <3> QED
      BY <1>3, <2>1, <3>1, <3>2, StartedAnewUndisturbed, RestartedOK
  <2>3. CASE rest = <<>>
    BY <1>6, <2>1, <2>3
  <2> QED
    BY <2>2, <2>3
<1>17. ASSUME R.calm, NEW s \in DOMAIN options, NEW p, p = StartedAnew(m, s)
       PROVE  IF options[s] # NoBackend THEN options[s] \in VP!Fate(p)
              ELSE s \in ImplementedStrategies => VP!Blocked(p)
  <2>1. CASE s = strategy
    BY <1>1, <1>2, <1>4, <1>11, <1>17, <2>1, AssessmentIsFate
  <2>2. CASE s # strategy
    BY <1>2, <1>4, <1>11, <1>12, <1>17, <2>2 DEF Foretold
  <2> QED
    BY <2>1, <2>2
<1>18. Foretold(S, next)
  <2>1. DOMAIN S.options \union {S.left[i] : i \in DOMAIN S.left} \in {{S.spec.strategy}, Strategies}
    BY <1>10, <1>14
  <2>2. \A s \in DOMAIN S.options : S.options[s] # NoBackend => s \in ImplementedStrategies
    BY <1>10, <1>15
  <2>3. S.migration # Idle
    BY <1>3, <1>10
  <2>4. ASSUME S.calm
        PROVE  /\ next # Idle => VP!Undisturbed(next)
               /\ VP!Undisturbed(S.migration)
               /\ S.left # <<>> => next # Idle
    BY <1>10, <1>16, <2>4
  <2>5. ASSUME S.calm, NEW s \in DOMAIN S.options, NEW p, p = StartedAnew(S.migration, s)
        PROVE  IF S.options[s] # NoBackend THEN S.options[s] \in VP!Fate(p)
               ELSE s \in ImplementedStrategies => VP!Blocked(p)
    BY <1>10, <1>17, <2>5
  <2> QED
    BY <2>1, <2>2, <2>3, <2>4, <2>5 DEF Foretold
<1> QED
  BY <1>1, <1>7, <1>8, <1>9, <1>10, <1>12, <1>18, OneForetells

(* Fates are the same on both sides.                                        *)
LEMMA SameFates ==
    ASSUME NEW q
    PROVE  /\ VP!Fate(q) = Fate(q)
           /\ VP!Blocked(q) <=> Blocked(q)
           /\ VP!Current(q) <=> Current(q)
<1>1. ASSUME NEW c PROVE VP!Passes(q, c) <=> Passes(q, c)
  <2>1. /\ VP!TransfersMaterial(q.spec.strategy) <=> TransfersMaterial(q.spec.strategy)
        /\ VP!KeepsLineage(c, q.last) <=> KeepsLineage(c, q.last)
    BY DEF VP!TransfersMaterial, TransfersMaterial, VP!KeepsLineage, KeepsLineage
  <2>2. VP!SourceFeasible(q.spec.strategy, q.source, q.last) <=> SourceFeasible(q.spec.strategy, q.source, q.last)
    BY DEF VP!SourceFeasible, SourceFeasible, VP!Emit, Emit, VP!NoChannels, NoChannels, VP!Allow, Allow,
           VP!Closed, Closed, VP!PermitsPlaintextKeys, PermitsPlaintextKeys
  <2> QED
    BY <2>1, <2>2 DEF VP!Passes, Passes
<1>2. ASSUME NEW c, NEW n PROVE VP!Found(q, c, n) = Found(q, c, n)
  <2>1. VP!MatchPinned(registry, n, c, q.last.template) = MatchPinned(registry, n, c, q.last.template)
    BY DEF VP!MatchPinned, MatchPinned, VP!Registered, Registered, VP!Eligible, Eligible,
           VP!Advertises, Advertises, VP!Meets, Meets
  <2>2. ASSUME NEW b
        PROVE  VP!TargetFeasible(q.spec.strategy, q.source, b, q.last)
                  <=> TargetFeasible(q.spec.strategy, q.source, b, q.last)
    <3>1. \A x, t : VP!Emit(x, t) = Emit(x, t) /\ VP!Accept(x, t) = Accept(x, t)
      BY DEF VP!Emit, Emit, VP!Accept, Accept, VP!NoChannels, NoChannels, VP!Allow, Allow,
             VP!Closed, Closed, VP!PermitsPlaintextKeys, PermitsPlaintextKeys
    <3> QED
      BY <3>1 DEF VP!TargetFeasible, TargetFeasible
  <2> QED
    BY <2>1, <2>2 DEF VP!Found, Found
<1>3. VP!Wanted(q) = Wanted(q) /\ \A c, i : VP!FoundAt(q, c, i) = FoundAt(q, c, i)
  BY <1>2 DEF VP!Wanted, Wanted, VP!FoundAt, FoundAt
<1>4. ASSUME NEW c, NEW b PROVE VP!Leads(q, c, b) <=> Leads(q, c, b)
  <2>1. \A i, j : VP!RanksBefore(registry, c, q.last.template, i, j) <=> RanksBefore(registry, c, q.last.template, i, j)
    BY DEF VP!RanksBefore, RanksBefore, VP!RankGroup, RankGroup, VP!Preferred, Preferred,
           VP!Eligible, Eligible, VP!Advertises, Advertises, VP!Meets, Meets
  <2> QED
    BY <1>2, <1>3, <2>1 DEF VP!Leads, Leads
<1>5. \A c : VP!Hopeless(q, c) <=> Hopeless(q, c)
  BY <1>2, <1>3 DEF VP!Hopeless, Hopeless
<1>6. /\ VP!Consulted(q) = Consulted(q)
      /\ \A d : VP!Custody(q, d) = Custody(q, d)
      /\ \A d, op, t : VP!Permits(d, op, t) <=> Permits(d, op, t)
  BY DEF VP!Consulted, Consulted, VP!Custody, Custody, VP!Merge, Merge, VP!NothingRequired,
         NothingRequired, VP!Permits, Permits
<1>7. VP!Current(q) <=> Current(q)
  BY DEF VP!Current, Current, VP!Registered, Registered, VP!Loading, Loading
<1>8. VP!Fate(q) = Fate(q)
  BY <1>1, <1>4, <1>6 DEF VP!Fate, Fate
<1>9. VP!Blocked(q) <=> Blocked(q)
  BY <1>1, <1>5, <1>6 DEF VP!Blocked, Blocked
<1> QED
  BY <1>7, <1>8, <1>9

LEMMA CalmInitOK == ReportInit => CalmInv
<1> SUFFICES ASSUME ReportInit PROVE CalmInv
  OBVIOUS
<1>1. \A r \in Requests : ~Active(r)
  BY DEF ReportInit, Init, Active
<1>2. \A v \in Validators : report[v] = NoReport
  BY DEF ReportInit
<1> QED
  BY <1>1, <1>2 DEF CalmInv, StrategiesOK, AllUndisturbed, Calm

LEMMA CalmStep ==
    ASSUME RInv, CalmInv, [ReportNext]_reportVars
    PROVE  CalmInv'
<1>1. [Next]_vars /\ RInv'
  BY ReportNextIsNext, ReportNextOK
<1>2. ASSUME NEW v \in Validators, NEW s \in Probes,
             BeginReport(v, s, MigrationStrategies) \/ BeginReport(v, s, <<s.strategy>>)
      PROVE  CalmInv'
  BY <1>1, <1>2, BeginReportForetells
<1>3. ASSUME NEW v \in Validators, ReportStep(v)
      PROVE  CalmInv'
  BY <1>1, <1>3, LoadMigrationForetells, AssessStrategyForetells, ConcludeForetells DEF ReportStep
<1>4. ASSUME NEW v \in Validators, FailReport(v) \/ DropReport(v)
      PROVE  CalmInv'
  BY <1>1, <1>4, EndForetells
<1>5. ASSUME NEW r \in Requests, RequestStep(r)
      PROVE  CalmInv'
  BY <1>1, <1>5, OthersForetell DEF RequestStep
<1>6. CASE Beside
  BY <1>1, <1>6, OthersForetell DEF Beside, V!PutPolicy
<1>7. CASE UNCHANGED reportVars
  <2>1. UNCHANGED <<keys, registry, policies>> /\ UNCHANGED <<probe, report>>
    BY <1>7 DEF reportVars, vars
  <2>2. StrategiesOK'
    BY <1>1, StrategiesStep DEF RInv, CalmInv
  <2>3. Calm' => AllUndisturbed'
    BY <1>1, <2>1, UndisturbedStep DEF RInv, CalmInv, Calm
  <2>4. ASSUME NEW v \in Validators, report[v] # NoReport
        PROVE  Foretold(report[v], probe[v])'
    <3>1. PICK R, q : R = report[v] /\ q = probe[v]
      OBVIOUS
    <3>2. R \in Report /\ Foretold(R, q)
      BY <2>4, <3>1 DEF RInv, ReportsOK, CalmInv
    <3>3. PICK c \in BOOLEAN : c = R.calm
      BY <3>2 DEF Report
    <3>4. Foretold(R, q)'
      BY <2>1, <3>2, <3>3, StoreKeepsForetold
    <3> QED
      BY <2>1, <3>1, <3>4
  <2> QED
    BY <2>1, <2>2, <2>3, <2>4 DEF CalmInv
<1> QED
  BY <1>2, <1>3, <1>4, <1>5, <1>6, <1>7 DEF ReportNext

LEMMA ReportCalm == ReportSpec => [](RInv /\ CalmInv)
<1>1. ReportInit => RInv /\ CalmInv
  BY ReportInitOK, CalmInitOK
<1>2. RInv /\ CalmInv /\ [ReportNext]_reportVars => RInv' /\ CalmInv'
  BY ReportNextOK, CalmStep
<1> QED
  BY <1>1, <1>2, PTL DEF ReportSpec

(* A request that is to do what a calm report assessed has the fate it      *)
(* foretells.                                                               *)
LEMMA RequestForetold ==
    ASSUME RInv, CalmInv, NEW v \in Validators, NEW r \in Requests,
           NEW q, q = req[r], NEW R, R = report[v], Reported(v), R.calm, Active(r),
           [q.spec EXCEPT !.strategy = R.spec.strategy] = R.spec,
           q.key \in {NoKeyId, R.migration.key},
           q.spec.strategy \in DOMAIN R.options
    PROVE  /\ q.spec.op = "migrate"
           /\ Undisturbed(q)
           /\ \E k \in KeyIds : keys[k].status = "live" /\ keys[k].name = q.spec.name
           /\ q.pc \notin Loading =>
                IF R.options[q.spec.strategy] # NoBackend
                THEN Fate(q) = {R.options[q.spec.strategy]}
                ELSE Fate(q) = {} /\ Blocked(q)
<1>1. /\ q \in Request
      /\ q.spec \in RequestSpec
      /\ StrategyImplemented(q.spec)
  BY OrchestratorAssumption DEF RInv, IInv, TypeOK, Active, Request, CalmInv, StrategiesOK
<1>2. PICK m, t, p : m = R.migration /\ t = q.spec.strategy /\ p = StartedAnew(m, t)
  OBVIOUS
<1>3. /\ R \in Report
      /\ R # NoReport
      /\ m # Idle
      /\ Restartable(m)
      /\ m.spec = R.spec
      /\ R.spec \in RequestSpec
      /\ R.spec.op = "migrate"
  <2>1. R \in Report /\ R # NoReport
    BY DEF Reported, RInv, ReportsOK
  <2>2. m # Idle /\ Restartable(m) /\ m.spec = R.spec
    BY <1>2, <2>1 DEF Reported, RInv, ReportsOK, Assessing
  <2> QED
    BY <2>1, <2>2, ReportAssumption DEF Report
<1>4. /\ q.spec.op = "migrate"
      /\ q.spec.name = m.spec.name
      /\ t \in Strategies
      /\ q.spec = [m.spec EXCEPT !.strategy = t]
      /\ t \in ImplementedStrategies
  <2>1. q.spec.op = R.spec.op /\ q.spec.name = R.spec.name
    BY <1>1, <1>3 DEF RequestSpec
  <2>2. q.spec = [R.spec EXCEPT !.strategy = q.spec.strategy]
    BY <1>1, <1>3 DEF RequestSpec
  <2> QED
    BY <1>1, <1>2, <1>3, <2>1, <2>2 DEF RequestSpec, StrategyImplemented
<1>5. Undisturbed(q)
  BY <1>3, <1>4 DEF CalmInv, Calm, AllUndisturbed
<1>6. PICK a : Foretold(R, a)
  BY <1>3 DEF CalmInv
<1>7. VP!Undisturbed(m)
  BY <1>2, <1>3, <1>6 DEF Foretold
<1>8. Current(m) /\ m.pc = "requirements"
  BY <1>3, <1>7, SameFates DEF VP!Undisturbed, Restartable
<1>9. \E k \in KeyIds : keys[k].status = "live" /\ keys[k].name = q.spec.name
  BY <1>4, <1>8 DEF Current
<1>10. IF R.options[t] # NoBackend THEN R.options[t] \in Fate(p) ELSE Blocked(p)
  BY <1>2, <1>4, <1>6, SameFates DEF Foretold
<1>11. ASSUME q.pc \notin Loading
       PROVE  Alike(q, p)
  <2>1. Current(p) /\ p.pc = "requirements" /\ p.spec = q.spec /\ p.key = m.key
    <3>1. p.pc = "requirements" /\ p.spec = q.spec /\ p.key = m.key
      BY <1>2, <1>3, <1>4, RestartedOK
    <3>2. VP!Undisturbed(p)
      BY <1>2, <1>3, <1>4, <1>7, StartedAnewUndisturbed
    <3>3. VP!Current(p)
      BY <3>2 DEF VP!Undisturbed
    <3> QED
      BY <3>1, <3>3, SameFates
  <2>2. Current(q) /\ q.key \in KeyIds
    BY <1>5, <1>11 DEF Undisturbed, Current, Loading
  <2>3. q.key = p.key
    BY <1>2, <2>1, <2>2, OrchestratorAssumption
  <2>4. Distinct(registry)
    BY DEF RInv, IInv, TypeOK
  <2> QED
    BY <1>11, <2>1, <2>2, <2>3, <2>4, SameKeySameFate DEF Loading
<1>12. ASSUME q.pc \notin Loading
       PROVE  IF R.options[t] # NoBackend THEN Fate(q) = {R.options[t]} ELSE Fate(q) = {} /\ Blocked(q)
  <2>1. Fate(q) = Fate(p) /\ (Blocked(q) <=> Blocked(p))
    BY <1>11, <1>12, AlikeFates
  <2>2. /\ \A x, y \in Fate(q) : x = y
        /\ Blocked(q) => Fate(q) = {}
    BY OneFate DEF RInv, IInv, TypeOK
  <2> QED
    BY <1>10, <2>1, <2>2
<1> QED
  BY <1>2, <1>4, <1>5, <1>9, <1>12

LEMMA RequestFollowsReport ==
    ASSUME RInv, CalmInv, [ReportNext]_reportVars, NEW v \in Validators, NEW r \in Requests,
           NEW q, q = req[r], NEW R, R = report[v], Reported(v), R.calm, Active(r),
           [q.spec EXCEPT !.strategy = R.spec.strategy] = R.spec,
           q.key \in {NoKeyId, R.migration.key},
           q.spec.strategy \in DOMAIN R.options,
           q.pc # "persist"
    PROVE  /\ Step(r) /\ ~Active(r)' => R.options[q.spec.strategy] = NoBackend
           /\ At(r, "persist")' => R.options[q.spec.strategy] = req'[r].target
<1>1. PICK foretold : foretold = R.options[q.spec.strategy]
  OBVIOUS
<1>2. /\ q.spec.op = "migrate"
      /\ Undisturbed(q)
      /\ \E k \in KeyIds : keys[k].status = "live" /\ keys[k].name = q.spec.name
      /\ q.pc \notin Loading =>
           IF foretold # NoBackend THEN Fate(q) = {foretold} ELSE Fate(q) = {} /\ Blocked(q)
  BY <1>1, RequestForetold
<1>3. /\ req \in [Requests -> Request \union {Idle}]
      /\ Distinct(registry)
      /\ registry \in Seq(Backends)
      /\ IInv
      /\ [Next]_vars
  BY ReportNextIsNext DEF RInv, IInv, TypeOK
<1>4. ASSUME Step(r)
      PROVE  \/ Advances(r, q)
             \/ Refuse(r) /\ q.pc \notin Loading /\ Blocked(q)
  BY <1>2, <1>3, <1>4, MigrationAdvances DEF Loading, Checking
<1>5. ASSUME Advances(r, q)
      PROVE  /\ Active(r)'
             /\ At(r, "persist")' => req'[r].target \in Fate(q) /\ q.pc \notin Loading
  <2>1. PICK next : /\ Proceed(r, next)
                    /\ Follows(q, next)
                    /\ Undisturbed(next)
                    /\ q.pc \notin Loading => Alike(q, next)
    BY <1>5 DEF Advances
  <2>2. req'[r] = next
    BY <1>3, <2>1 DEF Proceed
  <2>3. next.pc \in Loading \union Checking /\ (next.pc = "persist" => q.pc \notin Loading)
    BY <2>1 DEF Follows, Loading, Checking
  <2>4. next # Idle
    BY <2>3 DEF Loading, Checking, Idle
  <2>5. ASSUME next.pc = "persist"
        PROVE  next.target \in Fate(q)
    <3>1. next.target \in Backends
      BY <1>3, <2>1, <2>5, OneTarget DEF Undisturbed
    <3>2. next.target \in Fate(next)
      BY <2>1, <2>5, <3>1, ArrivesAtFate
    <3> QED
      BY <2>1, <2>3, <2>5, <3>2, AlikeFates
  <2> QED
    BY <2>2, <2>3, <2>4, <2>5 DEF Active, At
<1>6. ASSUME Step(r), ~Active(r)'
      PROVE  foretold = NoBackend
  <2>1. ~Advances(r, q)
    BY <1>5, <1>6
  <2>2. q.pc \notin Loading /\ Blocked(q)
    BY <1>4, <1>6, <2>1
  <2>3. Fate(q) = {}
    BY <1>3, <2>2, OneFate
  <2> QED
    BY <1>2, <2>2, <2>3
<1>7. ASSUME At(r, "persist")'
      PROVE  foretold = req'[r].target
  <2>1. req'[r] # q /\ req'[r] # Idle
    BY <1>7 DEF At, Active
  <2>2. Step(r)
    <3>1. ASSUME NEW p \in Requests, NEW s \in Specs, Begin(p, s)
          PROVE  FALSE
      BY <1>3, <2>1, <3>1 DEF Begin
    <3>2. ASSUME NEW p \in Requests, DependencyError(p)
          PROVE  FALSE
      BY <1>3, <2>1, <3>2 DEF DependencyError, Refuse, End
    <3>3. ASSUME NEW p \in Requests, Step(p), p # r
          PROVE  FALSE
      <4>1. PICK next : req' = [req EXCEPT ![p] = next]
        BY <3>3, StepAlone DEF StepsAlone
      <4> QED
        BY <1>3, <2>1, <3>3, <4>1
    <3>4. ~UNCHANGED req
      BY <2>1
    <3> QED
      BY <1>3, <3>1, <3>2, <3>3, <3>4
      DEF Next, Environment, PutPolicy, RegisterBackend, RemoveBackend, vars
  <2>3. Advances(r, q)
    BY <1>3, <1>4, <2>1, <2>2 DEF Refuse, End
  <2>4. req'[r].target \in Fate(q) /\ q.pc \notin Loading
    BY <1>5, <1>7, <2>3
  <2> QED
    BY <1>2, <2>4
<1> QED
  BY <1>1, <1>6, <1>7

(* Whatever may be moved may be rekeyed.                                    *)
LEMMA RekeyIsWeaker ==
    ASSUME NEW m, Restartable(m), NEW p, p = StartedAnew(m, "PROVIDER_SWITCH"),
           NEW q, q = StartedAnew(m, "REKEY_AND_ARCHIVE"), NEW b \in VP!Fate(p),
           VP!Distinct(registry), registry \in Seq(Backends)
    PROVE  ~VP!Blocked(q)
<1>1. m \in VP!Request /\ m.spec \in RequestSpec
  BY ReportAssumption DEF Restartable, VP!Request
<1>2. /\ q.spec.strategy = "REKEY_AND_ARCHIVE"
      /\ p.spec.strategy = "PROVIDER_SWITCH"
      /\ q.spec.instance = p.spec.instance
      /\ q.spec.type = p.spec.type
      /\ q.spec.op = p.spec.op
      /\ q.spec.requires = p.spec.requires
      /\ q.policy = p.policy
      /\ q.last = p.last
      /\ q.source = p.source
  <2>1. ASSUME NEW t, NEW n, n = StartedAnew(m, t)
        PROVE  /\ n.spec.strategy = t
               /\ n.spec.instance = m.spec.instance
               /\ n.spec.type = m.spec.type
               /\ n.spec.op = m.spec.op
               /\ n.spec.requires = m.spec.requires
               /\ n.policy = m.policy
               /\ n.last = m.last
               /\ n.source = m.source
    <3>1. PICK s : s = [m.spec EXCEPT !.strategy = t]
      OBVIOUS
    <3>2. n = [m EXCEPT !.spec = s]
      BY <2>1, <3>1 DEF StartedAnew
    <3>3. n.spec = s /\ n.policy = m.policy /\ n.last = m.last /\ n.source = m.source
      BY <1>1, <3>2 DEF VP!Request
    <3>4. /\ s.strategy = t
          /\ s.instance = m.spec.instance
          /\ s.type = m.spec.type
          /\ s.op = m.spec.op
          /\ s.requires = m.spec.requires
      BY <1>1, <3>1 DEF RequestSpec
    <3> QED
      BY <3>3, <3>4
  <2> QED
    BY <2>1
<1>3. PICK d \in VP!Consulted(p) :
         /\ VP!Passes(p, VP!Custody(p, d))
         /\ VP!Permits(d, "create_key", p.last.template)
         /\ VP!Leads(p, VP!Custody(p, d), b)
  BY DEF VP!Fate
<1>4. PICK c : c = VP!Custody(p, d)
  OBVIOUS
<1>5. VP!Custody(q, d) = c /\ d \in VP!Consulted(q)
  <2>1. VP!Custody(q, d) = VP!Custody(p, d)
    BY <1>2 DEF VP!Custody
  <2>2. VP!Consulted(q) = VP!Consulted(p)
    BY <1>2 DEF VP!Consulted
  <2> QED
    BY <1>3, <1>4, <2>1, <2>2
<1>6. VP!Passes(q, c)
  BY <1>2, <1>3, <1>4 DEF VP!Passes, VP!TransfersMaterial, VP!SourceFeasible
<1>7. \A n : VP!Found(p, c, n) \subseteq VP!Found(q, c, n)
  BY <1>2 DEF VP!Found, VP!TargetFeasible
<1>8. ~VP!Hopeless(q, c)
  <2>1. ~VP!Hopeless(p, c)
    BY <1>3, <1>4, ProbesAreSpecs, VP!OneTarget
  <2>2. VP!Wanted(q) = VP!Wanted(p)
    BY <1>2 DEF VP!Wanted
  <2> QED
    BY <1>2, <1>7, <2>1, <2>2 DEF VP!Hopeless, VP!FoundAt
<1> QED
  BY <1>2, <1>3, <1>5, <1>6, <1>8 DEF VP!Blocked

-----------------------------------------------------------------------------
(* The theorems. *)

(* Reports leave keys, requests, policies and registry as they are          *)
(* (ValidateMigration: "without side effects"): a run with them is, but for *)
(* them, a run of the key orchestrator.                                     *)
THEOREM ReportsOnlyRead == ReportSpec => Spec
<1>1. ReportInit => Init
  BY DEF ReportInit
<1> QED
  BY <1>1, ReportNextIsNext, PTL DEF ReportSpec, Spec

(* With any number of reports beside the requests, the versions of every    *)
(* key are soundly numbered and of sound lineage.                           *)
THEOREM LineageSoundBesideReports == ReportSpec => []LineageSound
  BY ReportsOnlyRead, LineageAlwaysSound, PTL

(* The inductive invariant holds in every reachable state.                  *)
THEOREM ReportInvariant == ReportSpec => []RInv
<1>1. ReportInit => RInv
  BY ReportInitOK
<1>2. RInv /\ [ReportNext]_reportVars => RInv'
  BY ReportNextOK
<1> QED
  BY <1>1, <1>2, PTL DEF ReportSpec

(* Reports, and the strategies under assessment, keep their types; a        *)
(* strategy is assessed under its own name.                                 *)
THEOREM ReportsTyped == ReportSpec => []ReportTypeOK
<1>1. RInv => ReportTypeOK
  <2> SUFFICES ASSUME RInv PROVE ReportTypeOK
    OBVIOUS
  <2>1. /\ TypeOK
        /\ probe \in [Validators -> VP!Request \union {Idle}]
        /\ seen \in [Validators -> SUBSET (PolicyNames \X (PolicyDocs \union {NoPolicy}))]
        /\ report \in [Validators -> Report \union {NoReport}]
    BY SameNames DEF RInv, IInv, VP!IInv, VP!TypeOK, ReportsOK
  <2>2. ASSUME NEW v \in Validators, V!Active(v)
        PROVE  probe[v].spec.strategy = Head(report[v].left)
    <3>1. PICK R, q : R = report[v] /\ q = probe[v]
      OBVIOUS
    <3>2. q # Idle
      BY <2>2, <3>1, SameNames DEF VP!Active
    <3>3. q.spec \in RequestSpec
      BY <3>1, <3>2, ActiveProbe, ReportAssumption
    <3>4. Assessing(R, q) /\ R \in Report \union {NoReport}
      BY <3>1 DEF RInv, ReportsOK
    <3>5. CASE R.migration = Idle
      BY <3>1, <3>2, <3>4, <3>5 DEF Assessing
    <3>6. CASE R.migration # Idle
      <4>1. q.spec = [R.spec EXCEPT !.strategy = Head(R.left)] /\ R.spec \in Probes
        BY <3>2, <3>4, <3>6 DEF Assessing, Report
      <4>2. R.spec \in RequestSpec
        BY <4>1, ReportAssumption
      <4> QED
        BY <3>1, <4>1, <4>2 DEF RequestSpec
    <3> QED
      BY <3>5, <3>6
  <2> QED
    BY <2>1, <2>2, SameNames DEF ReportTypeOK
<1> QED
  BY <1>1, ReportInvariant, PTL

(* A strategy that is called feasible was read, in one piece, under         *)
(* versions of the policy in force while it was assessed.                   *)
THEOREM FeasibleUnderPolicy == ReportSpec => []FeasibleUnderAPolicyInForce
<1>1. RInv => FeasibleUnderAPolicyInForce
  <2> SUFFICES ASSUME RInv PROVE FeasibleUnderAPolicyInForce
    OBVIOUS
  <2>1. VP!PlacedUnderAPolicyInForce
    BY ProbesAreSpecs, VP!PInvPlaces DEF RInv
  <2> QED
    BY <2>1
    DEF FeasibleUnderAPolicyInForce, V!PlacedUnderAPolicyInForce, VP!PlacedUnderAPolicyInForce,
        V!At, VP!At, V!Active, VP!Active, V!Idle, VP!Idle, V!Permits, VP!Permits, V!Meets, VP!Meets,
        V!Kept, VP!Kept, V!KeepsLineage, VP!KeepsLineage
<1> QED
  BY <1>1, ReportInvariant, PTL

(* While nothing changes, a request to migrate does what the report says of *)
(* its strategy, at every refusal and at every target chosen.               *)
THEOREM ReportPredicts == ReportSpec => ReportPredictsMigrateKey
<1>1. RInv /\ CalmInv /\ [ReportNext]_reportVars =>
        [\A v \in Validators, r \in Requests :
           LET q       == req[r]
               R       == report[v]
               foretold == R.options[q.spec.strategy]
           IN
           /\ Reported(v)
           /\ R.calm
           /\ Active(r)
           /\ [q.spec EXCEPT !.strategy = R.spec.strategy] = R.spec
           /\ q.key \in {NoKeyId, R.migration.key}
           /\ q.spec.strategy \in DOMAIN R.options
           /\ q.pc # "persist"
           => /\ Step(r) /\ ~Active(r)' => foretold = NoBackend
              /\ At(r, "persist")' => foretold = req'[r].target]_reportVars
  BY RequestFollowsReport
<1> QED
  BY <1>1, ReportCalm, PTL DEF ReportSpec, ReportPredictsMigrateKey

(* Of a calm report that covers all strategies: what may be moved may be    *)
(* rekeyed, and only of a target nothing implemented can reach is no        *)
(* strategy recommended.                                                    *)
THEOREM RekeyRecommended == ReportSpec => []RekeyIsTheWeakerDemand
<1>1. RInv /\ CalmInv => RekeyIsTheWeakerDemand
  <2> SUFFICES ASSUME RInv, CalmInv, NEW v \in Validators, NEW R, R = report[v],
                      Reported(v), R.calm, Cardinality(DOMAIN R.options) > 1
               PROVE  /\ R.options["PROVIDER_SWITCH"] # NoBackend => R.options["REKEY_AND_ARCHIVE"] # NoBackend
                      /\ RecommendMigration(R.options) = {} =>
                           \A s \in DOMAIN R.options : R.options[s] = NoBackend
    BY DEF RekeyIsTheWeakerDemand
  <2>1. /\ R \in Report
        /\ R # NoReport
        /\ R.left = <<>>
        /\ R.migration # Idle
        /\ Restartable(R.migration)
    BY DEF Reported, RInv, ReportsOK, Assessing
  <2>2. PICK q : Foretold(R, q)
    BY <2>1 DEF CalmInv
  <2>3. DOMAIN R.options = Strategies
    <3>1. DOMAIN R.options \union {R.left[i] : i \in DOMAIN R.left} = DOMAIN R.options
      BY <2>1
    <3>2. CASE DOMAIN R.options = {R.spec.strategy}
      <4>1. Cardinality({R.spec.strategy}) = 1
        BY FS_Singleton
      <4> QED
        BY <3>2, <4>1
    <3> QED
      BY <2>2, <3>1, <3>2 DEF Foretold
  <2>4. \A s \in DOMAIN R.options : R.options[s] # NoBackend => s \in ImplementedStrategies
    BY <2>2 DEF Foretold
  <2>5. R.options["PROVIDER_SWITCH"] # NoBackend => R.options["REKEY_AND_ARCHIVE"] # NoBackend
    <3> SUFFICES ASSUME R.options["PROVIDER_SWITCH"] # NoBackend, R.options["REKEY_AND_ARCHIVE"] = NoBackend
                 PROVE  FALSE
      OBVIOUS
    <3>1. PICK p, n : /\ p = StartedAnew(R.migration, "PROVIDER_SWITCH")
                      /\ n = StartedAnew(R.migration, "REKEY_AND_ARCHIVE")
      OBVIOUS
    <3>2. R.options["PROVIDER_SWITCH"] \in VP!Fate(p)
      BY <2>2, <2>3, <3>1 DEF Foretold, Strategies
    <3>3. VP!Blocked(n)
      BY <2>2, <2>3, <3>1 DEF Foretold, Strategies, ImplementedStrategies
    <3>4. VP!Distinct(registry) /\ registry \in Seq(Backends)
      BY DEF RInv, VP!IInv, VP!TypeOK
    <3> QED
      BY <2>1, <3>1, <3>2, <3>3, <3>4, RekeyIsWeaker
  <2>6. ASSUME RecommendMigration(R.options) = {}, NEW s \in DOMAIN R.options, R.options[s] # NoBackend
        PROVE  FALSE
    BY <2>3, <2>4, <2>6 DEF RecommendMigration, Strategies, ImplementedStrategies
  <2> QED
    BY <2>5, <2>6
<1> QED
  BY <1>1, ReportCalm, PTL

=============================================================================
