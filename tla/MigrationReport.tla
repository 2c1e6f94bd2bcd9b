--------------------------- MODULE MigrationReport ---------------------------
(***************************************************************************)
(* ValidateMigration (service/key_migrate_validate.go): a report on which  *)
(* strategies can migrate a key, made beside the requests of               *)
(* KeyOrchestrator.                                                        *)
(*                                                                         *)
(* It loads the key once and then asks, strategy by strategy, what         *)
(* MigrateKey would decide, by the same code: the checks of a strategy are *)
(* the steps of KeyOrchestrator's migrate requests (V below), in slots of  *)
(* their own and never as far as the write.                                *)
(***************************************************************************)
EXTENDS KeyOrchestrator

CONSTANTS
    Validators,    \* slots for concurrent reports
    Probes         \* the migrations asked about, a subset of RequestSpec

VARIABLES
    probe,         \* the strategy being assessed, as a migrate request
    seen,          \* history: <<name, document>> pairs stored during it
    report

reportVars == <<vars, probe, seen, report>>

ASSUME ReportAssumption ==
    \A s \in Probes :
        /\ s \in RequestSpec
        /\ s.op = "migrate"
        /\ WellFormed(s)
        /\ \A t \in Strategies : [s EXCEPT !.strategy = t] \in Probes

V == INSTANCE KeyOrchestrator
        WITH Requests <- Validators, Specs <- Probes, req <- probe, inForce <- seen

(* migrationStrategies: the order of the report. *)
MigrationStrategies ==
    <<"PROVIDER_SWITCH", "EXTRACT_AND_IMPORT", "WRAPPED_TRANSFER",
      "REKEY_AND_ARCHIVE", "REKEY_AND_DESTROY">>

NoReport == [spec |-> "none"]

(* migration is what loadMigration returned; options are the assessments:   *)
(* the target of a feasible strategy, NoBackend for the others.  calm is    *)
(* history: nothing but reports happened since this one began.              *)
Report ==
    [spec      : Probes,
     left      : Seq(Strategies),
     migration : V!Request \union {Idle},
     options   : UNION {[S -> Backends \union {NoBackend}] : S \in SUBSET Strategies},
     calm      : BOOLEAN]

Reporting(v) == report[v] # NoReport /\ report[v].left # <<>>
Reported(v)  == report[v] # NoReport /\ report[v].left = <<>>
Loaded(v)    == Reporting(v) /\ report[v].migration # Idle

RequestsWait == UNCHANGED <<req, inForce>>

-----------------------------------------------------------------------------

(* The strategy the request names, or all of them when it names none. *)
BeginReport(v, s, strategies) ==
    /\ report[v] = NoReport
    /\ Head(strategies) = s.strategy
    /\ V!Begin(v, s)
    /\ report' = [report EXCEPT ![v] =
           [spec |-> s, left |-> strategies, migration |-> Idle, options |-> <<>>,
            calm |-> \A r \in Requests : ~Active(r)]]
    /\ RequestsWait

(* Without an answer for the strategy the whole call ends in an error.      *)
FailReport(v) ==
    /\ V!Refuse(v)
    /\ report' = [report EXCEPT ![v] = NoReport]
    /\ RequestsWait

LoadMigration(v) ==
    /\ V!GetKey(v) \/ V!GetVersion(v) \/ V!GetSource(v)
    /\ report' = [report EXCEPT ![v] =
           IF probe'[v] = Idle THEN NoReport
           ELSE IF probe'[v].pc = "requirements" THEN [@ EXCEPT !.migration = probe'[v]]
           ELSE @]
    /\ RequestsWait

(* checkMigration.  A precondition, a provider or a policy that stands in   *)
(* the way is a refusal and leaves the probe idle; a policy that is missing *)
(* is an error.  The first precondition, that the target is not the key's   *)
(* own instance, is checked before the policy is read.                      *)
AssessStrategy(v) ==
    LET q       == probe[v]
        missing == /\ \/ V!At(v, "requirements") /\ q.spec.instance # q.last.provider
                      \/ V!At(v, "validate")
                   /\ V!Consulted(q) = {}
    IN
    /\ Loaded(v)
    /\ \/ /\ ~missing
          /\ \/ V!ReadRequirements(v) \/ V!MatchProvider(v)
             \/ V!ListTargets(v) \/ V!TryTarget(v) \/ V!ValidateOp(v)
          /\ UNCHANGED report
          /\ RequestsWait
       \/ missing /\ FailReport(v)

Decided(v) == Loaded(v) /\ (~V!Active(v) \/ V!At(v, "persist"))

(* What the assessment says: the target if the checks passed and the        *)
(* strategy is implemented.                                                 *)
Assessment(v) ==
    IF V!Active(v) /\ Head(report[v].left) \in ImplementedStrategies
    THEN probe[v].target ELSE NoBackend

RestartedSame(v, next) == report[v].migration    \* faulty: the strategy stays the first

RestartedUnread(v, next) ==    \* faulty: keeps the requirements read before
    IF V!Active(v)
    THEN [report[v].migration EXCEPT !.spec.strategy = next,
                                     !.custody  = probe[v].custody,
                                     !.template = probe[v].template,
                                     !.pc       = IF report[v].migration.spec.type = NoType THEN "match" ELSE "list"]
    ELSE [report[v].migration EXCEPT !.spec.strategy = next]

(* The next strategy starts from the migration that was loaded.             *)
Restarted(v, next) == [report[v].migration EXCEPT !.spec.strategy = next]

Conclude(v) ==
    LET strategy == Head(report[v].left)
        assessed == DOMAIN report[v].options
        rest     == Tail(report[v].left)
        more     == rest # <<>>
    IN
    /\ Decided(v)
    /\ report' = [report EXCEPT
           ![v].left    = rest,
           ![v].options = [s \in assessed \union {strategy} |->
                             IF s = strategy THEN Assessment(v) ELSE @[s]]]
    /\ probe' = [probe EXCEPT ![v] = IF more THEN Restarted(v, Head(rest)) ELSE Idle]
    /\ seen' = [seen EXCEPT ![v] =
           IF more THEN {<<p, policies[p]>> : p \in PolicyNames} ELSE {}]
    /\ UNCHANGED vars

(* recommendMigration: the strategy to prefer, or none. *)
RecommendMigration(options) ==
    LET feasible(s) == s \in DOMAIN options /\ options[s] # NoBackend IN
    IF feasible("PROVIDER_SWITCH") THEN {"PROVIDER_SWITCH"}
    ELSE {s \in {"REKEY_AND_ARCHIVE"} : feasible(s)}

(* The caller is done with the report. *)
DropReport(v) ==
    /\ Reported(v)
    /\ report' = [report EXCEPT ![v] = NoReport]
    /\ UNCHANGED <<vars, probe, seen>>

-----------------------------------------------------------------------------

ReportInit ==
    /\ Init
    /\ probe = [v \in Validators |-> Idle]
    /\ seen = [v \in Validators |-> {}]
    /\ report = [v \in Validators |-> NoReport]

ReportStep(v) == LoadMigration(v) \/ AssessStrategy(v) \/ Conclude(v)

(* Reports write nothing: all that is ever changed is changed beside them.  *)
Stirred ==
    report' = [v \in Validators |->
                 IF report[v] = NoReport THEN NoReport
                 ELSE [report[v] EXCEPT !.calm = @ /\ UNCHANGED <<keys, registry, policies>>]]

RequestStep(r) ==
    /\ Step(r)
    /\ Stirred
    /\ UNCHANGED <<probe, seen>>

Beside ==
    \/ /\ \E r \in Requests :
            \/ DependencyError(r)
            \/ \E s \in Specs : StrategyImplemented(s) /\ Begin(r, s)
       /\ Stirred
       /\ UNCHANGED <<probe, seen>>
    \/ /\ \E b \in Reconfigurable : RegisterBackend(b) \/ RemoveBackend(b)
       /\ Stirred
       /\ UNCHANGED <<probe, seen>>
    \/ \E p \in PolicyNames, d \in PolicyEdits :
         /\ PutPolicy(p, d)
         /\ V!PutPolicy(p, d)
         /\ Stirred

ReportNext ==
    \/ \E v \in Validators :
         \/ \E s \in Probes :
              \/ BeginReport(v, s, MigrationStrategies)
              \/ BeginReport(v, s, <<s.strategy>>)
         \/ ReportStep(v)
         \/ Reporting(v) /\ FailReport(v)
         \/ DropReport(v)
    \/ \E r \in Requests : RequestStep(r)
    \/ Beside

ReportSpec == ReportInit /\ [][ReportNext]_reportVars

(* Reports and requests run in their callers' goroutines. *)
FairReportSpec ==
    /\ ReportSpec
    /\ \A v \in Validators : WF_reportVars(ReportStep(v))
    /\ \A r \in Requests : WF_reportVars(RequestStep(r))

-----------------------------------------------------------------------------
(* Properties *)

(* Types; what is being assessed is the first of the strategies left.       *)
ReportTypeOK ==
    /\ TypeOK
    /\ probe \in [Validators -> V!Request \union {Idle}]
    /\ seen \in [Validators -> SUBSET (PolicyNames \X (PolicyDocs \union {NoPolicy}))]
    /\ report \in [Validators -> Report \union {NoReport}]
    /\ \A v \in Validators : V!Active(v) => probe[v].spec.strategy = Head(report[v].left)

(* The report decides as MigrateKey does: while nothing changes, a request  *)
(* to migrate the same key to the same target is refused, or set on the     *)
(* way to the same instance, as the report's assessment of its strategy     *)
(* says (ValidateMigration: "applying every check MigrateKey applies before *)
(* its first side effect").  Of two keys of one name the request may load   *)
(* the other.                                                               *)
ReportPredictsMigrateKey ==
    [][\A v \in Validators, r \in Requests :
         LET q       == req[r]
             R       == report[v]
             foretold == R.options[q.spec.strategy]
         IN
         /\ Reported(v)
         /\ R.calm
         /\ Active(r)
         /\ [q.spec EXCEPT !.strategy = R.spec.strategy] = R.spec
         /\ q.key \in {NoKeyId, R.migration.key}
         /\ q.spec.strategy \in DOMAIN R.options
         /\ q.pc # "persist"
         => /\ Step(r) /\ ~Active(r)' => foretold = NoBackend
            /\ At(r, "persist")' => foretold = req'[r].target]_reportVars

(* A strategy is called feasible only if one and the same reading of it was *)
(* under versions of the policy in force while it was assessed, although    *)
(* the key was loaded once for all of them.                                 *)
FeasibleUnderAPolicyInForce == V!PlacedUnderAPolicyInForce

(* When nothing changes while the report is made, a strategy that moves     *)
(* the material is feasible only if rekeying is too, so the recommendation  *)
(* never says "the material cannot move" of a target that is refused for    *)
(* other reasons, and none is recommended only if none of the implemented   *)
(* strategies would be accepted (recommendMigration).                       *)
RekeyIsTheWeakerDemand ==
    \A v \in Validators :
        LET R == report[v] IN
        Reported(v) /\ R.calm /\ Cardinality(DOMAIN R.options) > 1 =>
            /\ R.options["PROVIDER_SWITCH"] # NoBackend => R.options["REKEY_AND_ARCHIVE"] # NoBackend
            /\ RecommendMigration(R.options) = {} =>
                 \A s \in DOMAIN R.options : R.options[s] = NoBackend

(* Every report is delivered or ends in an error, whatever else goes on.    *)
EveryReportReturns == \A v \in Validators : Reporting(v) ~> ~Reporting(v)

=============================================================================
