--------------------------- MODULE PolicyEnforcer ---------------------------
(***************************************************************************)
(* policy.Enforcer over a policy store: policies created, updated, deleted *)
(* and listed by concurrent administrators, and consulted by orchestrators *)
(* (policy/enforcer.go), under the rules of SimpleRulesEvaluator           *)
(* (policy/simple_evaluator.go, policy/rules.go).                          *)
(*                                                                         *)
(* Each call on the store is atomic; a method that makes several is as     *)
(* many steps.  To KeyOrchestrator all of this is PutPolicy.               *)
(***************************************************************************)
EXTENDS Integers, Sequences, FiniteSets

CONSTANTS
    Calls,               \* slots for concurrent calls
    Names,               \* policy names
    TemplateIds,         \* template ids a document may list, "" among them
    KnownOperations,     \* knownKeyOperations
    OtherOperations,     \* strings that are not
    Documents,           \* the rules documents administrators submit
    NoPolicy, NoName, Absent

MaxFIPS140Level == 4

(* A rules document, section by section.  Of the sections that are parsed   *)
(* but not evaluated it matters only whether there is one.                  *)
Document ==
    [parses     : BOOLEAN,               \* no syntax error or unknown field
     version    : {"", "1", "2"},
     templates  : Seq(TemplateIds),      \* allowed_templates; empty or absent
     operations : (SUBSET (KnownOperations \union OtherOperations)) \union {Absent},
     level      : Nat \union {Absent},   \* provider_requirements.min_fips_level
     others     : BOOLEAN]

ASSUME DocumentsAssumption ==
    /\ Documents \subseteq Document
    /\ NoPolicy \notin Document
    /\ Absent \notin Nat
    /\ KnownOperations \intersect OtherOperations = {}

VARIABLES
    store,    \* name -> document or NoPolicy
    call,     \* the state of each call
    seen      \* history: the stores there have been since a list began

vars == <<store, call, seen>>

-----------------------------------------------------------------------------
HasAnySections(d) ==
    d.templates # <<>> \/ d.operations # Absent \/ d.level # Absent \/ d.others

(* Rules.Validate, after a successful parse. *)
Valid(d) ==
    /\ d.parses
    /\ HasAnySections(d) => d.version # ""
    /\ d.version \in {"", "1"}
    /\ \A i \in DOMAIN d.templates : d.templates[i] # ""
    /\ d.operations # Absent => d.operations \subseteq KnownOperations
    /\ d.level # Absent => d.level <= MaxFIPS140Level

-----------------------------------------------------------------------------
(* Calls *)

Idle == [op |-> "none"]

Busy(c) == call[c] # Idle

At(c, pc) == Busy(c) /\ call[c].pc = pc

Moves(c, next) ==
    /\ call' = [call EXCEPT ![c] = next]
    /\ seen' = [e \in Calls |-> IF call'[e].op = "list"
                               THEN (IF Busy(e) THEN seen[e] ELSE {}) \union {store'}
                               ELSE {}]

Go(c, pc) == Moves(c, [call[c] EXCEPT !.pc = pc])

Return(c) == At(c, "done") /\ UNCHANGED store /\ Moves(c, Idle)

(* An error, a "not found" or a denial. *)
Fail(c) == UNCHANGED store /\ Moves(c, Idle)

Started(op, p, d, pc) ==
    [op |-> op, name |-> p, doc |-> d, pc |-> pc, names |-> {}, got |-> {}]

Unvalidated(c, p, d) ==    \* faulty: the document is not validated
    /\ ~Busy(c)
    /\ UNCHANGED store
    /\ \/ Moves(c, Started("create", p, d, "absent?"))
       \/ Moves(c, Started("update", p, d, "present?"))

(* CreatePolicy and UpdatePolicy refuse an invalid document at once. *)
BeginWrite(c, p, d) ==
    /\ ~Busy(c)
    /\ Valid(d)
    /\ UNCHANGED store
    /\ \/ Moves(c, Started("create", p, d, "absent?"))
       \/ Moves(c, Started("update", p, d, "present?"))

BeginList(c) ==
    /\ ~Busy(c)
    /\ UNCHANGED store
    /\ Moves(c, Started("list", NoName, NoPolicy, "names"))

(* CreatePolicy: "check for duplicate".  Only a successful read is a        *)
(* duplicate: a policy that is not there and a read that fails are alike ... *)
CheckAbsent(c) ==
    /\ At(c, "absent?")
    /\ \/ UNCHANGED store /\ Go(c, "put")
       \/ store[call[c].name] # NoPolicy /\ Fail(c)

(* ... UpdatePolicy: "verify policy exists before update" ... *)
CheckPresent(c) ==
    /\ At(c, "present?")
    /\ \/ store[call[c].name] # NoPolicy /\ UNCHANGED store /\ Go(c, "put")
       \/ store[call[c].name] = NoPolicy /\ Fail(c)

(* ... and then the write, which replaces whatever is there. *)
Put(c) ==
    /\ At(c, "put")
    /\ store' = [store EXCEPT ![call[c].name] = call[c].doc]
    /\ Go(c, IF call[c].op = "create" THEN "read" ELSE "done")

(* CreatePolicy returns what it reads back. *)
ReadBack(c) ==
    LET d == store[call[c].name] IN
    /\ At(c, "read")
    /\ \/ /\ d # NoPolicy
          /\ UNCHANGED store
          /\ Moves(c, [call[c] EXCEPT !.pc = "done", !.got = {<<call[c].name, d>>}])
       \/ d = NoPolicy /\ Fail(c)

(* One call on the store; of a policy that is not there, an error. *)
DeletePolicy(c, p) ==
    /\ ~Busy(c)
    /\ store[p] # NoPolicy
    /\ store' = [store EXCEPT ![p] = NoPolicy]
    /\ Moves(c, Idle)

(* ListPolicies: the names, in the store's order ... *)
ListNames(c) ==
    /\ At(c, "names")
    /\ UNCHANGED store
    /\ Moves(c, [call[c] EXCEPT !.pc = "fetch",
                                !.names = {p \in Names : store[p] # NoPolicy}])

FetchButLast(c) ==    \* faulty: stops one short
    /\ At(c, "fetch")
    /\ \/ \E p \in call[c].names :
            /\ Cardinality(call[c].names) > 1
            /\ \/ /\ store[p] # NoPolicy
                  /\ UNCHANGED store
                  /\ Moves(c, [call[c] EXCEPT !.names = @ \ {p},
                                              !.got = @ \union {<<p, store[p]>>}])
               \/ store[p] = NoPolicy /\ Fail(c)
       \/ Cardinality(call[c].names) <= 1 /\ UNCHANGED store /\ Go(c, "done")

(* ... then each policy; one that is gone by then fails the whole call. *)
Fetch(c) ==
    /\ At(c, "fetch")
    /\ \/ \E p \in call[c].names :
            \/ /\ store[p] # NoPolicy
               /\ UNCHANGED store
               /\ Moves(c, [call[c] EXCEPT !.names = @ \ {p},
                                           !.got = @ \union {<<p, store[p]>>}])
            \/ store[p] = NoPolicy /\ Fail(c)
       \/ call[c].names = {} /\ UNCHANGED store /\ Go(c, "done")

(* Any other call on the store may fail. *)
StoreError(c) == Busy(c) /\ call[c].pc \notin {"absent?", "done"} /\ Fail(c)

Init ==
    /\ store = [p \in Names |-> NoPolicy]
    /\ call = [c \in Calls |-> Idle]
    /\ seen = [c \in Calls |-> {}]

Step(c) ==
    \/ CheckAbsent(c) \/ CheckPresent(c) \/ Put(c) \/ ReadBack(c)
    \/ ListNames(c) \/ Fetch(c) \/ Return(c)

Next ==
    \E c \in Calls :
        \/ \E p \in Names, d \in Documents : BeginWrite(c, p, d)
        \/ BeginList(c)
        \/ \E p \in Names : DeletePolicy(c, p)
        \/ Step(c)
        \/ StoreError(c)

Spec == Init /\ [][Next]_vars

-----------------------------------------------------------------------------
(* Properties *)

(* Types, and: only valid documents are ever stored ("fail at creation      *)
(* time, not evaluation time", policy/rules.go).                            *)
TypeOK ==
    /\ store \in [Names -> {d \in Documents : Valid(d)} \union {NoPolicy}]
    /\ \A c \in Calls : Busy(c) =>
         /\ call[c].names \subseteq Names
         /\ call[c].got \subseteq Names \X Documents

(* What ListPolicies returns had been stored while it ran, and it omits no  *)
(* policy that was there all along, whatever was written in between.        *)
ListIsOfItsTime ==
    \A c \in Calls : At(c, "done") /\ call[c].op = "list" =>
        /\ \A e \in call[c].got : \E s \in seen[c] : s[e[1]] = e[2]
        /\ \A p \in Names : (\A s \in seen[c] : s[p] # NoPolicy) =>
             \E e \in call[c].got : e[1] = p

(* What a write's check found still holds when it writes: CreatePolicy       *)
(* never replaces a policy and UpdatePolicy never brings one into being     *)
(* (policy/enforcer.go, "Check for duplicate", "Verify policy exists before *)
(* update").  The check and the write are two calls, and a create takes a   *)
(* read that fails for an absent policy.                                    *)
CheckHoldsAtWrite ==
    [][\A c \in Calls : At(c, "put") /\ call'[c] # call[c] /\ call'[c] # Idle =>
         (store[call[c].name] = NoPolicy) = (call[c].op = "create")]_vars

=============================================================================
