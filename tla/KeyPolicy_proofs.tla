--------------------------- MODULE KeyPolicy_proofs ---------------------------
(***************************************************************************)
(* More proofs about KeyOrchestrator: what a request writes is under the   *)
(* policy and is what the caller asked for, however policies, registry and *)
(* other requests change between the request's calls.                      *)
(*                                                                         *)
(* A request reads its policy up to three times and may find three         *)
(* different documents.  The inductive invariant PInv says of each label   *)
(* which of them still binds the request: the custody it carries is that   *)
(* of a document in force since it began (Ruled), and the place it has     *)
(* chosen is the one named in its specification (Requested).  Both speak   *)
(* of the request's own variables and of a set of documents that only      *)
(* grows, so no step of another actor disturbs them.                       *)
(*                                                                         *)
(* Then: what becomes of a migration while nothing is changed around it    *)
(* (Fate, Blocked), which MigrationReport_proofs rests on; and that a      *)
(* request only ever moves on (EveryStepMovesOn).                          *)
(***************************************************************************)
EXTENDS KeyOrchestrator_proofs

(* The documents of q's policy among the pairs seen while q ran. *)
Docs(q, seen) == {d \in PolicyDocs : <<q.policy, d>> \in seen}

CustodyRead(q) == q.pc \in {"allowed", "servable", "match", "list", "search", "validate", "persist"}

OperationAllowed(q) == q.pc = "persist" \/ (q.pc = "match" /\ q.spec.op = "create")

Ruled(q, seen) ==
    /\ CustodyRead(q) =>
         \E d \in Docs(q, seen) :
            /\ q.custody = Custody(q, d)
            /\ q.spec.op = "migrate" /\ TransfersMaterial(q.spec.strategy) =>
                 KeepsLineage(q.custody, q.last)
    /\ OperationAllowed(q) => \E d \in Docs(q, seen) : Permits(d, "create_key", q.template)
    /\ q.pc = "validate" /\ q.spec.op # "create" => Meets(q.target, q.custody)
    /\ q.pc = "persist" =>
         /\ Meets(q.new.placed, q.custody)
         /\ q.new.template = q.template
         /\ Kept(q.new) => KeepsLineage(q.custody, q.last)
         /\ q.custody.approved => q.new.approved

Requested(q) ==
    /\ q.spec.op = "transform" /\ q.spec.template # NoTemplate =>
         /\ q.pc \notin {"allowed", "servable"}
         /\ q.pc \in {"match", "validate"} => q.template = q.spec.template
    /\ q.spec.op = "migrate" /\ q.spec.instance # NoInstance =>
         /\ q.pc \notin {"list", "search"}
         /\ q.pc = "validate" => Desc[q.target].name = q.spec.instance
    /\ q.spec.op = "migrate" /\ q.spec.type # NoType =>
         /\ q.pc = "search" => Distinct(q.listing)
         /\ q.pc = "validate" => ListedWithItsType(q, q.target)
    /\ q.pc = "persist" /\ q.spec.op # "create" => Honours(q, q.last, q.new)

PInv ==
    \A r \in Requests : Active(r) =>
        /\ \A p \in PolicyNames : <<p, policies[p]>> \in inForce[r]
        /\ Ruled(req[r], inForce[r])
        /\ Requested(req[r])

-----------------------------------------------------------------------------
(* How a step disturbs the invariant. *)

LEMMA MoreDocuments ==
    ASSUME NEW q, NEW seen, NEW more, seen \subseteq more, Ruled(q, seen)
    PROVE  Ruled(q, more)
<1>1. Docs(q, seen) \subseteq Docs(q, more)
  BY DEF Docs
<1> QED
  BY <1>1 DEF Ruled

LEMMA ConsultedInForce ==
    ASSUME PInv, NEW r \in Requests, Active(r), NEW d \in Consulted(req[r])
    PROVE  d \in Docs(req[r], inForce[r])
BY DEF PInv, Consulted, Docs

(* Request r moves on. *)
LEMMA ProceedRuled ==
    ASSUME IInv, PInv, NEW r \in Requests, Active(r), NEW next, Proceed(r, next),
           Ruled(next, inForce[r]), Requested(next)
    PROVE  PInv'
<1>1. /\ req' = [req EXCEPT ![r] = next]
      /\ UNCHANGED <<policies, inForce>>
      /\ req \in [Requests -> Request \union {Idle}]
  BY DEF Proceed, IInv, TypeOK
<1>2. ASSUME NEW x \in Requests, req'[x] # Idle
      PROVE  /\ \A p \in PolicyNames : <<p, policies'[p]>> \in inForce'[x]
             /\ Ruled(req'[x], inForce'[x])
             /\ Requested(req'[x])
  <2>1. CASE x = r
    BY <1>1, <2>1 DEF PInv
  <2>2. CASE x # r
    BY <1>1, <1>2, <2>2 DEF PInv, Active
  <2> QED
    BY <2>1, <2>2
<1> QED
  BY <1>2 DEF PInv, Active

(* Request r ends. *)
LEMMA EndRuled ==
    ASSUME IInv, PInv, NEW r \in Requests, End(r), UNCHANGED policies
    PROVE  PInv'
<1>1. /\ req' = [req EXCEPT ![r] = Idle]
      /\ inForce' = [inForce EXCEPT ![r] = {}]
      /\ req \in [Requests -> Request \union {Idle}]
      /\ DOMAIN inForce = Requests
  BY DEF End, IInv, TypeOK
<1>2. ASSUME NEW x \in Requests, req'[x] # Idle
      PROVE  req'[x] = req[x] /\ inForce'[x] = inForce[x]
  BY <1>1, <1>2
<1> QED
  BY <1>2 DEF PInv, Active

LEMMA RefuseRuled ==
    ASSUME IInv, PInv, NEW r \in Requests, Refuse(r)
    PROVE  PInv'
BY EndRuled DEF Refuse

(* What is known of a request at a label. *)
LEMMA RuledRequest ==
    ASSUME IInv, PInv, NEW r \in Requests, NEW label \in Labels, At(r, label)
    PROVE  /\ Active(r)
           /\ req[r] \in Request
           /\ req[r].pc = label
           /\ StageOK(req[r])
           /\ req[r].spec \in RequestSpec
           /\ WellFormed(req[r].spec)
           /\ Ruled(req[r], inForce[r])
           /\ Requested(req[r])
BY ActiveRequest DEF At, PInv

-----------------------------------------------------------------------------
(* Each step of a request. *)

(* Before the policy is read there is nothing to show. *)
LEMMA UnruledLabel ==
    ASSUME NEW q, NEW seen, q.pc \in {"getKey", "getVersion", "getSource", "requirements", "delete"}
    PROVE  Ruled(q, seen) /\ Requested(q)
BY DEF Ruled, Requested, CustodyRead, OperationAllowed

LEMMA LoadingRuled ==
    ASSUME IInv, PInv, NEW r \in Requests, GetKey(r) \/ GetVersion(r) \/ GetSource(r)
    PROVE  PInv'
<1>1. PICK q : q = req[r]
  OBVIOUS
<1>2. Active(r) /\ q \in Request
  BY <1>1, RuledRequest DEF GetKey, GetVersion, GetSource, Labels
<1>3. CASE Refuse(r)
  BY <1>3, RefuseRuled
<1>4. ASSUME NEW next, Proceed(r, next),
             next.pc \in {"getKey", "getVersion", "getSource", "requirements", "delete"}
      PROVE  PInv'
  BY <1>2, <1>4, UnruledLabel, ProceedRuled
<1>5. CASE GetKey(r)
  <2>1. ASSUME NEW k \in KeyIds,
               Proceed(r, [q EXCEPT !.pc     = IF q.spec.op = "delete" THEN "delete" ELSE "getVersion",
                                    !.key    = k,
                                    !.policy = keys[k].policy,
                                    !.at     = Len(keys[k].versions)])
        PROVE  PInv'
    BY <1>2, <1>4, <2>1 DEF Request
  <2> QED
    BY <1>1, <1>3, <1>5, <2>1 DEF GetKey
<1>6. CASE GetVersion(r)
  <2>1. ASSUME NEW v,
               Proceed(r, [q EXCEPT !.pc   = IF q.spec.op = "migrate" THEN "getSource" ELSE "requirements",
                                    !.last = v])
        PROVE  PInv'
    BY <1>2, <1>4, <2>1 DEF Request
  <2> QED
    BY <1>1, <1>3, <1>6, <2>1 DEF GetVersion, Check
<1>7. CASE GetSource(r)
  <2>1. ASSUME NEW b, Proceed(r, [q EXCEPT !.pc = "requirements", !.source = b])
        PROVE  PInv'
    BY <1>2, <1>4, <2>1 DEF Request
  <2> QED
    BY <1>1, <1>7, <2>1 DEF GetSource
<1> QED
  BY <1>5, <1>6, <1>7

LEMMA ReadRequirementsRuled ==
    ASSUME IInv, PInv, NEW r \in Requests, ReadRequirements(r)
    PROVE  PInv'
<1>1. PICK q : q = req[r]
  OBVIOUS
<1>2. /\ Active(r)
      /\ q \in Request
      /\ q.spec \in RequestSpec
      /\ WellFormed(q.spec)
  BY <1>1, RuledRequest DEF ReadRequirements, Labels
<1>3. CASE Refuse(r)
  BY <1>3, RefuseRuled
<1>4. ASSUME NEW d \in Consulted(q), NEW l \in {"match", "list", "validate", "allowed"},
             NEW t, NEW next,
             next = [q EXCEPT !.custody = Custody(q, d), !.template = t, !.pc = l],
             q.spec.op = "migrate" =>
                /\ TransfersMaterial(q.spec.strategy) => KeepsLineage(Custody(q, d), q.last)
                /\ l = (IF q.spec.type = NoType THEN "match" ELSE "list"),
             q.spec.op = "create" => l \in {"validate", "allowed"},
             q.spec.op # "create" => l # "validate",
             q.spec.template # NoTemplate =>
                (t = q.spec.template /\ l # "allowed") \/ q.spec.op = "migrate",
             Proceed(r, next)
      PROVE  PInv'
  <2>1. /\ next.pc = l
        /\ next.spec = q.spec
        /\ next.policy = q.policy
        /\ next.last = q.last
        /\ next.custody = Custody(q, d)
        /\ next.template = t
    BY <1>2, <1>4 DEF Request
  <2>2. d \in Docs(next, inForce[r])
    BY <1>1, <1>2, <2>1, ConsultedInForce DEF Docs
  <2>3. Custody(next, d) = Custody(q, d)
    BY <2>1 DEF Custody
  <2>4. Ruled(next, inForce[r])
    BY <1>4, <2>1, <2>2, <2>3 DEF Ruled, CustodyRead, OperationAllowed
  <2>5. q.spec.op = "migrate" /\ q.spec.instance # NoInstance => l = "match"
    BY <1>2, <1>4 DEF WellFormed
  <2>6. Requested(next)
    BY <1>4, <2>1, <2>5 DEF Requested
  <2> QED
    BY <1>2, <1>4, <2>4, <2>6, ProceedRuled
<1>5. ASSUME NEW d \in Consulted(q), q.spec.op = "migrate",
             TransfersMaterial(q.spec.strategy) => KeepsLineage(Custody(q, d), q.last),
             Proceed(r, [[q EXCEPT !.custody = Custody(q, d)] EXCEPT
                           !.template = q.last.template,
                           !.pc = IF q.spec.type = NoType THEN "match" ELSE "list"])
      PROVE  PInv'
  BY <1>2, <1>4, <1>5 DEF Request
<1>6. ASSUME NEW d \in Consulted(q), q.spec.op # "migrate", q.spec.template # NoTemplate,
             Proceed(r, WithTemplate([q EXCEPT !.custody = Custody(q, d)], q.spec.template))
      PROVE  PInv'
  BY <1>2, <1>4, <1>6 DEF Request, WithTemplate
<1>7. ASSUME NEW d \in Consulted(q), q.spec.op # "migrate", q.spec.template = NoTemplate,
             Proceed(r, [[q EXCEPT !.custody = Custody(q, d)] EXCEPT !.pc = "allowed"])
      PROVE  PInv'
  <2>1. [[q EXCEPT !.custody = Custody(q, d)] EXCEPT !.pc = "allowed"]
          = [q EXCEPT !.custody = Custody(q, d), !.template = q.template, !.pc = "allowed"]
    BY <1>2 DEF Request
  <2> QED
    BY <1>4, <1>7, <2>1
<1> QED
  BY <1>1, <1>3, <1>5, <1>6, <1>7 DEF ReadRequirements, Check

(* A step that keeps the custody, the template and the rest of what a       *)
(* request was told, on the way to its target.                              *)
LEMMA PickingRuled ==
    ASSUME IInv, PInv, NEW r \in Requests, Active(r), NEW q, q = req[r], NEW next,
           Proceed(r, next), CustodyRead(q), Ruled(q, inForce[r]), Requested(q),
           next.spec = q.spec, next.policy = q.policy, next.last = q.last,
           next.custody = q.custody,
           next.pc \in {"allowed", "servable", "match", "list", "search", "validate"},
           next.pc = "match" => q.spec.op # "create",
           next.pc = "validate" /\ q.spec.op # "create" => Meets(next.target, next.custody),
           Requested(next)
    PROVE  PInv'
<1>1. \A d : Custody(next, d) = Custody(q, d)
  BY DEF Custody
<1>2. Docs(next, inForce[r]) = Docs(q, inForce[r])
  BY DEF Docs
<1>3. Ruled(next, inForce[r])
  BY <1>1, <1>2 DEF Ruled, CustodyRead, OperationAllowed
<1> QED
  BY <1>3, ProceedRuled

LEMMA ReadAllowedRuled ==
    ASSUME IInv, PInv, NEW r \in Requests, ReadAllowed(r)
    PROVE  PInv'
<1>1. PICK q : q = req[r]
  OBVIOUS
<1>2. /\ Active(r)
      /\ q \in Request
      /\ q.pc = "allowed"
      /\ Ruled(q, inForce[r])
      /\ Requested(q)
  BY <1>1, RuledRequest DEF ReadAllowed, Labels
<1>3. CASE Refuse(r)
  BY <1>3, RefuseRuled
<1>4. ASSUME NEW ts, NEW next, next = [q EXCEPT !.pc = "servable", !.candidates = ts],
             Proceed(r, next)
      PROVE  PInv'
  <2>1. /\ next.pc = "servable"
        /\ next.spec = q.spec
        /\ next.policy = q.policy
        /\ next.last = q.last
        /\ next.custody = q.custody
    BY <1>2, <1>4 DEF Request
  <2>2. Requested(next)
    BY <1>2, <2>1 DEF Requested
  <2> QED
    BY <1>1, <1>2, <1>4, <2>1, <2>2, PickingRuled DEF CustodyRead
<1> QED
  BY <1>1, <1>3, <1>4 DEF ReadAllowed

LEMMA TryCandidateRuled ==
    ASSUME IInv, PInv, NEW r \in Requests, TryCandidate(r)
    PROVE  PInv'
<1>1. PICK q : q = req[r]
  OBVIOUS
<1>2. /\ Active(r)
      /\ q \in Request
      /\ q.pc = "servable"
      /\ Ruled(q, inForce[r])
      /\ Requested(q)
  BY <1>1, RuledRequest DEF TryCandidate, Labels
<1>3. PICK next, cs, ss :
         next = [q EXCEPT !.candidates = cs, !.servable = ss] /\ Proceed(r, next)
  BY <1>1 DEF TryCandidate
<1>4. /\ next.pc = "servable"
      /\ next.spec = q.spec
      /\ next.policy = q.policy
      /\ next.last = q.last
      /\ next.custody = q.custody
  BY <1>2, <1>3 DEF Request
<1>5. Requested(next)
  BY <1>2, <1>4 DEF Requested
<1> QED
  BY <1>1, <1>2, <1>3, <1>4, <1>5, PickingRuled DEF CustodyRead

LEMMA SelectTemplateRuled ==
    ASSUME IInv, PInv, NEW r \in Requests, SelectTemplate(r)
    PROVE  PInv'
<1>1. PICK q : q = req[r]
  OBVIOUS
<1>2. /\ Active(r)
      /\ q \in Request
      /\ q.pc = "servable"
      /\ q.spec.op \in {"create", "transform"}
      /\ Ruled(q, inForce[r])
      /\ Requested(q)
  BY <1>1, RuledRequest, ServableRequest DEF SelectTemplate, Labels
<1>3. CASE Refuse(r)
  BY <1>3, RefuseRuled
<1>4. ASSUME NEW t, NEW next, next = WithTemplate(q, t), Proceed(r, next)
      PROVE  PInv'
  <2>1. /\ next.pc = (IF q.spec.op = "create" THEN "validate" ELSE "match")
        /\ next.spec = q.spec
        /\ next.policy = q.policy
        /\ next.last = q.last
        /\ next.custody = q.custody
    BY <1>2, <1>4 DEF Request, WithTemplate
  <2>2. Requested(next)
    BY <1>2, <2>1 DEF Requested
  <2> QED
    BY <1>1, <1>2, <1>4, <2>1, <2>2, PickingRuled DEF CustodyRead
<1> QED
  BY <1>1, <1>3, <1>4 DEF SelectTemplate

(* What a Match returns meets the requirements it was asked with. *)
LEMMA MatchMeets ==
    ASSUME NEW n, NEW q, NEW t, NEW b \in Match(registry, n, q, t)
    PROVE  Meets(b, q)
BY DEF Match, MatchPinned, MatchFirst, Eligible

(* What meets a custody that requires approved generation is certified.     *)
LEMMA ApprovedCustody ==
    ASSUME NEW b \in Backends, NEW q, Meets(b, q), q.approved
    PROVE  Meets(b, ApprovedGeneration)
<1>1. Desc[b].certified
  BY DEF Meets
<1> QED
  BY <1>1, ApprovedIsCertified

LEMMA MatchProviderRuled ==
    ASSUME IInv, PInv, NEW r \in Requests, MatchProvider(r)
    PROVE  PInv'
<1>1. PICK q : q = req[r]
  OBVIOUS
<1>2. /\ Active(r)
      /\ q \in Request
      /\ q.pc = "match"
      /\ StageOK(q)
      /\ WellFormed(q.spec)
      /\ Ruled(q, inForce[r])
      /\ Requested(q)
  BY <1>1, RuledRequest DEF MatchProvider, Labels
<1>3. CASE Refuse(r)
  BY <1>3, RefuseRuled
<1>4. ASSUME q.spec.op = "create", NEW b \in Match(registry, Pin(q), q.custody, q.template),
             NEW v, v = NewVersion(1, q.template, b, ScopeOf(q),
                                   GeneratedPayload(b, q.template),
                                   GeneratedProvenance(b, q.template)),
             NEW next, next = WithVersion(q, v), Proceed(r, next)
      PROVE  PInv'
  <2>1. b \in Backends /\ Meets(b, q.custody)
    BY <1>4, MatchResult, MatchMeets
  <2>2. /\ v.placed = b
        /\ v.template = q.template
        /\ v.approved = Meets(b, ApprovedGeneration)
        /\ ~Kept(v)
    BY <1>4 DEF NewVersion, GeneratedProvenance, Kept
  <2>3. /\ next.pc = "persist"
        /\ next.spec = q.spec
        /\ next.policy = q.policy
        /\ next.last = q.last
        /\ next.custody = q.custody
        /\ next.template = q.template
        /\ next.new = v
    BY <1>2, <1>4 DEF Request, WithVersion
  <2>4. Docs(next, inForce[r]) = Docs(q, inForce[r]) /\ \A d : Custody(next, d) = Custody(q, d)
    BY <2>3 DEF Docs, Custody
  <2>5. Ruled(next, inForce[r])
    BY <1>2, <1>4, <2>1, <2>2, <2>3, <2>4, ApprovedCustody DEF Ruled, CustodyRead, OperationAllowed
  <2>6. Requested(next)
    BY <1>4, <2>3 DEF Requested
  <2> QED
    BY <1>2, <1>4, <2>5, <2>6, ProceedRuled
<1>5. ASSUME q.spec.op # "create", NEW b \in Match(registry, Pin(q), q.custody, q.template),
             NEW next, next = [q EXCEPT !.target = b, !.pc = "validate"], Proceed(r, next)
      PROVE  PInv'
  <2>1. /\ Meets(b, q.custody)
        /\ Pin(q) # NoInstance => Desc[b].name = Pin(q)
    BY <1>5, MatchResult, MatchMeets
  <2>2. /\ next.pc = "validate"
        /\ next.spec = q.spec
        /\ next.policy = q.policy
        /\ next.last = q.last
        /\ next.custody = q.custody
        /\ next.template = q.template
        /\ next.target = b
    BY <1>2, <1>5 DEF Request
  <2>3. q.spec.op = "migrate" => q.spec.type = NoType
    BY <1>2, BackendAssumption DEF StageOK, WellFormed
  <2>4. Requested(next)
    BY <1>2, <2>1, <2>2, <2>3 DEF Requested, Pin
  <2> QED
    BY <1>1, <1>2, <1>5, <2>1, <2>2, <2>4, PickingRuled DEF CustodyRead
<1> QED
  BY <1>1, <1>3, <1>4, <1>5 DEF MatchProvider

(* Whatever has the name of an instance left to try is that instance, or    *)
(* was not listed.                                                          *)
LEMMA FoundByType ==
    ASSUME NEW q, Distinct(q.listing),
           NEW i \in Untried(q), NEW b, Desc[b].name = Desc[q.listing[i]].name
    PROVE  ListedWithItsType(q, b)
<1>1. i \in DOMAIN q.listing /\ Desc[q.listing[i]].type = q.spec.type
  BY DEF Untried
<1>2. \A j \in DOMAIN q.listing : q.listing[j] = b => j = i
  BY <1>1 DEF Distinct
<1>3. b = q.listing[i] \/ \A j \in DOMAIN q.listing : q.listing[j] # b
  BY <1>2
<1> QED
  BY <1>1, <1>3 DEF ListedWithItsType

LEMMA SearchRuled ==
    ASSUME IInv, PInv, NEW r \in Requests, ListTargets(r) \/ TryTarget(r)
    PROVE  PInv'
<1>1. PICK q : q = req[r]
  OBVIOUS
<1>2. /\ Active(r)
      /\ q \in Request
      /\ q.pc \in {"list", "search"}
      /\ StageOK(q)
      /\ q.spec.op = "migrate"
      /\ Ruled(q, inForce[r])
      /\ Requested(q)
  <2>1. /\ Active(r)
        /\ q \in Request
        /\ q.pc \in {"list", "search"}
        /\ StageOK(q)
        /\ q.spec \in RequestSpec
        /\ Ruled(q, inForce[r])
        /\ Requested(q)
    BY <1>1, RuledRequest DEF ListTargets, TryTarget, Labels
  <2> QED
    BY <2>1 DEF StageOK, Stages, RequestSpec
<1>3. q.spec.instance = NoInstance
  BY <1>2 DEF Requested
<1>4. CASE Refuse(r)
  BY <1>4, RefuseRuled
<1>5. ASSUME NEW next, Proceed(r, next),
             next.spec = q.spec, next.policy = q.policy, next.last = q.last,
             next.custody = q.custody,
             \/ next.pc = "search" /\ Distinct(next.listing)
             \/ /\ next.pc = "validate"
                /\ Meets(next.target, next.custody)
                /\ ListedWithItsType(next, next.target)
      PROVE  PInv'
  <2>1. Requested(next)
    BY <1>2, <1>3, <1>5 DEF Requested
  <2>2. next.pc \in {"search", "validate"} /\ CustodyRead(q)
    BY <1>2, <1>5 DEF CustodyRead
  <2> QED
    BY <1>1, <1>2, <1>5, <2>1, <2>2, PickingRuled
<1>6. CASE ListTargets(r)
  <2>1. PICK next : next = [q EXCEPT !.pc = "search", !.listing = registry] /\ Proceed(r, next)
    BY <1>1, <1>6 DEF ListTargets
  <2>2. Distinct(registry)
    BY DEF IInv, TypeOK
  <2>3. /\ next.pc = "search"
        /\ next.listing = registry
        /\ next.spec = q.spec
        /\ next.policy = q.policy
        /\ next.last = q.last
        /\ next.custody = q.custody
    BY <1>2, <2>1 DEF Request
  <2> QED
    BY <1>5, <2>1, <2>2, <2>3
<1>7. CASE TryTarget(r)
  <2>0. /\ q.pc = "search"
        /\ q.spec.type # NoType
        /\ Distinct(q.listing)
    <3>1. q.pc = "search" /\ WellFormed(q.spec)
      BY <1>1, <1>7, RuledRequest DEF TryTarget, At, Labels
    <3> QED
      BY <3>1, <1>2, <1>3 DEF WellFormed, Requested
  <2>1. ASSUME NEW i \in Untried(q),
               NEW b \in MatchPinned(registry, Desc[q.listing[i]].name, q.custody, q.template),
               NEW next, next = [q EXCEPT !.target = b, !.pc = "validate"], Proceed(r, next)
        PROVE  PInv'
    <3>1. Meets(b, q.custody) /\ Desc[b].name = Desc[q.listing[i]].name
      BY <2>1 DEF MatchPinned, Eligible, Registered
    <3>2. /\ next.pc = "validate"
          /\ next.spec = q.spec
          /\ next.policy = q.policy
          /\ next.last = q.last
          /\ next.custody = q.custody
          /\ next.target = b
          /\ next.listing = q.listing
      BY <1>2, <2>1 DEF Request
    <3>3. ListedWithItsType(next, next.target)
      BY <2>0, <2>1, <3>1, <3>2, FoundByType DEF ListedWithItsType
    <3> QED
      BY <1>5, <2>1, <3>1, <3>2, <3>3
  <2>2. ASSUME NEW i, NEW next, next = [q EXCEPT !.tried = q.tried \union {i}], Proceed(r, next)
        PROVE  PInv'
    <3>1. /\ next.pc = q.pc
          /\ next.spec = q.spec
          /\ next.policy = q.policy
          /\ next.last = q.last
          /\ next.custody = q.custody
          /\ next.listing = q.listing
      BY <1>2, <2>2 DEF Request
    <3> QED
      BY <1>5, <2>0, <2>2, <3>1
  <2> QED
    BY <1>1, <1>4, <1>7, <2>1, <2>2 DEF TryTarget
<1> QED
  BY <1>6, <1>7

(* The version a transform or a migration is about to write, once its       *)
(* operation is allowed.                                                    *)
LEMMA NextVersionRuled ==
    ASSUME IInv, NEW q, q.pc = "validate", q.spec.op \in {"transform", "migrate"}, StageOK(q),
           NEW seen, Ruled(q, seen), Requested(q),
           q.spec.op = "transform" /\ q.spec.retain => MayRetain(q),
           NEW v, v = NextVersion(q)
    PROVE  /\ v.placed = q.target
           /\ v.template = q.template
           /\ Kept(v) => KeepsLineage(q.custody, q.last)
           /\ q.custody.approved => v.approved
           /\ Honours(q, q.last, v)
<1>1. TargetChosen(q) /\ q.target \in Backends
  BY DEF StageOK, TargetChosen
<1>2. /\ Meets(q.target, q.custody)
      /\ q.custody.approved => Meets(q.target, ApprovedGeneration)
  BY <1>1, ApprovedCustody DEF Ruled
<1>3. Keeps(q) => KeepsLineage(q.custody, q.last)
  BY DEF Keeps, MayRetain, Ruled, CustodyRead, TransfersMaterial
<1>4. /\ v.placed = q.target
      /\ v.template = q.template
      /\ v.provider = Desc[q.target].name
      /\ Keeps(q) => /\ v.payload = q.last.payload
                     /\ v.approved = (q.last.approved /\ Meets(q.target, ApprovedGeneration))
      /\ ~Keeps(q) => ~Kept(v) /\ v.approved = Meets(q.target, ApprovedGeneration)
  BY DEF NextVersion, NewVersion, GeneratedProvenance, KeptProvenance, Kept
<1>5. q.custody.approved => v.approved
  BY <1>2, <1>3, <1>4 DEF KeepsLineage
<1>6. q.spec.op = "transform" =>
         /\ v.provider = q.last.provider
         /\ q.spec.template # NoTemplate => v.template = q.spec.template
         /\ q.spec.retain => v.payload = q.last.payload
  BY <1>1, <1>4 DEF TargetChosen, Requested, Keeps
<1>7. q.spec.op = "migrate" =>
         /\ v.provider # q.last.provider
         /\ v.template = q.last.template
         /\ q.spec.instance # NoInstance => v.provider = q.spec.instance
         /\ q.spec.type # NoType => ListedWithItsType(q, v.placed)
         /\ q.spec.strategy = "PROVIDER_SWITCH" => v.payload = q.last.payload
  BY <1>1, <1>4 DEF TargetChosen, Requested, Keeps, StageOK
<1> QED
  BY <1>3, <1>4, <1>5, <1>6, <1>7 DEF Honours

LEMMA ValidateOpRuled ==
    ASSUME IInv, PInv, NEW r \in Requests, ValidateOp(r)
    PROVE  PInv'
<1>1. PICK q : q = req[r]
  OBVIOUS
<1>2. /\ Active(r)
      /\ q \in Request
      /\ q.pc = "validate"
      /\ StageOK(q)
      /\ q.spec \in RequestSpec
      /\ Ruled(q, inForce[r])
      /\ Requested(q)
  BY <1>1, RuledRequest DEF ValidateOp, Labels
<1>3. CASE Refuse(r)
  BY <1>3, RefuseRuled
<1>4. ASSUME NEW d \in Consulted(q), Permits(d, "create_key", q.template),
             q.spec.op = "create", NEW next, next = [q EXCEPT !.pc = "match"], Proceed(r, next)
      PROVE  PInv'
  <2>1. /\ next.pc = "match"
        /\ next.spec = q.spec
        /\ next.policy = q.policy
        /\ next.last = q.last
        /\ next.custody = q.custody
        /\ next.template = q.template
    BY <1>2, <1>4 DEF Request
  <2>2. Docs(next, inForce[r]) = Docs(q, inForce[r]) /\ \A x : Custody(next, x) = Custody(q, x)
    BY <2>1 DEF Docs, Custody
  <2>3. d \in Docs(q, inForce[r])
    BY <1>1, <1>2, ConsultedInForce
  <2>4. Ruled(next, inForce[r])
    BY <1>2, <1>4, <2>1, <2>2, <2>3 DEF Ruled, CustodyRead, OperationAllowed
  <2>5. Requested(next)
    BY <1>4, <2>1 DEF Requested
  <2> QED
    BY <1>2, <1>4, <2>4, <2>5, ProceedRuled
<1>5. ASSUME NEW d \in Consulted(q), Permits(d, "create_key", q.template),
             q.spec.op # "create", q.spec.op = "transform" /\ q.spec.retain => MayRetain(q),
             NEW next, next = WithVersion(q, NextVersion(q)), Proceed(r, next)
      PROVE  PInv'
  <2>1. PICK v : v = NextVersion(q)
    OBVIOUS
  <2>2. q.spec.op \in {"transform", "migrate"}
    BY <1>2, <1>5 DEF StageOK, Stages, RequestSpec
  <2>3. /\ v.placed = q.target
        /\ v.template = q.template
        /\ Kept(v) => KeepsLineage(q.custody, q.last)
        /\ q.custody.approved => v.approved
        /\ Honours(q, q.last, v)
    BY <1>2, <1>5, <2>1, <2>2, NextVersionRuled
  <2>4. /\ next.pc = "persist"
        /\ next.spec = q.spec
        /\ next.policy = q.policy
        /\ next.last = q.last
        /\ next.custody = q.custody
        /\ next.template = q.template
        /\ next.listing = q.listing
        /\ next.new = v
    BY <1>2, <1>5, <2>1 DEF Request, WithVersion
  <2>5. Docs(next, inForce[r]) = Docs(q, inForce[r]) /\ \A x : Custody(next, x) = Custody(q, x)
    BY <2>4 DEF Docs, Custody
  <2>6. d \in Docs(q, inForce[r])
    BY <1>1, <1>2, ConsultedInForce
  <2>7. Ruled(next, inForce[r])
    BY <1>2, <1>5, <2>3, <2>4, <2>5, <2>6 DEF Ruled, CustodyRead, OperationAllowed
  <2>8. Requested(next)
    BY <1>5, <2>2, <2>3, <2>4 DEF Requested, Honours, ListedWithItsType
  <2> QED
    BY <1>2, <1>5, <2>7, <2>8, ProceedRuled
<1> QED
  BY <1>1, <1>3, <1>4, <1>5 DEF ValidateOp, Check

LEMMA WritesRuled ==
    ASSUME IInv, PInv, NEW r \in Requests, PersistKey(r) \/ PersistVersion(r) \/ DeleteKey(r)
    PROVE  PInv'
<1>1. End(r) /\ UNCHANGED policies
  BY DEF PersistKey, PersistVersion, DeleteKey, Write, Refuse
<1> QED
  BY <1>1, EndRuled

LEMMA BeginRuled ==
    ASSUME IInv, PInv, NEW r \in Requests, NEW s \in Specs, Begin(r, s)
    PROVE  PInv'
<1>1. PICK next : next = Start(s)
  OBVIOUS
<1>2. PICK now : now = {<<p, policies[p]>> : p \in PolicyNames}
  OBVIOUS
<1>3. /\ req' = [req EXCEPT ![r] = next]
      /\ inForce' = [inForce EXCEPT ![r] = now]
      /\ UNCHANGED policies
      /\ req \in [Requests -> Request \union {Idle}]
      /\ DOMAIN inForce = Requests
  BY <1>1, <1>2 DEF Begin, IInv, TypeOK
<1>4. Ruled(next, now) /\ Requested(next)
  <2>1. next.pc \in {"requirements", "getKey"}
    BY <1>1 DEF Start
  <2> QED
    BY <2>1, UnruledLabel
<1>5. ASSUME NEW x \in Requests, req'[x] # Idle
      PROVE  /\ \A p \in PolicyNames : <<p, policies'[p]>> \in inForce'[x]
             /\ Ruled(req'[x], inForce'[x])
             /\ Requested(req'[x])
  <2>1. CASE x = r
    BY <1>2, <1>3, <1>4, <2>1
  <2>2. CASE x # r
    BY <1>3, <1>5, <2>2 DEF PInv, Active
  <2> QED
    BY <2>1, <2>2
<1> QED
  BY <1>5 DEF PInv, Active

LEMMA PutPolicyRuled ==
    ASSUME IInv, PInv, NEW p \in PolicyNames, NEW d, PutPolicy(p, d)
    PROVE  PInv'
<1>1. /\ policies' = [policies EXCEPT ![p] = d]
      /\ UNCHANGED req
      /\ policies \in [PolicyNames -> PolicyDocs \union {NoPolicy}]
      /\ \A x \in Requests : Active(x) => inForce'[x] = inForce[x] \union {<<p, d>>}
  BY DEF PutPolicy, IInv, TypeOK
<1>2. ASSUME NEW x \in Requests, Active(x)
      PROVE  /\ \A n \in PolicyNames : <<n, policies'[n]>> \in inForce'[x]
             /\ Ruled(req[x], inForce'[x])
             /\ Requested(req[x])
  <2>1. \A n \in PolicyNames : <<n, policies'[n]>> \in inForce'[x]
    BY <1>1, <1>2 DEF PInv
  <2>2. Ruled(req[x], inForce'[x])
    BY <1>1, <1>2, MoreDocuments DEF PInv
  <2> QED
    BY <1>2, <2>1, <2>2 DEF PInv
<1> QED
  BY <1>1, <1>2 DEF PInv, Active

LEMMA PInvStep ==
    ASSUME IInv, PInv, [Next]_vars
    PROVE  PInv'
<1>1. ASSUME NEW r \in Requests, Step(r)
      PROVE  PInv'
  BY <1>1, LoadingRuled, ReadRequirementsRuled, ReadAllowedRuled, TryCandidateRuled,
     SelectTemplateRuled, MatchProviderRuled, SearchRuled, ValidateOpRuled, WritesRuled
  DEF Step
<1>2. ASSUME NEW r \in Requests, NEW s \in Specs, Begin(r, s)
      PROVE  PInv'
  BY <1>2, BeginRuled
<1>3. ASSUME NEW r \in Requests, DependencyError(r)
      PROVE  PInv'
  BY <1>3, RefuseRuled DEF DependencyError
<1>4. ASSUME UNCHANGED <<policies, req, inForce>>
      PROVE  PInv'
  BY <1>4 DEF PInv, Active
<1>5. CASE Environment
  BY <1>4, <1>5, PutPolicyRuled DEF Environment, RegisterBackend, RemoveBackend
<1>6. CASE UNCHANGED vars
  BY <1>4, <1>6 DEF vars
<1> QED
  BY <1>1, <1>2, <1>3, <1>5, <1>6 DEF Next

(* The policy side of the inductive invariant holds in every reachable      *)
(* state.                                                                   *)
THEOREM PolicyInvariant == Spec => []PInv
<1>1. Init => PInv
  BY DEF Init, PInv, Active
<1>2. IInv /\ PInv /\ [Next]_vars => PInv'
  BY PInvStep
<1> QED
  BY <1>1, <1>2, Invariant, PTL DEF Spec

-----------------------------------------------------------------------------

(* What meets the merge of two requirements meets each of them.             *)
LEMMA MeetsMerged ==
    ASSUME NEW b \in Backends, NEW p \in Requirements, NEW q \in Requirements,
           Meets(b, Merge(p, q))
    PROVE  Meets(b, q)
<1>1. /\ Desc[b].level \in Nat
      /\ p.level \in Nat
      /\ q.level \in Nat
  <2>1. Desc[b] \in Description
    BY BackendAssumption
  <2> QED
    BY <2>1 DEF Description, Requirements, MaxFIPS140Level
<1>2. /\ Merge(p, q).certified = (p.certified \/ q.certified)
      /\ Merge(p, q).level = (IF p.level >= q.level THEN p.level ELSE q.level)
      /\ Merge(p, q).props = p.props \union q.props
      /\ Merge(p, q).approved = (p.approved \/ q.approved)
  BY DEF Merge
<1>3. q.props \subseteq Desc[b].props
  BY <1>2 DEF Meets
<1>4. /\ q.certified => Desc[b].certified
      /\ q.approved => Desc[b].certified
  BY <1>2 DEF Meets
<1>5. q.level > 0 => Desc[b].certified /\ Desc[b].level >= q.level
  <2>1. PICK m \in Nat : m = Merge(p, q).level
    BY <1>1, <1>2
  <2>2. m >= q.level
    BY <1>1, <1>2, <2>1
  <2>3. m > 0 => Desc[b].certified /\ Desc[b].level >= m
    BY <2>1 DEF Meets
  <2> QED
    BY <1>1, <2>2, <2>3
<1> QED
  BY <1>3, <1>4, <1>5 DEF Meets

LEMMA CustodyMeets ==
    ASSUME NEW q, q.spec \in RequestSpec, NEW d \in PolicyDocs
    PROVE  /\ \A b \in Backends : Meets(b, Custody(q, d)) => Meets(b, Rules[d].requires)
           /\ Rules[d].requires.approved => Custody(q, d).approved
<1>1. PICK p \in Requirements : Custody(q, d) = Merge(p, Rules[d].requires)
  <2>1. NothingRequired \in Requirements
    BY DEF NothingRequired, Requirements, MaxFIPS140Level
  <2>2. q.spec.requires \in Requirements
    BY DEF RequestSpec
  <2> QED
    BY <2>1, <2>2 DEF Custody
<1>2. Rules[d].requires \in Requirements
  BY OrchestratorAssumption DEF PolicyRules
<1>3. Rules[d].requires.approved => Custody(q, d).approved
  <2>1. Merge(p, Rules[d].requires).approved = (p.approved \/ Rules[d].requires.approved)
    BY DEF Merge
  <2> QED
    BY <1>1, <2>1
<1>4. ASSUME NEW b \in Backends, Meets(b, Custody(q, d))
      PROVE  Meets(b, Rules[d].requires)
  BY <1>1, <1>2, <1>4, MeetsMerged
<1> QED
  BY <1>3, <1>4

LEMMA PInvPlaces ==
    ASSUME IInv, PInv
    PROVE  PlacedUnderAPolicyInForce
<1> SUFFICES ASSUME IInv, PInv, NEW r \in Requests, At(r, "persist"),
                    NEW q, q = req[r],
                    NEW docs, docs = {d \in PolicyDocs : <<q.policy, d>> \in inForce[r]}
             PROVE  /\ \E d \in docs : Permits(d, "create_key", q.new.template)
                    /\ \E d \in docs :
                         /\ Meets(q.new.placed, Rules[d].requires)
                         /\ Kept(q.new) => KeepsLineage(Rules[d].requires, q.last)
  BY DEF PlacedUnderAPolicyInForce
<1>1. /\ q.pc = "persist"
      /\ StageOK(q)
      /\ q.spec \in RequestSpec
      /\ Ruled(q, inForce[r])
  BY RuledRequest DEF Labels
<1>2. docs = Docs(q, inForce[r])
  BY DEF Docs
<1>3. \E d \in docs : Permits(d, "create_key", q.new.template)
  BY <1>1, <1>2 DEF Ruled, OperationAllowed
<1>4. PICK d \in docs : q.custody = Custody(q, d)
  BY <1>1, <1>2 DEF Ruled, CustodyRead
<1>5. q.new.placed \in Backends /\ Meets(q.new.placed, q.custody)
  BY <1>1 DEF Ruled, StageOK, Built, KeyVersion
<1>6. Meets(q.new.placed, Rules[d].requires)
  BY <1>1, <1>4, <1>5, CustodyMeets
<1>7. Kept(q.new) => KeepsLineage(Rules[d].requires, q.last)
  BY <1>1, <1>4, CustodyMeets DEF Ruled, KeepsLineage
<1> QED
  BY <1>3, <1>6, <1>7

(* Every version written was permitted by a document its policy had during  *)
(* the request, and placed, lineage included, as one of them requires.      *)
THEOREM PlacedUnderPolicy == Spec => []PlacedUnderAPolicyInForce
  BY Invariant, PolicyInvariant, PInvPlaces, PTL

(* A version is only ever added by a request that had read the one it       *)
(* follows, and is what that request asked for.                             *)
THEOREM RequestsHonoured == Spec => NewVersionHonoursItsRequest
<1>1. ASSUME IInv, PInv, [Next]_vars, NEW k \in KeyIds,
             keys[k].status = "live", Len(keys'[k].versions) > Len(keys[k].versions)
      PROVE  \E r \in Requests :
                /\ At(r, "persist")
                /\ req[r].key = k
                /\ Honours(req[r], keys[k].versions[Len(keys[k].versions)],
                           keys'[k].versions[Len(keys[k].versions) + 1])
  <2>1. PICK vs : vs = keys[k].versions
    OBVIOUS
  <2>2. /\ keys \in [KeyIds -> Key]
        /\ vs \in Seq(KeyVersion)
        /\ Len(vs) \in Nat
    <3>1. keys \in [KeyIds -> Key]
      BY <1>1 DEF IInv, TypeOK, KeysTypeOK
    <3>2. vs \in Seq(KeyVersion)
      BY <2>1, <3>1 DEF Key
    <3> QED
      BY <3>1, <3>2
  <2>3. keys'[k] # keys[k]
    BY <1>1, <2>1, <2>2
  <2>4. PICK r \in Requests : Step(r) /\ ~Refuse(r)
    BY <1>1, <2>3 DEF Next, vars, Begin, DependencyError, Environment, PutPolicy,
                      RegisterBackend, RemoveBackend, Refuse
  <2>5. CASE PersistVersion(r)
    <3>1. PICK q : q = req[r]
      OBVIOUS
    <3>2. /\ At(r, "persist")
          /\ q.pc = "persist"
          /\ q.spec.op # "create"
          /\ StageOK(q)
          /\ q.spec \in RequestSpec
          /\ Located(q) => Remembers(q)
          /\ Requested(q)
      BY <1>1, <2>5, <3>1, RuledRequest, ActiveRequest DEF PersistVersion, Labels
    <3>3. /\ Remembers(q)
          /\ Built(q)
          /\ q.last \in KeyVersion
      <4>1. q.spec.op \in {"transform", "migrate"}
        BY <3>2 DEF StageOK, Stages, RequestSpec
      <4> QED
        BY <3>2, <4>1 DEF Located, StageOK, HasLast
    <3>4. /\ q.key \in KeyIds
          /\ q.new.version = Len(keys[q.key].versions) + 1
          /\ keys' = [keys EXCEPT ![q.key] =
                        [keys[q.key] EXCEPT !.versions = Append(keys[q.key].versions, q.new)]]
      BY <2>4, <2>5, <3>1, <3>3 DEF PersistVersion, Write, Remembers
    <3>5. q.key = k
      BY <2>2, <2>3, <3>4
    <3>6. keys'[k].versions = Append(vs, q.new)
      BY <2>1, <2>2, <3>4, <3>5 DEF Key
    <3>7. keys'[k].versions[Len(vs) + 1] = q.new
      BY <2>2, <3>6
    <3>8. q.last = vs[Len(vs)]
      <4>1. q.last.version = Len(vs)
        BY <2>1, <2>2, <3>2, <3>3, <3>4, <3>5 DEF Built, KeyVersion
      <4>2. q.last # NoVersion
        BY <3>3, OrchestratorAssumption
      <4> QED
        BY <1>1, <2>1, <3>3, <3>5, <4>1, <4>2 DEF Remembers
    <3>9. Honours(q, q.last, q.new)
      BY <3>2 DEF Requested
    <3> QED
      BY <2>1, <3>1, <3>2, <3>5, <3>7, <3>8, <3>9
  <2>6. CASE PersistKey(r)
    <3>1. PICK x \in KeyIds : keys[x].status = "unused" /\ \E key : keys' = [keys EXCEPT ![x] = key]
      BY <2>4, <2>6 DEF PersistKey, Write
    <3> QED
      BY <1>1, <2>2, <2>3, <3>1
  <2>7. CASE DeleteKey(r)
    <3>1. PICK x : keys' = [keys EXCEPT ![x] = NoKey("deleted")]
      BY <2>4, <2>7 DEF DeleteKey, Write
    <3>2. keys'[k] = NoKey("deleted")
      BY <2>2, <2>3, <3>1
    <3>3. keys'[k].versions = <<>>
      <4>1. NoKey("deleted").versions = <<>>
        BY DEF NoKey
      <4> QED
        BY <3>2, <4>1
    <3>4. Len(keys'[k].versions) = 0
      BY <3>3
    <3> QED
      BY <1>1, <2>1, <2>2, <3>4
  <2>8. CASE \/ GetKey(r) \/ GetVersion(r) \/ GetSource(r) \/ ReadRequirements(r)
             \/ ReadAllowed(r) \/ TryCandidate(r) \/ SelectTemplate(r)
             \/ MatchProvider(r) \/ ListTargets(r) \/ TryTarget(r) \/ ValidateOp(r)
    BY <2>3, <2>8 DEF GetKey, GetVersion, GetSource, ReadRequirements, ReadAllowed, TryCandidate,
                      SelectTemplate, MatchProvider, ListTargets, TryTarget, ValidateOp,
                      Check, Proceed, Refuse
  <2> QED
    BY <2>4, <2>5, <2>6, <2>7, <2>8 DEF Step
<1>2. IInv /\ PInv /\ [Next]_vars =>
        [\A k \in KeyIds :
           LET vs == keys[k].versions IN
           keys[k].status = "live" /\ Len(keys'[k].versions) > Len(vs) =>
               \E r \in Requests :
                   /\ At(r, "persist")
                   /\ req[r].key = k
                   /\ Honours(req[r], vs[Len(vs)], keys'[k].versions[Len(vs) + 1])]_vars
  BY <1>1
<1> QED
  BY <1>2, Invariant, PolicyInvariant, PTL DEF Spec, NewVersionHonoursItsRequest

-----------------------------------------------------------------------------
(* A strict policy. *)

(* The documents a policy may ever have. *)
Possible(p) == {InitialPolicies[p]} \union PolicyEdits

(* Every document stored, now or while a request ran, is one of those.      *)
PossibleDocs ==
    /\ \A p \in PolicyNames : policies[p] \in Possible(p)
    /\ \A r \in Requests : \A e \in inForce[r] : e[2] \in Possible(e[1])

StrictInv == PossibleDocs /\ StrictPolicyKeepsLineage

LEMMA PossibleStep ==
    ASSUME IInv, PossibleDocs, [Next]_vars
    PROVE  PossibleDocs'
<1>1. /\ policies \in [PolicyNames -> PolicyDocs \union {NoPolicy}]
      /\ inForce \in [Requests -> SUBSET (PolicyNames \X (PolicyDocs \union {NoPolicy}))]
  BY DEF IInv, TypeOK
<1>2. ASSUME UNCHANGED policies, NEW r \in Requests,
             inForce' = inForce \/ inForce' = [inForce EXCEPT ![r] = {}]
      PROVE  PossibleDocs'
  BY <1>1, <1>2 DEF PossibleDocs
<1>3. ASSUME NEW r \in Requests, Step(r) \/ DependencyError(r)
      PROVE  PossibleDocs'
  <2>1. UNCHANGED policies /\ (inForce' = inForce \/ inForce' = [inForce EXCEPT ![r] = {}])
    BY <1>3 DEF Step, DependencyError, GetKey, GetVersion, GetSource, ReadRequirements, ReadAllowed,
       TryCandidate, SelectTemplate, MatchProvider, ListTargets, TryTarget, ValidateOp,
       PersistKey, PersistVersion, DeleteKey, Write, Check, Proceed, Refuse, End
  <2> QED
    BY <1>2, <2>1
<1>4. ASSUME NEW r \in Requests, NEW s \in Specs, Begin(r, s)
      PROVE  PossibleDocs'
  <2>1. UNCHANGED policies /\ inForce' = [inForce EXCEPT ![r] = {<<p, policies[p]>> : p \in PolicyNames}]
    BY <1>4 DEF Begin
  <2>2. \A e \in {<<p, policies[p]>> : p \in PolicyNames} : e[2] \in Possible(e[1])
    BY DEF PossibleDocs
  <2> QED
    BY <1>1, <2>1, <2>2 DEF PossibleDocs
<1>5. ASSUME NEW p \in PolicyNames, NEW d \in PolicyEdits, PutPolicy(p, d)
      PROVE  PossibleDocs'
  <2>1. /\ policies' = [policies EXCEPT ![p] = d]
        /\ d \in Possible(p)
        /\ \A r \in Requests : inForce'[r] \subseteq inForce[r] \union {<<p, d>>}
    BY <1>5 DEF PutPolicy, Possible
  <2> QED
    BY <1>1, <2>1 DEF PossibleDocs
<1>6. ASSUME UNCHANGED <<policies, inForce>>
      PROVE  PossibleDocs'
  BY <1>6 DEF PossibleDocs
<1>7. CASE Environment
  BY <1>5, <1>6, <1>7 DEF Environment, RegisterBackend, RemoveBackend
<1>8. CASE UNCHANGED vars
  BY <1>6, <1>8 DEF vars
<1> QED
  BY <1>3, <1>4, <1>7, <1>8 DEF Next

(* What is written under a strict policy is of approved lineage.            *)
LEMMA StrictWrite ==
    ASSUME IInv, PInv, PossibleDocs, NEW r \in Requests, At(r, "persist"),
           AlwaysStrict(req[r].policy)
    PROVE  req[r].new.approved
<1>1. PICK q : q = req[r]
  OBVIOUS
<1>2. /\ q.pc = "persist"
      /\ q.spec \in RequestSpec
      /\ Ruled(q, inForce[r])
  BY <1>1, RuledRequest DEF Labels
<1>3. PICK d \in Docs(q, inForce[r]) : q.custody = Custody(q, d)
  BY <1>2 DEF Ruled, CustodyRead
<1>4. d \in PolicyDocs \intersect Possible(q.policy)
  BY <1>3 DEF Docs, PossibleDocs
<1>5. Rules[d].requires.approved
  BY <1>1, <1>4 DEF AlwaysStrict, Possible
<1> QED
  BY <1>1, <1>2, <1>3, <1>4, <1>5, CustodyMeets DEF Ruled

LEMMA StrictStep ==
    ASSUME IInv, PInv, StrictInv, [Next]_vars
    PROVE  StrictPolicyKeepsLineage'
<1>1. /\ keys \in [KeyIds -> Key]
      /\ PossibleDocs
      /\ StrictPolicyKeepsLineage
  BY DEF StrictInv, IInv, TypeOK, KeysTypeOK
<1>2. ASSUME UNCHANGED keys
      PROVE  StrictPolicyKeepsLineage'
  BY <1>1, <1>2 DEF StrictPolicyKeepsLineage, AlwaysStrict
<1>3. ASSUME NEW k \in KeyIds, NEW key, keys' = [keys EXCEPT ![k] = key],
             key.status = "live" /\ AlwaysStrict(key.policy) =>
                \A i \in DOMAIN key.versions : key.versions[i].approved
      PROVE  StrictPolicyKeepsLineage'
  BY <1>1, <1>3 DEF StrictPolicyKeepsLineage, AlwaysStrict
<1>4. ASSUME NEW r \in Requests, PersistKey(r)
      PROVE  StrictPolicyKeepsLineage'
  <2>1. CASE Refuse(r)
    BY <1>2, <2>1 DEF Refuse
  <2>2. CASE ~Refuse(r)
    <3>1. PICK q : q = req[r]
      OBVIOUS
    <3>2. PICK key : key = [status |-> "live", name |-> q.spec.name, policy |-> q.policy,
                            versions |-> <<q.new>>]
      OBVIOUS
    <3>3. PICK k \in KeyIds : keys' = [keys EXCEPT ![k] = key]
      BY <1>4, <2>2, <3>1, <3>2 DEF PersistKey, Write
    <3>4. /\ key.policy = q.policy
          /\ key.versions = <<q.new>>
      BY <3>2
    <3>5. AlwaysStrict(key.policy) => \A i \in DOMAIN key.versions : key.versions[i].approved
      BY <1>1, <1>4, <3>1, <3>4, StrictWrite DEF PersistKey
    <3> QED
      BY <1>3, <3>3, <3>5
  <2> QED
    BY <2>1, <2>2
<1>5. ASSUME NEW r \in Requests, PersistVersion(r)
      PROVE  StrictPolicyKeepsLineage'
  <2>1. CASE Refuse(r)
    BY <1>2, <2>1 DEF Refuse
  <2>2. CASE ~Refuse(r)
    <3>1. PICK q : q = req[r]
      OBVIOUS
    <3>2. Remembers(q) /\ q.new \in KeyVersion
      <4>1. /\ q.pc = "persist"
            /\ q.spec.op # "create"
            /\ StageOK(q)
            /\ Located(q) => Remembers(q)
        BY <1>5, <3>1, ActiveRequest DEF PersistVersion, Labels
      <4> QED
        BY <4>1 DEF Located, StageOK, Built
    <3>3. PICK k \in KeyIds : k = q.key
      BY <3>2 DEF Remembers
    <3>4. PICK old \in Key : old = keys[k]
      BY <1>1
    <3>5. PICK key : key = [old EXCEPT !.versions = Append(old.versions, q.new)]
      OBVIOUS
    <3>6. old.status = "live" /\ keys' = [keys EXCEPT ![k] = key]
      BY <1>5, <2>2, <3>1, <3>3, <3>4, <3>5 DEF PersistVersion, Write
    <3>7. /\ key.policy = old.policy
          /\ key.versions = Append(old.versions, q.new)
          /\ old.versions \in Seq(KeyVersion)
      BY <3>4, <3>5 DEF Key
    <3>8. q.policy = old.policy
      BY <3>2, <3>3, <3>4, <3>6 DEF Remembers
    <3>9. ASSUME AlwaysStrict(key.policy), NEW i \in DOMAIN key.versions
          PROVE  key.versions[i].approved
      <4>1. q.new.approved
        BY <1>1, <1>5, <3>1, <3>7, <3>8, <3>9, StrictWrite DEF PersistVersion
      <4>2. PICK vs \in Seq(KeyVersion) : vs = old.versions
        BY <3>7
      <4>3. \A j \in 1..Len(vs) : vs[j].approved
        BY <1>1, <3>4, <3>6, <3>7, <3>9, <4>2 DEF StrictPolicyKeepsLineage
      <4>4. i \in 1..(Len(vs) + 1) /\ key.versions = Append(vs, q.new)
        BY <3>2, <3>7, <3>9, <4>2
      <4>5. CASE i = Len(vs) + 1
        BY <3>2, <4>1, <4>4, <4>5
      <4>6. CASE i # Len(vs) + 1
        <5>1. i \in 1..Len(vs)
          BY <4>4, <4>6
        <5> QED
          BY <3>2, <4>3, <4>4, <5>1
      <4> QED
        BY <4>5, <4>6
    <3> QED
      BY <1>3, <3>6, <3>9
  <2> QED
    BY <2>1, <2>2
<1>6. ASSUME NEW r \in Requests, DeleteKey(r)
      PROVE  StrictPolicyKeepsLineage'
  <2>1. CASE Refuse(r)
    BY <1>2, <2>1 DEF Refuse
  <2>2. CASE ~Refuse(r)
    <3>1. \E k \in KeyIds, key \in Key : KeyDeleted(k)
      BY <1>6, <2>2, DeleteKeyWrites
    <3>2. NoKey("deleted").status # "live"
      BY DEF NoKey
    <3> QED
      BY <1>3, <3>1, <3>2 DEF KeyDeleted
  <2> QED
    BY <2>1, <2>2
<1>7. ASSUME NEW r \in Requests,
             \/ GetKey(r) \/ GetVersion(r) \/ GetSource(r) \/ ReadRequirements(r)
             \/ ReadAllowed(r) \/ TryCandidate(r) \/ SelectTemplate(r)
             \/ MatchProvider(r) \/ ListTargets(r) \/ TryTarget(r) \/ ValidateOp(r)
      PROVE  UNCHANGED keys
  BY <1>7 DEF GetKey, GetVersion, GetSource, ReadRequirements, ReadAllowed, TryCandidate,
              SelectTemplate, MatchProvider, ListTargets, TryTarget, ValidateOp,
              Check, Proceed, Refuse
<1>8. ASSUME NEW r \in Requests, Step(r)
      PROVE  StrictPolicyKeepsLineage'
  BY <1>2, <1>4, <1>5, <1>6, <1>7, <1>8 DEF Step
<1>9. ASSUME \/ \E r \in Requests, s \in Specs : Begin(r, s)
             \/ \E r \in Requests : DependencyError(r)
             \/ Environment
             \/ UNCHANGED vars
      PROVE  UNCHANGED keys
  BY <1>9 DEF Begin, DependencyError, Refuse, Environment, PutPolicy, RegisterBackend,
              RemoveBackend, vars
<1> QED
  BY <1>2, <1>8, <1>9 DEF Next

(* Under a policy none of whose documents ever drops the requirement of     *)
(* approved generation, no key ever has a version of another lineage.       *)
THEOREM StrictPolicyHolds == Spec => []StrictPolicyKeepsLineage
<1>1. Init => StrictInv
  <2> SUFFICES ASSUME Init PROVE StrictInv
    OBVIOUS
  <2>1. PossibleDocs
    BY DEF Init, PossibleDocs, Possible
  <2>2. \A k \in KeyIds : keys[k].status # "live"
    BY DEF Init, KeysInit, NoKey
  <2> QED
    BY <2>1, <2>2 DEF StrictInv, StrictPolicyKeepsLineage
<1>2. IInv /\ PInv /\ StrictInv /\ [Next]_vars => StrictInv'
  BY PossibleStep, StrictStep DEF StrictInv
<1>3. StrictInv => StrictPolicyKeepsLineage
  BY DEF StrictInv
<1> QED
  BY <1>1, <1>2, <1>3, Invariant, PolicyInvariant, PTL DEF Spec

-----------------------------------------------------------------------------
(* A migration on its way to the write: which labels it passes, and that it *)
(* stays the migration of one key that was asked for.                       *)

Loading  == {"getKey", "getVersion", "getSource"}
Checking == {"requirements", "match", "list", "search", "validate", "persist"}

Follows(q, next) ==
    /\ next.spec = q.spec
    /\ q.pc # "getKey" => next.key = q.key
    /\ q.pc = "getKey" => next.pc = "getVersion"
    /\ q.pc = "getVersion" => next.pc = "getSource"
    /\ q.pc = "getSource" => next.pc = "requirements"
    /\ q.pc \notin Loading => next.pc \in Checking \ {"requirements"}

LEMMA LoadingMoves ==
    ASSUME IInv, NEW r \in Requests, GetKey(r) \/ GetVersion(r) \/ GetSource(r),
           NEW q, q = req[r], q.spec.op = "migrate"
    PROVE  Refuse(r) \/ \E next : Proceed(r, next) /\ Follows(q, next)
<1>1. q \in Request
  BY ActiveRequest DEF GetKey, GetVersion, GetSource, Labels
<1>2. CASE GetKey(r)
  <2>1. q.pc = "getKey"
    BY <1>2 DEF GetKey, At
  <2>2. ASSUME NEW k, NEW next,
               next = [q EXCEPT !.pc     = IF q.spec.op = "delete" THEN "delete" ELSE "getVersion",
                                !.key    = k,
                                !.policy = keys[k].policy,
                                !.at     = Len(keys[k].versions)]
        PROVE  Follows(q, next)
    BY <1>1, <2>1, <2>2 DEF Request, Follows, Loading
  <2> QED
    BY <1>2, <2>2 DEF GetKey
<1>3. CASE GetVersion(r)
  <2>1. q.pc = "getVersion"
    BY <1>3 DEF GetVersion, At
  <2>2. ASSUME NEW last, NEW next,
               next = [q EXCEPT !.pc   = IF q.spec.op = "migrate" THEN "getSource" ELSE "requirements",
                                !.last = last]
        PROVE  Follows(q, next)
    BY <1>1, <2>1, <2>2 DEF Request, Follows, Loading
  <2> QED
    BY <1>3, <2>2 DEF GetVersion, Check
<1>4. CASE GetSource(r)
  <2>1. q.pc = "getSource"
    BY <1>4 DEF GetSource, At
  <2>2. ASSUME NEW b, NEW next, next = [q EXCEPT !.pc = "requirements", !.source = b]
        PROVE  Follows(q, next)
    BY <1>1, <2>1, <2>2 DEF Request, Follows, Loading
  <2> QED
    BY <1>4, <2>2 DEF GetSource
<1> QED
  BY <1>2, <1>3, <1>4

LEMMA CheckingMoves ==
    ASSUME IInv, NEW r \in Requests,
           \/ ReadRequirements(r) \/ MatchProvider(r)
           \/ ListTargets(r) \/ TryTarget(r) \/ ValidateOp(r),
           NEW q, q = req[r], q.spec.op = "migrate"
    PROVE  Refuse(r) \/ \E next : Proceed(r, next) /\ Follows(q, next)
<1>1. q \in Request
  BY ActiveRequest DEF ReadRequirements, MatchProvider, ListTargets, TryTarget, ValidateOp, Labels
<1>2. CASE ReadRequirements(r)
  <2>1. q.pc = "requirements"
    BY <1>2 DEF ReadRequirements, At
  <2>2. ASSUME NEW c, NEW next,
               next = [[q EXCEPT !.custody = c] EXCEPT
                          !.template = q.last.template,
                          !.pc = IF q.spec.type = NoType THEN "match" ELSE "list"]
        PROVE  Follows(q, next)
    BY <1>1, <2>1, <2>2 DEF Request, Follows, Loading, Checking
  <2> QED
    BY <1>2, <2>2 DEF ReadRequirements, Check
<1>3. CASE MatchProvider(r)
  <2>1. q.pc = "match"
    BY <1>3 DEF MatchProvider, At
  <2>2. ASSUME NEW b, NEW next, next = [q EXCEPT !.target = b, !.pc = "validate"]
        PROVE  Follows(q, next)
    BY <1>1, <2>1, <2>2 DEF Request, Follows, Loading, Checking
  <2> QED
    BY <1>3, <2>2 DEF MatchProvider
<1>4. CASE ListTargets(r)
  <2>1. q.pc = "list"
    BY <1>4 DEF ListTargets, At
  <2>2. ASSUME NEW next, next = [q EXCEPT !.pc = "search", !.listing = registry]
        PROVE  Follows(q, next)
    BY <1>1, <2>1, <2>2 DEF Request, Follows, Loading, Checking
  <2> QED
    BY <1>4, <2>2 DEF ListTargets
<1>5. CASE TryTarget(r)
  <2>1. q.pc = "search"
    BY <1>5 DEF TryTarget, At
  <2>2. ASSUME NEW b, NEW next, next = [q EXCEPT !.target = b, !.pc = "validate"]
        PROVE  Follows(q, next)
    BY <1>1, <2>1, <2>2 DEF Request, Follows, Loading, Checking
  <2>3. ASSUME NEW i, NEW next, next = [q EXCEPT !.tried = q.tried \union {i}]
        PROVE  Follows(q, next)
    BY <1>1, <2>1, <2>3 DEF Request, Follows, Loading, Checking
  <2> QED
    BY <1>5, <2>2, <2>3 DEF TryTarget
<1>6. CASE ValidateOp(r)
  <2>1. q.pc = "validate"
    BY <1>6 DEF ValidateOp, At
  <2>2. ASSUME NEW v, NEW next, next = WithVersion(q, v)
        PROVE  Follows(q, next)
    BY <1>1, <2>1, <2>2 DEF Request, Follows, Loading, Checking, WithVersion
  <2> QED
    BY <1>6, <2>2 DEF ValidateOp, Check
<1> QED
  BY <1>2, <1>3, <1>4, <1>5, <1>6

(* No step of a request touches the registry, a policy or another request.  *)
StepsAlone(r) ==
    /\ UNCHANGED <<registry, policies>>
    /\ \E next : req' = [req EXCEPT ![r] = next]

LEMMA StepAlone ==
    ASSUME NEW r \in Requests, Step(r)
    PROVE  StepsAlone(r)
<1>1. \A next, ok : Proceed(r, next) \/ Refuse(r) \/ Check(r, ok, next) => StepsAlone(r)
  BY DEF Proceed, Refuse, End, Check, StepsAlone
<1>2. \A k, key : Write(r, k, key) => StepsAlone(r)
  BY DEF Write, End, StepsAlone
<1>3. CASE GetKey(r)            BY <1>1, <1>3 DEF GetKey
<1>4. CASE GetVersion(r)        BY <1>1, <1>4 DEF GetVersion
<1>5. CASE GetSource(r)         BY <1>1, <1>5 DEF GetSource
<1>6. CASE ReadRequirements(r)  BY <1>1, <1>6 DEF ReadRequirements
<1>7. CASE ReadAllowed(r)       BY <1>1, <1>7 DEF ReadAllowed
<1>8. CASE TryCandidate(r)      BY <1>1, <1>8 DEF TryCandidate
<1>9. CASE SelectTemplate(r)    BY <1>1, <1>9 DEF SelectTemplate
<1>10. CASE MatchProvider(r)    BY <1>1, <1>10 DEF MatchProvider
<1>11. CASE ListTargets(r)      BY <1>1, <1>11 DEF ListTargets
<1>12. CASE TryTarget(r)        BY <1>1, <1>12 DEF TryTarget
<1>13. CASE ValidateOp(r)       BY <1>1, <1>13 DEF ValidateOp
<1>14. CASE PersistKey(r)       BY <1>1, <1>2, <1>14 DEF PersistKey
<1>15. CASE PersistVersion(r)   BY <1>1, <1>2, <1>15 DEF PersistVersion
<1>16. CASE DeleteKey(r)        BY <1>1, <1>2, <1>16 DEF DeleteKey
<1> QED
  BY <1>3, <1>4, <1>5, <1>6, <1>7, <1>8, <1>9, <1>10, <1>11, <1>12, <1>13, <1>14, <1>15, <1>16
  DEF Step

-----------------------------------------------------------------------------
(* What becomes of a migration while keys, registry and policies stay as    *)
(* they are.  They decide it: from what the request has loaded and the      *)
(* custody c read from its policy follows the target it is led to (Fate),   *)
(* or that there is none (Blocked).                                         *)

(* The checks on the source and on the lineage. *)
Passes(q, c) ==
    /\ q.spec.instance # q.last.provider
    /\ TransfersMaterial(q.spec.strategy) => KeepsLineage(c, q.last)
    /\ SourceFeasible(q.spec.strategy, q.source, q.last)

(* The instance n, if it can be the target, *)
Found(q, c, n) ==
    {b \in MatchPinned(registry, n, c, q.last.template) :
        TargetFeasible(q.spec.strategy, q.source, b, q.last)}

(* the positions of the instances of the wanted type and what is found there. *)
Wanted(q) ==
    {i \in DOMAIN registry :
        Desc[registry[i]].type = q.spec.type /\ Desc[registry[i]].name # q.last.provider}

FoundAt(q, c, i) == Found(q, c, Desc[registry[i]].name)

(* The target: the named instance, or the best ranked that can be it. *)
Leads(q, c, b) ==
    IF q.spec.type = NoType
    THEN b \in Found(q, c, q.spec.instance)
    ELSE \E i \in Wanted(q) :
           /\ b \in FoundAt(q, c, i)
           /\ \A j \in Wanted(q) \ {i} :
                RanksBefore(registry, c, q.last.template, i, j) \/ FoundAt(q, c, j) = {}

Hopeless(q, c) ==
    IF q.spec.type = NoType THEN Found(q, c, q.spec.instance) = {}
    ELSE \A i \in Wanted(q) : FoundAt(q, c, i) = {}

Fate(q) ==
    {b \in Backends : \E d \in Consulted(q) :
        /\ Passes(q, Custody(q, d))
        /\ Permits(d, "create_key", q.last.template)
        /\ Leads(q, Custody(q, d), b)}

Blocked(q) ==
    \A d \in Consulted(q) :
        \/ ~Passes(q, Custody(q, d))
        \/ ~Permits(d, "create_key", q.last.template)
        \/ Hopeless(q, Custody(q, d))

(* What the request has loaded is what is there to be loaded. *)
Current(q) ==
    LET k == keys[q.key] IN
    /\ q.pc # "getKey" =>
         /\ q.key \in KeyIds
         /\ k.status = "live"
         /\ k.name = q.spec.name
         /\ k.policy = q.policy
         /\ q.at = Len(k.versions)
    /\ q.pc \notin {"getKey", "getVersion"} => q.last = k.versions[q.at]
    /\ q.pc \notin Loading =>
         LET here == Registered(registry, q.last.provider) IN
         IF here = {} THEN q.source = NoBackend ELSE q.source \in here

(* What the request has made of it is what its fate depends on. *)
Undisturbed(q) ==
    /\ Current(q)
    /\ q.pc \in Checking \ {"requirements"} =>
         /\ \E d \in Consulted(q) : q.custody = Custody(q, d)
         /\ Passes(q, q.custody)
         /\ q.template = q.last.template
    /\ q.pc = "match" => q.spec.type = NoType
    /\ q.pc \in {"list", "search"} => q.spec.type # NoType
    /\ q.pc \in Loading \union {"requirements", "list"} => q.tried = {}
    /\ q.pc = "search" =>
         /\ q.listing = registry
         /\ \A i \in q.tried \intersect Wanted(q) : FoundAt(q, q.custody, i) = {}
    /\ q.pc \in {"validate", "persist"} => Leads(q, q.custody, q.target)
    /\ q.pc = "persist" => \E d \in Consulted(q) : Permits(d, "create_key", q.template)
(* Fates depend on the registry and the policies, and of the request on ... *)
Alike(q, p) ==
    /\ q.spec = p.spec
    /\ q.policy = p.policy
    /\ q.last = p.last
    /\ q.source = p.source

LEMMA AlikeFates ==
    ASSUME NEW q, NEW p, Alike(q, p)
    PROVE  Fate(q) = Fate(p) /\ (Blocked(q) <=> Blocked(p))
<1>1. \A c : Passes(q, c) <=> Passes(p, c)
  BY DEF Alike, Passes
<1>2. \A c, n : Found(q, c, n) = Found(p, c, n)
  BY DEF Alike, Found
<1>3. /\ Wanted(q) = Wanted(p)
      /\ \A c, i : FoundAt(q, c, i) = FoundAt(p, c, i)
  BY <1>2 DEF Alike, Wanted, FoundAt
<1>4. \A c, b : Leads(q, c, b) <=> Leads(p, c, b)
  BY <1>2, <1>3 DEF Alike, Leads
<1>5. \A c : Hopeless(q, c) <=> Hopeless(p, c)
  BY <1>2, <1>3 DEF Alike, Hopeless
<1>6. /\ Consulted(q) = Consulted(p)
      /\ \A d : Custody(q, d) = Custody(p, d)
  BY DEF Alike, Consulted, Custody
<1> QED
  BY <1>1, <1>4, <1>5, <1>6 DEF Alike, Fate, Blocked

LEMMA OneRegistered ==
    ASSUME Distinct(registry), NEW n, NEW a \in Registered(registry, n), NEW b \in Registered(registry, n)
    PROVE  a = b
BY DEF Distinct, Registered

LEMMA OneFound ==
    ASSUME Distinct(registry), NEW q, NEW c, NEW n, NEW a \in Found(q, c, n), NEW b \in Found(q, c, n)
    PROVE  a = b /\ a \in Backends
BY OneRegistered DEF Found, MatchPinned, Registered

(* Of two positions one ranks before the other, and only one.               *)
LEMMA RankIsAsymmetric ==
    ASSUME NEW c, NEW t, NEW i \in Int, NEW j \in Int, RanksBefore(registry, c, t, i, j)
    PROVE  ~RanksBefore(registry, c, t, j, i)
<1>1. \A b : RankGroup(b, c, t) \in {1, 2, 3}
  BY DEF RankGroup
<1>2. PICK m, n : /\ m = RankGroup(registry[i], c, t)
                  /\ n = RankGroup(registry[j], c, t)
  OBVIOUS
<1>3. m \in {1, 2, 3} /\ n \in {1, 2, 3}
  BY <1>1, <1>2
<1>4. m < n \/ (m = n /\ i < j)
  BY <1>2 DEF RanksBefore
<1>5. ~(n < m \/ (n = m /\ j < i))
  BY <1>3, <1>4
<1> QED
  BY <1>2, <1>5 DEF RanksBefore

LEMMA OneTarget ==
    ASSUME Distinct(registry), registry \in Seq(Backends),
           NEW q, NEW c, NEW a, Leads(q, c, a), NEW b, Leads(q, c, b)
    PROVE  a = b /\ a \in Backends /\ ~Hopeless(q, c)
<1>1. CASE q.spec.type = NoType
  BY <1>1, OneFound DEF Leads, Hopeless
<1>2. CASE q.spec.type # NoType
  <2>1. PICK i \in Wanted(q) :
           /\ a \in FoundAt(q, c, i)
           /\ \A j \in Wanted(q) \ {i} :
                RanksBefore(registry, c, q.last.template, i, j) \/ FoundAt(q, c, j) = {}
    BY <1>2 DEF Leads
  <2>2. PICK j \in Wanted(q) :
           /\ b \in FoundAt(q, c, j)
           /\ \A k \in Wanted(q) \ {j} :
                RanksBefore(registry, c, q.last.template, j, k) \/ FoundAt(q, c, k) = {}
    BY <1>2 DEF Leads
  <2>3. i \in Int /\ j \in Int
    BY DEF Wanted
  <2>4. i = j
    BY <2>1, <2>2, <2>3, RankIsAsymmetric
  <2>5. PICK n : n = Desc[registry[i]].name
    OBVIOUS
  <2>6. a \in Found(q, c, n) /\ b \in Found(q, c, n)
    BY <2>1, <2>2, <2>4, <2>5 DEF FoundAt
  <2>7. a = b /\ a \in Backends
    BY <2>6, OneFound
  <2> QED
    BY <1>2, <2>1, <2>7 DEF Hopeless
<1> QED
  BY <1>1, <1>2

(* A migration has at most one fate, and none when it is blocked.           *)
LEMMA OneFate ==
    ASSUME Distinct(registry), registry \in Seq(Backends), NEW q
    PROVE  /\ \A a, b \in Fate(q) : a = b
           /\ Blocked(q) => Fate(q) = {}
<1>1. \A d, e \in Consulted(q) : d = e
  BY DEF Consulted
<1>2. \A a, b \in Fate(q) : a = b
  BY <1>1, OneTarget DEF Fate
<1>3. Blocked(q) => Fate(q) = {}
  BY OneTarget DEF Fate, Blocked
<1> QED
  BY <1>2, <1>3

(* Two requests that are to do the same to the same key have one fate.      *)
LEMMA SameKeySameFate ==
    ASSUME Distinct(registry), NEW q, NEW p, Current(q), Current(p),
           q.pc \notin Loading, p.pc \notin Loading, q.spec = p.spec, q.key = p.key
    PROVE  Alike(q, p)
<1>1. q.policy = p.policy /\ q.last = p.last
  BY DEF Current, Loading
<1>2. q.source = p.source
  BY <1>1, OneRegistered DEF Current, Loading
<1> QED
  BY <1>1, <1>2 DEF Alike

-----------------------------------------------------------------------------
(* Undisturbed, a migration keeps to its fate: a step proceeds to a request *)
(* that is undisturbed again, or is the refusal the fate tells of.          *)

LEMMA UndisturbedStays ==
    ASSUME UNCHANGED <<keys, registry, policies>>, NEW q
    PROVE  /\ Undisturbed(q)' <=> Undisturbed(q)
           /\ Fate(q)' = Fate(q)
           /\ Blocked(q)' <=> Blocked(q)
<1>1. Consulted(q)' = Consulted(q)
  BY DEF Consulted
<1>2. /\ \A c, n : Found(q, c, n)' = Found(q, c, n)
      /\ Wanted(q)' = Wanted(q)
  BY DEF Found, Wanted
<1>3. \A c, i : FoundAt(q, c, i)' = FoundAt(q, c, i)
  BY <1>2 DEF FoundAt
<1>4. \A c, b : Leads(q, c, b)' <=> Leads(q, c, b)
  BY <1>2, <1>3 DEF Leads
<1>5. \A c : Hopeless(q, c)' <=> Hopeless(q, c)
  BY <1>2, <1>3 DEF Hopeless
<1>6. Current(q)' <=> Current(q)
  BY DEF Current
<1>7. Undisturbed(q)' <=> Undisturbed(q)
  BY <1>1, <1>2, <1>3, <1>4, <1>6 DEF Undisturbed
<1> QED
  BY <1>1, <1>4, <1>5, <1>7 DEF Fate, Blocked

Advances(r, q) ==
    \E next : /\ Proceed(r, next)
              /\ Follows(q, next)
              /\ Undisturbed(next)
              /\ q.pc \notin Loading => Alike(q, next)

LEMMA UndisturbedGetKey ==
    ASSUME IInv, NEW r \in Requests, GetKey(r), NEW q, q = req[r], q.spec.op = "migrate",
           Undisturbed(q)
    PROVE  \/ Advances(r, q)
           \/ /\ Refuse(r)
              /\ \A k \in KeyIds : ~(keys[k].status = "live" /\ keys[k].name = q.spec.name)
<1>1. q \in Request /\ q.pc = "getKey"
  BY ActiveRequest DEF GetKey, Labels, At
<1>2. ASSUME NEW k \in KeyIds, keys[k].status = "live", keys[k].name = q.spec.name, NEW next,
             next = [q EXCEPT !.pc     = IF q.spec.op = "delete" THEN "delete" ELSE "getVersion",
                              !.key    = k,
                              !.policy = keys[k].policy,
                              !.at     = Len(keys[k].versions)],
             Proceed(r, next)
      PROVE  Advances(r, q)
  <2>1. /\ next.pc = "getVersion"
        /\ next.spec = q.spec
        /\ next.key = k
        /\ next.policy = keys[k].policy
        /\ next.at = Len(keys[k].versions)
        /\ next.tried = q.tried
    BY <1>1, <1>2 DEF Request
  <2>2. Undisturbed(next)
    BY <1>1, <1>2, <2>1 DEF Undisturbed, Current, Loading, Checking
  <2>3. Follows(q, next)
    BY <1>1, <2>1 DEF Follows, Loading
  <2> QED
    BY <1>1, <1>2, <2>2, <2>3 DEF Advances, Loading
<1> QED
  BY <1>2 DEF GetKey

LEMMA UndisturbedGetVersion ==
    ASSUME IInv, NEW r \in Requests, GetVersion(r), NEW q, q = req[r], q.spec.op = "migrate",
           Undisturbed(q)
    PROVE  Advances(r, q)
<1>1. q \in Request /\ q.pc = "getVersion"
  BY ActiveRequest DEF GetVersion, Labels, At
<1>2. PICK next : /\ next = [q EXCEPT !.pc   = IF q.spec.op = "migrate" THEN "getSource" ELSE "requirements",
                                      !.last = keys[q.key].versions[q.at]]
                  /\ Proceed(r, next)
  BY <1>1 DEF GetVersion, Check, Undisturbed, Current
<1>3. /\ next.pc = "getSource"
      /\ next.spec = q.spec
      /\ next.key = q.key
      /\ next.policy = q.policy
      /\ next.at = q.at
      /\ next.last = keys[q.key].versions[q.at]
      /\ next.tried = q.tried
  BY <1>1, <1>2 DEF Request
<1>4. Undisturbed(next)
  BY <1>1, <1>3 DEF Undisturbed, Current, Loading, Checking
<1>5. Follows(q, next)
  BY <1>1, <1>3 DEF Follows, Loading
<1> QED
  BY <1>1, <1>2, <1>4, <1>5 DEF Advances, Loading

LEMMA UndisturbedGetSource ==
    ASSUME IInv, NEW r \in Requests, GetSource(r), NEW q, q = req[r], q.spec.op = "migrate",
           Undisturbed(q)
    PROVE  Advances(r, q)
<1>1. q \in Request /\ q.pc = "getSource"
  BY ActiveRequest DEF GetSource, Labels, At
<1>2. PICK here : here = Registered(registry, q.last.provider)
  OBVIOUS
<1>3. PICK b \in (IF here = {} THEN {NoBackend} ELSE here) :
         Proceed(r, [q EXCEPT !.pc = "requirements", !.source = b])
  BY <1>2 DEF GetSource
<1>4. PICK next : next = [q EXCEPT !.pc = "requirements", !.source = b]
  OBVIOUS
<1>5. /\ next.pc = "requirements"
      /\ next.spec = q.spec
      /\ next.key = q.key
      /\ next.policy = q.policy
      /\ next.at = q.at
      /\ next.last = q.last
      /\ next.source = b
      /\ next.tried = q.tried
  BY <1>1, <1>4 DEF Request
<1>6. Undisturbed(next)
  BY <1>1, <1>2, <1>3, <1>5 DEF Undisturbed, Current, Loading, Checking
<1>7. Follows(q, next)
  BY <1>1, <1>5 DEF Follows, Loading
<1> QED
  BY <1>1, <1>3, <1>4, <1>6, <1>7 DEF Advances, Loading

(* A check keeps what has been loaded. *)
LEMMA StaysAlike ==
    ASSUME NEW q, NEW next, Current(q), q.pc \notin Loading, next.pc \notin Loading,
           next.spec = q.spec, next.key = q.key, next.policy = q.policy,
           next.at = q.at, next.last = q.last, next.source = q.source
    PROVE  Current(next) /\ Alike(q, next)
<1>1. Alike(q, next)
  BY DEF Alike
<1>2. q.pc # "getKey" /\ next.pc # "getKey" /\ q.pc # "getVersion" /\ next.pc # "getVersion"
  BY DEF Loading
<1> QED
  BY <1>1, <1>2 DEF Current

LEMMA UndisturbedReadRequirements ==
    ASSUME IInv, NEW r \in Requests, ReadRequirements(r), NEW q, q = req[r], q.spec.op = "migrate",
           Undisturbed(q)
    PROVE  Advances(r, q) \/ (Refuse(r) /\ Blocked(q))
<1>1. /\ q \in Request
      /\ q.pc = "requirements"
      /\ q.pc \notin Loading
      /\ Current(q)
  BY ActiveRequest DEF ReadRequirements, Labels, At, Loading, Undisturbed
<1>2. \A d, e \in Consulted(q) : d = e
  BY DEF Consulted
<1>3. CASE Consulted(q) = {}
  BY <1>3 DEF ReadRequirements, Blocked
<1>4. CASE Consulted(q) # {}
  <2>1. PICK d, custody :
           /\ d \in Consulted(q)
           /\ custody = Custody(q, d)
           /\ Check(r, Passes(q, custody),
                    [[q EXCEPT !.custody = custody] EXCEPT
                        !.template = q.last.template,
                        !.pc = IF q.spec.type = NoType THEN "match" ELSE "list"])
    BY <1>4 DEF ReadRequirements, Passes
  <2>2. CASE ~Passes(q, custody)
    BY <1>2, <2>1, <2>2 DEF Check, Blocked
  <2>3. CASE Passes(q, custody)
    <3>1. PICK next : /\ next = [[q EXCEPT !.custody = custody] EXCEPT
                                    !.template = q.last.template,
                                    !.pc = IF q.spec.type = NoType THEN "match" ELSE "list"]
                      /\ Proceed(r, next)
      BY <2>1, <2>3 DEF Check
    <3>2. /\ next.pc = (IF q.spec.type = NoType THEN "match" ELSE "list")
          /\ next.spec = q.spec
          /\ next.key = q.key
          /\ next.policy = q.policy
          /\ next.at = q.at
          /\ next.last = q.last
          /\ next.source = q.source
          /\ next.custody = custody
          /\ next.template = q.last.template
          /\ next.tried = q.tried
      BY <1>1, <3>1 DEF Request
    <3>3. Current(next) /\ Alike(q, next)
      BY <1>1, <3>2, StaysAlike DEF Loading
    <3>4. Passes(next, custody) /\ Consulted(next) = Consulted(q) /\ Custody(next, d) = custody
      BY <2>1, <2>3, <3>2 DEF Passes, Consulted, Custody
    <3>5. Undisturbed(next)
      BY <1>1, <2>1, <3>2, <3>3, <3>4 DEF Undisturbed, Checking, Loading
    <3>6. Follows(q, next)
      BY <1>1, <3>2 DEF Follows, Loading, Checking
    <3> QED
      BY <3>1, <3>3, <3>5, <3>6 DEF Advances
  <2> QED
    BY <2>2, <2>3
<1> QED
  BY <1>3, <1>4

(* A check that keeps the custody and the template too.                     *)
LEMMA StaysUndisturbed ==
    ASSUME NEW q, NEW next, Undisturbed(q),
           q.pc \in Checking \ {"requirements"}, next.pc \in Checking \ {"requirements"},
           next.spec = q.spec, next.key = q.key, next.policy = q.policy,
           next.at = q.at, next.last = q.last, next.source = q.source,
           next.custody = q.custody, next.template = q.template,
           next.pc # "match",
           next.pc = "search" =>
              /\ q.spec.type # NoType
              /\ next.listing = registry
              /\ \A i \in next.tried \intersect Wanted(q) : FoundAt(q, q.custody, i) = {},
           next.pc # "list",
           next.pc \in {"validate", "persist"} => Leads(q, q.custody, next.target),
           next.pc = "persist" => \E d \in Consulted(q) : Permits(d, "create_key", q.template)
    PROVE  Undisturbed(next) /\ Alike(q, next)
<1>1. Current(next) /\ Alike(q, next)
  BY StaysAlike DEF Undisturbed, Loading, Checking
<1>2. /\ Consulted(next) = Consulted(q)
      /\ \A d : Custody(next, d) = Custody(q, d)
      /\ \A c : Passes(next, c) <=> Passes(q, c)
      /\ Wanted(next) = Wanted(q)
  BY DEF Consulted, Custody, Passes, Wanted
<1>3. \A c, n : Found(next, c, n) = Found(q, c, n)
  BY DEF Found
<1>4. \A c, i : FoundAt(next, c, i) = FoundAt(q, c, i)
  BY <1>3 DEF FoundAt
<1>5. \A c, b : Leads(next, c, b) <=> Leads(q, c, b)
  BY <1>2, <1>3, <1>4 DEF Leads
<1> QED
  BY <1>1, <1>2, <1>4, <1>5 DEF Undisturbed, Loading, Checking

LEMMA UndisturbedMatchProvider ==
    ASSUME IInv, NEW r \in Requests, MatchProvider(r), NEW q, q = req[r], q.spec.op = "migrate",
           Undisturbed(q)
    PROVE  Advances(r, q) \/ (Refuse(r) /\ Blocked(q))
<1>1. /\ q \in Request
      /\ q.pc = "match"
      /\ q.spec.type = NoType
      /\ q.template = q.last.template
      /\ WellFormed(q.spec)
  BY ActiveRequest DEF MatchProvider, Labels, At, Undisturbed, Checking
<1>2. PICK found : found = Found(q, q.custody, q.spec.instance)
  OBVIOUS
<1>3. found = {b \in Match(registry, Pin(q), q.custody, q.template) :
                  TargetFeasible(q.spec.strategy, q.source, b, q.last)}
  <2>1. q.spec.instance # NoInstance
    BY <1>1 DEF WellFormed
  <2> QED
    BY <1>1, <1>2, <2>1 DEF Found, Match, Pin
<1>4. ASSUME NEW b \in found, NEW next, next = [q EXCEPT !.target = b, !.pc = "validate"], Proceed(r, next)
      PROVE  Advances(r, q)
  <2>1. /\ next.pc = "validate"
        /\ next.spec = q.spec
        /\ next.key = q.key
        /\ next.policy = q.policy
        /\ next.at = q.at
        /\ next.last = q.last
        /\ next.source = q.source
        /\ next.custody = q.custody
        /\ next.template = q.template
        /\ next.target = b
    BY <1>1, <1>4 DEF Request
  <2>2. Leads(q, q.custody, b)
    BY <1>1, <1>2 DEF Leads
  <2>3. Undisturbed(next) /\ Alike(q, next)
    BY <1>1, <2>1, <2>2, StaysUndisturbed DEF Checking
  <2>4. Follows(q, next)
    BY <1>1, <2>1 DEF Follows, Loading, Checking
  <2> QED
    BY <1>4, <2>3, <2>4 DEF Advances
<1>5. CASE found = {}
  <2>1. Hopeless(q, q.custody)
    BY <1>1, <1>2, <1>5 DEF Hopeless
  <2>2. \A d \in Consulted(q) : q.custody = Custody(q, d)
    BY <1>1 DEF Undisturbed, Checking, Consulted
  <2>3. Blocked(q)
    BY <2>1, <2>2 DEF Blocked
  <2> QED
    BY <1>3, <1>5, <2>3 DEF MatchProvider
<1> QED
  BY <1>3, <1>4, <1>5 DEF MatchProvider

LEMMA UndisturbedListTargets ==
    ASSUME IInv, NEW r \in Requests, ListTargets(r), NEW q, q = req[r], q.spec.op = "migrate",
           Undisturbed(q)
    PROVE  Advances(r, q)
<1>1. /\ q \in Request
      /\ q.pc = "list"
      /\ q.spec.type # NoType
      /\ q.tried = {}
  BY ActiveRequest DEF ListTargets, Labels, At, Undisturbed
<1>2. PICK next : next = [q EXCEPT !.pc = "search", !.listing = registry] /\ Proceed(r, next)
  BY DEF ListTargets
<1>3. /\ next.pc = "search"
      /\ next.spec = q.spec
      /\ next.key = q.key
      /\ next.policy = q.policy
      /\ next.at = q.at
      /\ next.last = q.last
      /\ next.source = q.source
      /\ next.custody = q.custody
      /\ next.template = q.template
      /\ next.listing = registry
      /\ next.tried = q.tried
  BY <1>1, <1>2 DEF Request
<1>4. Undisturbed(next) /\ Alike(q, next)
  BY <1>1, <1>3, StaysUndisturbed DEF Checking
<1>5. Follows(q, next)
  BY <1>1, <1>3 DEF Follows, Loading, Checking
<1> QED
  BY <1>2, <1>4, <1>5 DEF Advances

LEMMA UndisturbedTryTarget ==
    ASSUME IInv, NEW r \in Requests, TryTarget(r), NEW q, q = req[r], q.spec.op = "migrate",
           Undisturbed(q)
    PROVE  Advances(r, q) \/ (Refuse(r) /\ Blocked(q))
<1>1. /\ q \in Request
      /\ q.pc = "search"
      /\ q.spec.type # NoType
      /\ q.listing = registry
      /\ q.template = q.last.template
      /\ \A i \in q.tried \intersect Wanted(q) : FoundAt(q, q.custody, i) = {}
  BY ActiveRequest DEF TryTarget, Labels, At, Undisturbed, Checking
<1>2. Untried(q) = Wanted(q) \ q.tried
  BY <1>1 DEF Untried, Wanted
<1>3. \A i : FoundAt(q, q.custody, i) =
                {b \in MatchPinned(registry, Desc[q.listing[i]].name, q.custody, q.template) :
                    TargetFeasible(q.spec.strategy, q.source, b, q.last)}
  BY <1>1 DEF FoundAt, Found
<1>4. ASSUME NEW i \in Untried(q), NEW b \in FoundAt(q, q.custody, i),
             \A j \in Untried(q) \ {i} : RanksBefore(q.listing, q.custody, q.template, i, j),
             NEW next, next = [q EXCEPT !.target = b, !.pc = "validate"], Proceed(r, next)
      PROVE  Advances(r, q)
  <2>1. /\ next.pc = "validate"
        /\ next.spec = q.spec
        /\ next.key = q.key
        /\ next.policy = q.policy
        /\ next.at = q.at
        /\ next.last = q.last
        /\ next.source = q.source
        /\ next.custody = q.custody
        /\ next.template = q.template
        /\ next.target = b
    BY <1>1, <1>4 DEF Request
  <2>2. \A j \in Wanted(q) \ {i} :
           \/ RanksBefore(registry, q.custody, q.last.template, i, j)
           \/ FoundAt(q, q.custody, j) = {}
    BY <1>1, <1>2, <1>4
  <2>3. Leads(q, q.custody, b)
    BY <1>1, <1>2, <1>4, <2>2 DEF Leads
  <2>4. Undisturbed(next) /\ Alike(q, next)
    BY <1>1, <2>1, <2>3, StaysUndisturbed DEF Checking
  <2>5. Follows(q, next)
    BY <1>1, <2>1 DEF Follows, Loading, Checking
  <2> QED
    BY <1>4, <2>4, <2>5 DEF Advances
<1>5. ASSUME NEW i \in Untried(q), FoundAt(q, q.custody, i) = {},
             NEW next, next = [q EXCEPT !.tried = q.tried \union {i}], Proceed(r, next)
      PROVE  Advances(r, q)
  <2>1. /\ next.pc = "search"
        /\ next.spec = q.spec
        /\ next.key = q.key
        /\ next.policy = q.policy
        /\ next.at = q.at
        /\ next.last = q.last
        /\ next.source = q.source
        /\ next.custody = q.custody
        /\ next.template = q.template
        /\ next.listing = registry
        /\ next.tried = q.tried \union {i}
    BY <1>1, <1>5 DEF Request
  <2>2. \A j \in next.tried \intersect Wanted(q) : FoundAt(q, q.custody, j) = {}
    BY <1>1, <1>5, <2>1
  <2>3. Undisturbed(next) /\ Alike(q, next)
    BY <1>1, <2>1, <2>2, StaysUndisturbed DEF Checking
  <2>4. Follows(q, next)
    BY <1>1, <2>1 DEF Follows, Loading, Checking
  <2> QED
    BY <1>5, <2>3, <2>4 DEF Advances
<1>6. CASE Untried(q) = {} /\ Refuse(r)
  <2>1. Hopeless(q, q.custody)
    BY <1>1, <1>2, <1>6 DEF Hopeless
  <2>2. \A d \in Consulted(q) : q.custody = Custody(q, d)
    BY <1>1 DEF Undisturbed, Checking, Consulted
  <2> QED
    BY <1>6, <2>1, <2>2 DEF Blocked
<1> QED
  BY <1>3, <1>4, <1>5, <1>6 DEF TryTarget

LEMMA UndisturbedValidateOp ==
    ASSUME IInv, NEW r \in Requests, ValidateOp(r), NEW q, q = req[r], q.spec.op = "migrate",
           Undisturbed(q)
    PROVE  Advances(r, q) \/ (Refuse(r) /\ Blocked(q))
<1>1. /\ q \in Request
      /\ q.pc = "validate"
      /\ q.template = q.last.template
      /\ Leads(q, q.custody, q.target)
  BY ActiveRequest DEF ValidateOp, Labels, At, Undisturbed, Checking
<1>2. PICK new, allowed :
         /\ allowed \in BOOLEAN
         /\ new = NextVersion(q)
         /\ allowed = \E d \in Consulted(q) : Permits(d, "create_key", q.template)
  OBVIOUS
<1>3. Check(r, allowed, WithVersion(q, new))
  BY <1>2 DEF ValidateOp
<1>4. CASE allowed
  <2>1. PICK next : next = WithVersion(q, new) /\ Proceed(r, next)
    BY <1>3, <1>4 DEF Check
  <2>2. /\ next.pc = "persist"
        /\ next.spec = q.spec
        /\ next.key = q.key
        /\ next.policy = q.policy
        /\ next.at = q.at
        /\ next.last = q.last
        /\ next.source = q.source
        /\ next.custody = q.custody
        /\ next.template = q.template
        /\ next.target = q.target
    BY <1>1, <2>1 DEF Request, WithVersion
  <2>3. Undisturbed(next) /\ Alike(q, next)
    BY <1>1, <1>2, <1>4, <2>2, StaysUndisturbed DEF Checking
  <2>4. Follows(q, next)
    BY <1>1, <2>2 DEF Follows, Loading, Checking
  <2> QED
    BY <2>1, <2>3, <2>4 DEF Advances
<1>5. CASE ~allowed
  BY <1>1, <1>2, <1>3, <1>5 DEF Check, Blocked
<1> QED
  BY <1>2, <1>4, <1>5

(* The target a migration arrives at is its fate.                           *)
LEMMA ArrivesAtFate ==
    ASSUME NEW q, Undisturbed(q), q.pc = "persist", q.target \in Backends
    PROVE  q.target \in Fate(q)
<1>1. /\ \E d \in Consulted(q) : q.custody = Custody(q, d)
      /\ \E d \in Consulted(q) : Permits(d, "create_key", q.last.template)
      /\ Passes(q, q.custody)
      /\ Leads(q, q.custody, q.target)
  BY DEF Undisturbed, Checking
<1>2. \A d, e \in Consulted(q) : d = e
  BY DEF Consulted
<1> QED
  BY <1>1, <1>2 DEF Fate

LEMMA MigrationAdvances ==
    ASSUME IInv, NEW r \in Requests, Active(r), Step(r),
           NEW q, q = req[r], q.spec.op = "migrate", Undisturbed(q), q.pc # "persist"
    PROVE  \/ Advances(r, q)
           \/ /\ q.pc = "getKey"
              /\ Refuse(r)
              /\ \A k \in KeyIds : ~(keys[k].status = "live" /\ keys[k].name = q.spec.name)
           \/ q.pc \in Checking /\ Refuse(r) /\ Blocked(q)
<1>1. q.pc \in Loading \union Checking
  BY DEF IInv, StagesOK, StageOK, Stages, Loading, Checking
<1>2. CASE GetKey(r)
  BY <1>2, UndisturbedGetKey DEF GetKey, At
<1>3. CASE GetVersion(r) \/ GetSource(r) \/ ListTargets(r)
  BY <1>3, UndisturbedGetVersion, UndisturbedGetSource, UndisturbedListTargets
<1>4. CASE ReadRequirements(r) \/ MatchProvider(r) \/ TryTarget(r) \/ ValidateOp(r)
  <2>1. q.pc \in Checking
    BY <1>4 DEF ReadRequirements, MatchProvider, TryTarget, ValidateOp, At, Checking
  <2> QED
    BY <1>4, <2>1, UndisturbedReadRequirements, UndisturbedMatchProvider,
       UndisturbedTryTarget, UndisturbedValidateOp
<1>5. CASE ReadAllowed(r) \/ TryCandidate(r) \/ SelectTemplate(r) \/ DeleteKey(r)
  BY <1>1, <1>5 DEF ReadAllowed, TryCandidate, SelectTemplate, DeleteKey, At, Loading, Checking
<1>6. CASE PersistKey(r) \/ PersistVersion(r)
  BY <1>6 DEF PersistKey, PersistVersion, At
<1> QED
  BY <1>2, <1>3, <1>4, <1>5, <1>6 DEF Step

(* The course of a request, as far as its steps need it.                    *)
LEMMA CourseOfCreate ==
    /\ Later("create", "requirements", "allowed")
    /\ Later("create", "requirements", "validate")
    /\ Later("create", "allowed", "servable")
    /\ Later("create", "servable", "validate")
    /\ Later("create", "validate", "match")
    /\ Later("create", "match", "persist")
<1>1. /\ DOMAIN Course("create") = 1..6
      /\ Course("create")[1] = "requirements"
      /\ Course("create")[2] = "allowed"
      /\ Course("create")[3] = "servable"
      /\ Course("create")[4] = "validate"
      /\ Course("create")[5] = "match"
      /\ Course("create")[6] = "persist"
  BY DEF Course
<1> QED
  BY <1>1 DEF Later

LEMMA CourseOfOthers ==
    ASSUME NEW op, op # "create"
    PROVE  /\ Later(op, "getKey", "getVersion")
           /\ Later(op, "getKey", "delete")
           /\ Later(op, "getVersion", "getSource")
           /\ Later(op, "getVersion", "requirements")
           /\ Later(op, "getSource", "requirements")
           /\ Later(op, "requirements", "allowed")
           /\ Later(op, "requirements", "match")
           /\ Later(op, "requirements", "list")
           /\ Later(op, "allowed", "servable")
           /\ Later(op, "servable", "match")
           /\ Later(op, "match", "validate")
           /\ Later(op, "list", "search")
           /\ Later(op, "search", "validate")
           /\ Later(op, "validate", "persist")
<1>1. /\ DOMAIN Course(op) = 1..12
      /\ Course(op)[1] = "getKey"
      /\ Course(op)[2] = "getVersion"
      /\ Course(op)[3] = "getSource"
      /\ Course(op)[4] = "requirements"
      /\ Course(op)[5] = "allowed"
      /\ Course(op)[6] = "servable"
      /\ Course(op)[7] = "match"
      /\ Course(op)[8] = "list"
      /\ Course(op)[9] = "search"
      /\ Course(op)[10] = "validate"
      /\ Course(op)[11] = "persist"
      /\ Course(op)[12] = "delete"
  BY DEF Course
<1> QED
  BY <1>1 DEF Later

(* Where a step leaves a request in progress, it has moved on.              *)
MovesOn(r) == req'[r] # Idle => MovedOn(req[r], req'[r])

LEMMA StepMovesOn ==
    ASSUME IInv, NEW r \in Requests, Step(r)
    PROVE  MovesOn(r)
<1>1. PICK q : q = req[r]
  OBVIOUS
<1>2. /\ q \in Request
      /\ q.spec \in RequestSpec
      /\ q.pc \in Stages(q.spec.op)
      /\ req \in [Requests -> Request \union {Idle}]
  <2>1. Active(r)
    BY DEF Step, GetKey, GetVersion, GetSource, ReadRequirements, ReadAllowed, TryCandidate,
           SelectTemplate, MatchProvider, ListTargets, TryTarget, ValidateOp, PersistKey,
           PersistVersion, DeleteKey, At
  <2>2. q \in Request /\ req \in [Requests -> Request \union {Idle}]
    BY <1>1, <2>1 DEF IInv, TypeOK, Active
  <2>3. q.spec \in RequestSpec
    BY <2>2, OrchestratorAssumption DEF Request
  <2>4. StageOK(q)
    BY <1>1, <2>1 DEF IInv, StagesOK
  <2> QED
    BY <2>2, <2>3, <2>4 DEF StageOK
<1>3. /\ \A k, key : Write(r, k, key) => MovesOn(r)
      /\ Refuse(r) => MovesOn(r)
  BY <1>2 DEF Write, Refuse, End, MovesOn
<1>4. ASSUME NEW next, MovedOn(q, next), Proceed(r, next)
      PROVE  MovesOn(r)
  BY <1>1, <1>2, <1>4 DEF Proceed, MovesOn
<1>5. \A next : next.spec = q.spec /\ Later(q.spec.op, q.pc, next.pc) => MovedOn(q, next)
  BY DEF MovedOn
<1>6. ASSUME NEW next, next.spec = q.spec, Later(q.spec.op, q.pc, next.pc), Proceed(r, next)
      PROVE  MovesOn(r)
  BY <1>4, <1>5, <1>6
<1>7. \A t : /\ WithTemplate(q, t).spec = q.spec
             /\ WithTemplate(q, t).pc = IF q.spec.op = "create" THEN "validate" ELSE "match"
             /\ WithVersion(q, t).spec = q.spec
             /\ WithVersion(q, t).pc = "persist"
  BY <1>2 DEF Request, WithTemplate, WithVersion
<1>8. q.pc \in {"getKey", "getVersion", "getSource", "list", "search"} => q.spec.op # "create"
  BY <1>2 DEF Stages
<1>9. CASE GetKey(r)
  <2>1. q.pc = "getKey" /\ q.spec.op # "create"
    BY <1>1, <1>8, <1>9 DEF GetKey, At
  <2>2. ASSUME NEW k, NEW next,
               next = [q EXCEPT !.pc     = IF q.spec.op = "delete" THEN "delete" ELSE "getVersion",
                                !.key    = k,
                                !.policy = keys[k].policy,
                                !.at     = Len(keys[k].versions)],
               Proceed(r, next)
        PROVE  MovesOn(r)
    <3>1. next.spec = q.spec /\ next.pc \in {"getVersion", "delete"}
      BY <1>2, <2>2 DEF Request
    <3> QED
      BY <1>6, <2>1, <2>2, <3>1, CourseOfOthers
  <2> QED
    BY <1>1, <1>3, <1>9, <2>2 DEF GetKey
<1>10. CASE GetVersion(r)
  <2>1. q.pc = "getVersion" /\ q.spec.op # "create"
    BY <1>1, <1>8, <1>10 DEF GetVersion, At
  <2>2. ASSUME NEW v, NEW next,
               next = [q EXCEPT !.pc   = IF q.spec.op = "migrate" THEN "getSource" ELSE "requirements",
                                !.last = v],
               Proceed(r, next)
        PROVE  MovesOn(r)
    <3>1. next.spec = q.spec /\ next.pc \in {"getSource", "requirements"}
      BY <1>2, <2>2 DEF Request
    <3> QED
      BY <1>6, <2>1, <2>2, <3>1, CourseOfOthers
  <2> QED
    BY <1>1, <1>3, <1>10, <2>2 DEF GetVersion, Check
<1>11. CASE GetSource(r)
  <2>1. q.pc = "getSource" /\ q.spec.op # "create"
    BY <1>1, <1>8, <1>11 DEF GetSource, At
  <2>2. ASSUME NEW b, NEW next, next = [q EXCEPT !.pc = "requirements", !.source = b],
               Proceed(r, next)
        PROVE  MovesOn(r)
    <3>1. next.spec = q.spec /\ next.pc = "requirements"
      BY <1>2, <2>2 DEF Request
    <3> QED
      BY <1>6, <2>1, <2>2, <3>1, CourseOfOthers
  <2> QED
    BY <1>1, <1>11, <2>2 DEF GetSource
<1>12. CASE ReadRequirements(r)
  <2>1. q.pc = "requirements"
    BY <1>1, <1>12 DEF ReadRequirements, At
  <2>2. ASSUME NEW c, NEW next, q.spec.op = "migrate",
               next = [[q EXCEPT !.custody = c] EXCEPT
                          !.template = q.last.template,
                          !.pc = IF q.spec.type = NoType THEN "match" ELSE "list"],
               Proceed(r, next)
        PROVE  MovesOn(r)
    <3>1. next.spec = q.spec /\ next.pc \in {"match", "list"}
      BY <1>2, <2>2 DEF Request
    <3> QED
      BY <1>6, <2>1, <2>2, <3>1, CourseOfOthers
  <2>3. ASSUME NEW c, NEW next, next = [[q EXCEPT !.custody = c] EXCEPT !.pc = "allowed"],
               Proceed(r, next)
        PROVE  MovesOn(r)
    <3>1. next.spec = q.spec /\ next.pc = "allowed"
      BY <1>2, <2>3 DEF Request
    <3> QED
      BY <1>6, <2>1, <2>3, <3>1, CourseOfCreate, CourseOfOthers
  <2>4. ASSUME NEW c, NEW next, next = WithTemplate([q EXCEPT !.custody = c], q.spec.template),
               Proceed(r, next)
        PROVE  MovesOn(r)
    <3>1. /\ next.spec = q.spec
          /\ next.pc = IF q.spec.op = "create" THEN "validate" ELSE "match"
      BY <1>2, <2>4 DEF Request, WithTemplate
    <3> QED
      BY <1>6, <2>1, <2>4, <3>1, CourseOfCreate, CourseOfOthers
  <2> QED
    BY <1>1, <1>3, <1>12, <2>2, <2>3, <2>4 DEF ReadRequirements, Check
<1>13. CASE ReadAllowed(r)
  <2>1. q.pc = "allowed"
    BY <1>1, <1>13 DEF ReadAllowed, At
  <2>2. ASSUME NEW ts, NEW next, next = [q EXCEPT !.pc = "servable", !.candidates = ts],
               Proceed(r, next)
        PROVE  MovesOn(r)
    <3>1. next.spec = q.spec /\ next.pc = "servable"
      BY <1>2, <2>2 DEF Request
    <3> QED
      BY <1>6, <2>1, <2>2, <3>1, CourseOfCreate, CourseOfOthers
  <2> QED
    BY <1>1, <1>3, <1>13, <2>2 DEF ReadAllowed
<1>14. CASE TryCandidate(r)
  <2>1. q.candidates # <<>> /\ q.candidates \in Seq(Templates)
    BY <1>1, <1>2, <1>14 DEF TryCandidate, Request
  <2>2. Len(Tail(q.candidates)) < Len(q.candidates)
    <3>1. PICK cs \in Seq(Templates) : cs = q.candidates
      BY <2>1
    <3>2. Len(Tail(cs)) < Len(cs)
      BY <2>1, <3>1
    <3> QED
      BY <3>1, <3>2
  <2>3. ASSUME NEW us, NEW next,
               next = [q EXCEPT !.candidates = Tail(q.candidates), !.servable = us],
               Proceed(r, next)
        PROVE  MovesOn(r)
    <3>1. next.spec = q.spec /\ next.pc = q.pc /\ next.candidates = Tail(q.candidates)
      BY <1>2, <2>3 DEF Request
    <3>2. MovedOn(q, next)
      BY <2>2, <3>1 DEF MovedOn
    <3> QED
      BY <1>4, <2>3, <3>2
  <2> QED
    BY <1>1, <1>14, <2>3 DEF TryCandidate
<1>15. CASE SelectTemplate(r)
  <2>1. q.pc = "servable"
    BY <1>1, <1>15 DEF SelectTemplate, At
  <2>2. ASSUME NEW t, Proceed(r, WithTemplate(q, t))
        PROVE  MovesOn(r)
    BY <1>6, <1>7, <2>1, <2>2, CourseOfCreate, CourseOfOthers
  <2> QED
    BY <1>1, <1>3, <1>15, <2>2 DEF SelectTemplate
<1>16. CASE MatchProvider(r)
  <2>1. q.pc = "match"
    BY <1>1, <1>16 DEF MatchProvider, At
  <2>2. ASSUME NEW b, NEW next, q.spec.op # "create",
               next = [q EXCEPT !.target = b, !.pc = "validate"],
               Proceed(r, next)
        PROVE  MovesOn(r)
    <3>1. next.spec = q.spec /\ next.pc = "validate"
      BY <1>2, <2>2 DEF Request
    <3> QED
      BY <1>6, <2>1, <2>2, <3>1, CourseOfOthers
  <2>3. ASSUME NEW v, q.spec.op = "create", Proceed(r, WithVersion(q, v))
        PROVE  MovesOn(r)
    BY <1>6, <1>7, <2>1, <2>3, CourseOfCreate
  <2> QED
    BY <1>1, <1>3, <1>16, <2>2, <2>3 DEF MatchProvider
<1>17. CASE ListTargets(r)
  <2>1. q.pc = "list" /\ q.spec.op # "create"
    BY <1>1, <1>8, <1>17 DEF ListTargets, At
  <2>2. PICK next : next = [q EXCEPT !.pc = "search", !.listing = registry]
    OBVIOUS
  <2>3. next.spec = q.spec /\ next.pc = "search" /\ Proceed(r, next)
    BY <1>1, <1>2, <1>17, <2>2 DEF Request, ListTargets
  <2> QED
    BY <1>6, <2>1, <2>3, CourseOfOthers
<1>18. CASE TryTarget(r)
  <2>1. q.pc = "search" /\ q.spec.op # "create"
    BY <1>1, <1>8, <1>18 DEF TryTarget, At
  <2>2. ASSUME NEW b, NEW next, next = [q EXCEPT !.target = b, !.pc = "validate"],
               Proceed(r, next)
        PROVE  MovesOn(r)
    <3>1. next.spec = q.spec /\ next.pc = "validate"
      BY <1>2, <2>2 DEF Request
    <3> QED
      BY <1>6, <2>1, <2>2, <3>1, CourseOfOthers
  <2>3. ASSUME NEW i \in Untried(q), NEW next, next = [q EXCEPT !.tried = q.tried \union {i}],
               Proceed(r, next)
        PROVE  MovesOn(r)
    <3>1. /\ next.spec = q.spec
          /\ next.pc = q.pc
          /\ next.candidates = q.candidates
          /\ next.listing = q.listing
          /\ next.last = q.last
          /\ next.tried = q.tried \union {i}
      BY <1>2, <2>3 DEF Request
    <3>2. Untried(next) \subseteq Untried(q) /\ i \notin Untried(next)
      BY <3>1 DEF Untried
    <3>3. MovedOn(q, next)
      BY <2>3, <3>1, <3>2 DEF MovedOn
    <3> QED
      BY <1>4, <2>3, <3>3
  <2> QED
    BY <1>1, <1>3, <1>18, <2>2, <2>3 DEF TryTarget
<1>19. CASE ValidateOp(r)
  <2>1. q.pc = "validate"
    BY <1>1, <1>19 DEF ValidateOp, At
  <2>2. ASSUME NEW next, q.spec.op = "create", next = [q EXCEPT !.pc = "match"], Proceed(r, next)
        PROVE  MovesOn(r)
    <3>1. next.spec = q.spec /\ next.pc = "match"
      BY <1>2, <2>2 DEF Request
    <3> QED
      BY <1>6, <2>1, <2>2, <3>1, CourseOfCreate
  <2>3. ASSUME NEW v, q.spec.op # "create", Proceed(r, WithVersion(q, v))
        PROVE  MovesOn(r)
    BY <1>6, <1>7, <2>1, <2>3, CourseOfOthers
  <2> QED
    BY <1>1, <1>3, <1>19, <2>2, <2>3 DEF ValidateOp, Check
<1>20. CASE PersistKey(r) \/ PersistVersion(r) \/ DeleteKey(r)
  BY <1>3, <1>20 DEF PersistKey, PersistVersion, DeleteKey
<1> QED
  BY <1>9, <1>10, <1>11, <1>12, <1>13, <1>14, <1>15, <1>16, <1>17, <1>18, <1>19, <1>20 DEF Step

(* A request stays the one its caller made. *)
KeepsSpec(r) == req'[r] # Idle => req'[r].spec = req[r].spec

LEMMA StepKeepsSpec ==
    ASSUME IInv, NEW r \in Requests, Step(r)
    PROVE  KeepsSpec(r)
BY StepMovesOn DEF MovesOn, MovedOn, KeepsSpec

(* Every request makes finitely many calls, whatever others do meanwhile:   *)
(* each of its steps ends it or takes it to a later call, or to fewer       *)
(* candidates, or to fewer targets of the listing it took; and a step of    *)
(* anything else leaves it where it was.                                    *)
THEOREM EveryStepMovesOn == Spec => RequestsMoveOn
<1>1. IInv /\ [Next]_vars =>
        [\A r \in Requests :
           Active(r) /\ Active(r)' /\ req'[r] # req[r] => MovedOn(req[r], req'[r])]_vars
  <2> SUFFICES ASSUME IInv, Next, NEW r \in Requests,
                      Active(r), Active(r)', req'[r] # req[r]
               PROVE  MovedOn(req[r], req'[r])
    OBVIOUS
  <2>1. req \in [Requests -> Request \union {Idle}]
    BY DEF IInv, TypeOK
  <2>2. ASSUME NEW p \in Requests, NEW s \in Specs, Begin(p, s) PROVE FALSE
    BY <2>1, <2>2 DEF Begin, Active
  <2>3. ASSUME NEW p \in Requests, Step(p) PROVE MovedOn(req[r], req'[r])
    <3>1. CASE p = r
      BY <2>3, <3>1, StepMovesOn DEF MovesOn, Active
    <3>2. CASE p # r
      BY <2>1, <2>3, <3>2, StepAlone DEF StepsAlone
    <3> QED
      BY <3>1, <3>2
  <2>4. ASSUME NEW p \in Requests, DependencyError(p) PROVE FALSE
    BY <2>1, <2>4 DEF DependencyError, Refuse, End, Active
  <2>5. ASSUME Environment PROVE FALSE
    BY <2>5 DEF Environment, PutPolicy, RegisterBackend, RemoveBackend
  <2> QED
    BY <2>2, <2>3, <2>4, <2>5 DEF Next
<1> QED
  BY <1>1, Invariant, PTL DEF Spec, RequestsMoveOn

(* The strategy of every migration under way is implemented, and as long as *)
(* keys, registry and policies stay as they are those that are undisturbed  *)
(* remain so, whatever else the requests do.                                *)
StrategiesOK == \A r \in Requests : Active(r) => StrategyImplemented(req[r].spec)

AllUndisturbed ==
    \A r \in Requests : Active(r) /\ req[r].spec.op = "migrate" => Undisturbed(req[r])

LEMMA StrategiesStep ==
    ASSUME IInv, StrategiesOK, [Next]_vars
    PROVE  StrategiesOK'
<1>1. req \in [Requests -> Request \union {Idle}]
  BY DEF IInv, TypeOK
<1>2. ASSUME NEW r \in Requests, NEW s \in Specs, StrategyImplemented(s), Begin(r, s)
      PROVE  StrategiesOK'
  <2>1. Start(s).spec = s
    BY DEF Start
  <2> QED
    BY <1>1, <1>2, <2>1 DEF Begin, StrategiesOK, Active
<1>3. ASSUME NEW r \in Requests, Step(r)
      PROVE  StrategiesOK'
  <2>1. PICK next : req' = [req EXCEPT ![r] = next]
    BY <1>3, StepAlone DEF StepsAlone
  <2>2. req'[r] # Idle => req'[r].spec = req[r].spec
    BY <1>3, StepKeepsSpec DEF KeepsSpec
  <2>3. req[r] # Idle
    BY <1>3
    DEF Step, GetKey, GetVersion, GetSource, ReadRequirements, ReadAllowed, TryCandidate,
        SelectTemplate, MatchProvider, ListTargets, TryTarget, ValidateOp, PersistKey,
        PersistVersion, DeleteKey, At, Active
  <2> QED
    BY <1>1, <2>1, <2>2, <2>3 DEF StrategiesOK, Active
<1>4. ASSUME NEW r \in Requests, DependencyError(r)
      PROVE  StrategiesOK'
  BY <1>1, <1>4 DEF DependencyError, Refuse, End, StrategiesOK, Active
<1>5. CASE Environment \/ UNCHANGED vars
  BY <1>5 DEF Environment, PutPolicy, RegisterBackend, RemoveBackend, vars, StrategiesOK, Active
<1> QED
  BY <1>2, <1>3, <1>4, <1>5 DEF Next

LEMMA UndisturbedStep ==
    ASSUME IInv, AllUndisturbed, [Next]_vars, UNCHANGED <<keys, registry, policies>>
    PROVE  AllUndisturbed'
<1>1. req \in [Requests -> Request \union {Idle}]
  BY DEF IInv, TypeOK
<1>2. ASSUME NEW r \in Requests, NEW next, \A p \in Requests : req'[p] = IF p = r THEN next ELSE req[p],
             next # Idle /\ next.spec.op = "migrate" => Undisturbed(next)
      PROVE  AllUndisturbed'
  <2>1. ASSUME NEW p \in Requests, NEW q, q = req'[p], q # Idle, q.spec.op = "migrate"
        PROVE  Undisturbed(q)'
    <3>1. Undisturbed(q)
      BY <1>2, <2>1 DEF AllUndisturbed, Active
    <3> QED
      BY <3>1, UndisturbedStays
  <2> QED
    BY <2>1 DEF AllUndisturbed, Active
<1>3. ASSUME NEW r \in Requests, NEW s \in Specs, Begin(r, s)
      PROVE  AllUndisturbed'
  <2>1. PICK next : next = Start(s)
    OBVIOUS
  <2>2. s.op = "migrate" => next.pc = "getKey"
    BY <2>1 DEF Start
  <2>3. next.spec = s /\ next.tried = {}
    BY <2>1 DEF Start
  <2>4. next.spec.op = "migrate" => Undisturbed(next)
    BY <2>2, <2>3 DEF Undisturbed, Current, Loading, Checking
  <2>5. \A p \in Requests : req'[p] = IF p = r THEN next ELSE req[p]
    BY <1>1, <1>3, <2>1 DEF Begin
  <2> QED
    BY <1>2, <2>4, <2>5
<1>4. ASSUME NEW r \in Requests, Step(r)
      PROVE  AllUndisturbed'
  <2>1. PICK next : req' = [req EXCEPT ![r] = next]
    BY <1>4, StepAlone DEF StepsAlone
  <2>2. \A p \in Requests : req'[p] = IF p = r THEN next ELSE req[p]
    BY <1>1, <2>1
  <2>3. PICK q : q = req[r]
    OBVIOUS
  <2>4. q # Idle
    BY <1>4, <2>3
    DEF Step, GetKey, GetVersion, GetSource, ReadRequirements, ReadAllowed, TryCandidate,
        SelectTemplate, MatchProvider, ListTargets, TryTarget, ValidateOp, PersistKey,
        PersistVersion, DeleteKey, At, Active
  <2>5. next # Idle => next.spec = q.spec
    BY <1>4, <2>2, <2>3, StepKeepsSpec DEF KeepsSpec
  <2>6. ASSUME q.spec.op = "migrate", next # Idle
        PROVE  Undisturbed(next)
    <3>1. Undisturbed(q)
      BY <2>3, <2>4, <2>6 DEF AllUndisturbed, Active
    <3>2. CASE q.pc # "persist"
      <4>1. ~Refuse(r)
        BY <1>1, <2>2, <2>6 DEF Refuse, End
      <4>2. Advances(r, q)
        BY <1>4, <2>3, <2>4, <2>6, <3>1, <3>2, <4>1, MigrationAdvances DEF Active
      <4>3. PICK p : Proceed(r, p) /\ Undisturbed(p)
        BY <4>2 DEF Advances
      <4>4. p = next
        BY <1>1, <2>2, <4>3 DEF Proceed
      <4> QED
        BY <4>3, <4>4
    <3>3. CASE q.pc = "persist"
      <4>1. PersistKey(r) \/ PersistVersion(r)
        BY <1>4, <2>3, <3>3
        DEF Step, GetKey, GetVersion, GetSource, ReadRequirements, ReadAllowed, TryCandidate,
            SelectTemplate, MatchProvider, ListTargets, TryTarget, ValidateOp, DeleteKey, At
      <4>2. End(r)
        BY <4>1 DEF PersistKey, PersistVersion, Write, Refuse
      <4> QED
        BY <1>1, <2>2, <2>6, <4>2 DEF End
    <3> QED
      BY <3>2, <3>3
  <2> QED
    BY <1>2, <2>2, <2>5, <2>6
<1>5. ASSUME NEW r \in Requests, DependencyError(r)
      PROVE  AllUndisturbed'
  <2>1. \A p \in Requests : req'[p] = IF p = r THEN Idle ELSE req[p]
    BY <1>1, <1>5 DEF DependencyError, Refuse, End
  <2> QED
    BY <1>2, <2>1
<1>6. CASE UNCHANGED req
  <2>1. ASSUME NEW p \in Requests, NEW q, q = req[p], q # Idle, q.spec.op = "migrate"
        PROVE  Undisturbed(q)'
    BY <2>1, UndisturbedStays DEF AllUndisturbed, Active
  <2> QED
    BY <1>6, <2>1 DEF AllUndisturbed, Active
<1>7. Environment \/ UNCHANGED vars => UNCHANGED req
  BY DEF Environment, PutPolicy, RegisterBackend, RemoveBackend, vars
<1> QED
  BY <1>3, <1>4, <1>5, <1>6, <1>7 DEF Next

=============================================================================
