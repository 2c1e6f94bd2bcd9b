----------------------- MODULE KeyOrchestrator_proofs ------------------------
(***************************************************************************)
(* Proofs about KeyOrchestrator, for any number of requests, keys,         *)
(* providers, policies and versions: its states are well typed, it         *)
(* implements KeyAggregate, and so every live key's lineage is sound       *)
(* whatever runs concurrently.                                             *)
(*                                                                         *)
(* The inductive invariant IInv adds to the types what each request knows  *)
(* at its label: what its checks have established (StageOK), and that the  *)
(* version it read is still the key's version of that number (Remembers),  *)
(* which holds because keys only grow.  The repository's numbering check   *)
(* then makes that version the current one when a new version is written.  *)
(***************************************************************************)
EXTENDS KeyOrchestrator, KeyAggregate_proofs

Located(q) == q.spec.op # "create" /\ q.pc # "getKey"

IInv == TypeOK /\ LineageInv /\ StagesOK /\ SnapshotIsPast

-----------------------------------------------------------------------------
(* The versions a request builds. *)

LEMMA DescType ==
    ASSUME NEW b \in Backends
    PROVE  /\ Desc[b].name \in Instances
           /\ Desc[b].certified \in BOOLEAN
           /\ \A t \in Templates : Desc[b].generates[t] \in Encodings \union {NoEncoding}
<1>1. Desc[b] \in Description
  BY BackendAssumption
<1> QED
  BY <1>1 DEF Description

LEMMA ApprovedIsCertified ==
    ASSUME NEW b \in Backends
    PROVE  Meets(b, ApprovedGeneration) = Desc[b].certified
<1>1. /\ ApprovedGeneration.props = {}
      /\ ApprovedGeneration.certified = FALSE
      /\ ApprovedGeneration.level = 0
      /\ ApprovedGeneration.approved = TRUE
  BY DEF ApprovedGeneration, NothingRequired
<1>2. Meets(b, ApprovedGeneration) <=> Desc[b].certified
  BY <1>1 DEF Meets
<1>3. Meets(b, ApprovedGeneration) \in BOOLEAN
  BY DEF Meets
<1> QED
  BY <1>2, <1>3, DescType

LEMMA GeneratedVersion ==
    ASSUME NEW n \in Nat \ {0}, NEW t \in Templates, NEW b \in Backends, NEW s \in Scopes,
           NEW v, v = NewVersion(n, t, b, s, GeneratedPayload(b, t), GeneratedProvenance(b, t))
    PROVE  /\ v \in KeyVersion
           /\ v.version = n
           /\ v.scope = s
           /\ Generated(v)
<1>1. /\ v.version = n
      /\ v.template = t
      /\ v.provider = Desc[b].name
      /\ v.scope = s
      /\ v.payload = GeneratedPayload(b, t)
      /\ v.extractable = ReleasesMaterial(b, t)
      /\ v.approved = Meets(b, ApprovedGeneration)
      /\ v.origin = [kind |-> "GENERATED", sourceVersion |-> 0, sourceProvider |-> NoInstance]
      /\ v.placed = b
  BY DEF NewVersion, GeneratedProvenance
<1>2. GeneratedPayload(b, t) \in Payload
  BY DescType DEF GeneratedPayload, Payload
<1>3. GeneratedProvenance(b, t).origin \in Origin
  BY DEF GeneratedProvenance, Origin
<1>4. /\ GeneratedProvenance(b, t).extractable \in BOOLEAN
      /\ GeneratedProvenance(b, t).approved \in BOOLEAN
  BY ApprovedIsCertified, DescType DEF GeneratedProvenance, ReleasesMaterial
<1>5. v \in KeyVersion
  BY <1>2, <1>3, <1>4, DescType DEF NewVersion, KeyVersion
<1>6. Generated(v)
  BY <1>1, ApprovedIsCertified DEF Generated
<1> QED
  BY <1>1, <1>5, <1>6

(* A kept version is KeptFrom its source when its target takes stored       *)
(* payloads: a closed module accepts none.                                  *)
LEMMA AcceptingIsOpen ==
    ASSUME NEW b \in Backends, NEW t \in Templates, NEW e, e \in Accept(b, t).stored
    PROVE  ~Closed(b)
<1>1. b # NoBackend
  BY BackendAssumption
<1>2. NoChannels.stored = {}
  BY DEF NoChannels
<1>3. ASSUME Closed(b)
      PROVE  Accept(b, t).stored = {}
  <2>1. Accept(b, t) = [NoChannels EXCEPT !.wrapped = Desc[b].accept[t].wrapped]
    BY <1>1, <1>3 DEF Accept, Allow
  <2> QED
    BY <2>1 DEF NoChannels
<1> QED
  BY <1>3

LEMMA KeptVersion ==
    ASSUME NEW u \in KeyVersion, NEW t \in Templates, NEW b \in Backends,
           NEW kind \in {"RETAINED", "TRANSFERRED"},
           u.payload.encoding \in Accept(b, t).stored,
           kind = "RETAINED" => Desc[b].name = u.provider /\ <<u.template, t>> \in Compatible,
           kind = "TRANSFERRED" => Desc[b].name # u.provider /\ t = u.template /\ u.extractable,
           NEW v,
           v = NewVersion(u.version + 1, t, b, u.scope, u.payload, KeptProvenance(u, b, t, kind))
    PROVE  /\ v \in KeyVersion
           /\ v.version = u.version + 1
           /\ v.scope = u.scope
           /\ KeptFrom(v, u)
<1>1. /\ v.version = u.version + 1
      /\ v.template = t
      /\ v.provider = Desc[b].name
      /\ v.scope = u.scope
      /\ v.payload = u.payload
      /\ v.extractable = (u.extractable /\ ReleasesMaterial(b, t))
      /\ v.approved = (u.approved /\ Meets(b, ApprovedGeneration))
      /\ v.origin = [kind |-> kind, sourceVersion |-> u.version, sourceProvider |-> u.provider]
      /\ v.placed = b
  BY DEF NewVersion, KeptProvenance
<1>2. /\ u.version \in Nat \ {0}
      /\ u.provider \in Instances
      /\ u.scope \in Scopes
      /\ u.payload \in Payload
  BY DEF KeyVersion
<1>3. KeptProvenance(u, b, t, kind).origin \in Origin
  BY <1>2 DEF KeptProvenance, Origin
<1>4. /\ KeptProvenance(u, b, t, kind).extractable \in BOOLEAN
      /\ KeptProvenance(u, b, t, kind).approved \in BOOLEAN
  BY DEF KeptProvenance
<1>5. v \in KeyVersion
  <2>1. u.version + 1 \in Nat \ {0}
    BY <1>2
  <2> QED
    BY <1>2, <1>3, <1>4, <2>1, DescType DEF NewVersion, KeyVersion
<1>6. ~Closed(b)
  BY AcceptingIsOpen
<1>7. KeptFrom(v, u)
  <2>1. /\ v.origin.kind = kind
        /\ v.origin.sourceVersion = u.version
        /\ v.origin.sourceProvider = u.provider
    BY <1>1
  <2>2. v.approved => u.approved /\ Desc[v.placed].certified
    BY <1>1, ApprovedIsCertified
  <2>3. v.extractable => u.extractable /\ ReleasesMaterial(v.placed, v.template)
    BY <1>1
  <2>4. CASE kind = "RETAINED"
    BY <2>1, <2>2, <2>3, <2>4, <1>1, <1>6 DEF KeptFrom
  <2>5. CASE kind = "TRANSFERRED"
    BY <2>1, <2>2, <2>3, <2>5, <1>1, <1>6 DEF KeptFrom
  <2> QED
    BY <2>4, <2>5
<1> QED
  BY <1>1, <1>5, <1>7

-----------------------------------------------------------------------------
(* How a step disturbs the invariant. *)

(* Keys only grow, are never reused, and keep their policy. *)
KeysGrow ==
    \A k \in KeyIds :
        /\ keys[k].status # "unused" => keys'[k].status # "unused"
        /\ keys[k].status # "unused" /\ keys'[k].status = "live" =>
             /\ keys[k].status = "live"
             /\ keys'[k].policy = keys[k].policy
             /\ \A i \in DOMAIN keys[k].versions :
                  /\ i \in DOMAIN keys'[k].versions
                  /\ keys'[k].versions[i] = keys[k].versions[i]

LEMMA GrowthKeepsMemory ==
    ASSUME KeysGrow, NEW q, Remembers(q)
    PROVE  Remembers(q)'
BY DEF KeysGrow, Remembers

LEMMA StutterGrows == UNCHANGED keys => KeysGrow
BY DEF KeysGrow

LEMMA IdleIsNoRequest == Idle \notin Request /\ Idle.pc = "idle"
<1>1. Idle.pc = "idle"
  BY DEF Idle
<1>2. \A q \in Request : q.pc \in Labels
  BY DEF Request
<1> QED
  BY <1>1, <1>2 DEF Labels

(* A step of request r to next, over keys that grow. *)
LEMMA RequestUpdate ==
    ASSUME IInv, KeysGrow, NEW r \in Requests, NEW next \in Request,
           req' = [req EXCEPT ![r] = next],
           StageOK(next),
           next.spec.op # "create" /\ next.pc # "getKey" => Remembers(next)'
    PROVE  /\ req' \in [Requests -> Request \union {Idle}]
           /\ StagesOK'
           /\ SnapshotIsPast'
<1>1. req \in [Requests -> Request \union {Idle}]
  BY DEF IInv, TypeOK
<1>2. req' \in [Requests -> Request \union {Idle}]
  BY <1>1
<1>3. StagesOK'
  BY <1>1 DEF IInv, StagesOK, Active
<1>4. SnapshotIsPast'
  BY <1>1, GrowthKeepsMemory DEF IInv, SnapshotIsPast, Active
<1> QED
  BY <1>2, <1>3, <1>4

(* The same when r ends, or no request moves. *)
LEMMA RequestEnds ==
    ASSUME IInv, KeysGrow, NEW r \in Requests,
           req' = [req EXCEPT ![r] = Idle] \/ UNCHANGED req
    PROVE  /\ req' \in [Requests -> Request \union {Idle}]
           /\ StagesOK'
           /\ SnapshotIsPast'
<1>1. req \in [Requests -> Request \union {Idle}]
  BY DEF IInv, TypeOK
<1>2. \A p \in Requests : req'[p] # Idle => req'[p] = req[p]
  BY <1>1
<1>3. req' \in [Requests -> Request \union {Idle}]
  BY <1>1
<1>4. StagesOK'
  BY <1>2 DEF IInv, StagesOK, Active
<1>5. SnapshotIsPast'
  BY <1>2, GrowthKeepsMemory DEF IInv, SnapshotIsPast, Active
<1> QED
  BY <1>3, <1>4, <1>5

LEMMA ProceedOK ==
    ASSUME IInv, NEW r \in Requests, NEW next \in Request,
           Proceed(r, next), StageOK(next), Located(next) => Remembers(next)
    PROVE  IInv'
<1>1. KeysGrow
  BY StutterGrows DEF Proceed
<1>2. Located(next) => Remembers(next)'
  BY DEF Proceed, Remembers
<1>3. /\ req' \in [Requests -> Request \union {Idle}]
      /\ StagesOK'
      /\ SnapshotIsPast'
  BY <1>1, <1>2, RequestUpdate DEF Proceed, Located
<1> QED
  BY <1>3 DEF IInv, TypeOK, KeysTypeOK, LineageInv, Proceed

LEMMA RefuseOK ==
    ASSUME IInv, NEW r \in Requests, Refuse(r)
    PROVE  IInv'
<1>1. /\ UNCHANGED <<keys, registry, policies>>
      /\ req' = [req EXCEPT ![r] = Idle]
      /\ inForce' = [inForce EXCEPT ![r] = {}]
  BY DEF Refuse, End
<1>2. /\ req' \in [Requests -> Request \union {Idle}]
      /\ StagesOK'
      /\ SnapshotIsPast'
  BY <1>1, StutterGrows, RequestEnds
<1> QED
  BY <1>1, <1>2 DEF IInv, TypeOK, KeysTypeOK, LineageInv

(* What is known of an active request. *)
LEMMA ActiveRequest ==
    ASSUME IInv, NEW r \in Requests, NEW label \in Labels, At(r, label)
    PROVE  /\ req[r] \in Request
           /\ req[r].pc = label
           /\ StageOK(req[r])
           /\ Located(req[r]) => Remembers(req[r])
           /\ req[r].spec \in RequestSpec
           /\ WellFormed(req[r].spec)
<1>1. req[r] \in Request /\ req[r].pc = label
  BY DEF At, Active, IInv, TypeOK
<1>2. StageOK(req[r]) /\ (Located(req[r]) => Remembers(req[r]))
  BY DEF At, IInv, StagesOK, SnapshotIsPast, Located
<1>3. req[r].spec \in Specs
  BY <1>1 DEF Request
<1> QED
  BY <1>1, <1>2, <1>3, OrchestratorAssumption

(* The rules of a consulted document are typed. *)
LEMMA ConsultedRules ==
    ASSUME NEW q, NEW d \in Consulted(q)
    PROVE  /\ Rules[d].requires \in Requirements
           /\ Rules[d].templates \in Seq(Templates)
<1>1. d \in PolicyDocs
  BY DEF Consulted
<1>2. Rules[d] \in PolicyRules
  BY <1>1, OrchestratorAssumption
<1> QED
  BY <1>2 DEF PolicyRules

LEMMA MergeType ==
    ASSUME NEW p \in Requirements, NEW q \in Requirements
    PROVE  Merge(p, q) \in Requirements
BY DEF Merge, Requirements, MaxFIPS140Level

LEMMA CustodyType ==
    ASSUME NEW q, q.spec \in RequestSpec, NEW d \in Consulted(q)
    PROVE  Custody(q, d) \in Requirements
<1>1. NothingRequired \in Requirements
  BY DEF NothingRequired, Requirements, MaxFIPS140Level
<1>2. q.spec.requires \in Requirements
  BY DEF RequestSpec
<1> QED
  BY <1>1, <1>2, MergeType, ConsultedRules DEF Custody

-----------------------------------------------------------------------------
(* Each step of a request preserves the invariant. *)

LEMMA GetKeyOK ==
    ASSUME IInv, NEW r \in Requests, GetKey(r)
    PROVE  IInv'
<1>1. PICK q : q = req[r]
  OBVIOUS
<1>2. /\ q \in Request
      /\ q.pc = "getKey"
      /\ StageOK(q)
      /\ q.spec \in RequestSpec
  BY <1>1, ActiveRequest DEF GetKey, Labels
<1>3. CASE Refuse(r)
  BY <1>3, RefuseOK
<1>4. ASSUME NEW k \in KeyIds, keys[k].status = "live", NEW next,
             next = [q EXCEPT !.pc     = IF q.spec.op = "delete" THEN "delete" ELSE "getVersion",
                              !.key    = k,
                              !.policy = keys[k].policy,
                              !.at     = Len(keys[k].versions)],
             Proceed(r, next)
      PROVE  IInv'
  <2>1. /\ keys[k] \in Key
        /\ keys[k].policy \in PolicyNames \union {""}
        /\ keys[k].versions \in Seq(KeyVersion)
        /\ Len(keys[k].versions) > 0
        /\ Len(keys[k].versions) \in DOMAIN keys[k].versions
    <3>1. keys[k] \in Key /\ Lineage(keys[k].versions)
      BY <1>4 DEF IInv, TypeOK, KeysTypeOK, LineageInv
    <3>2. /\ keys[k].policy \in PolicyNames \union {""}
          /\ keys[k].versions \in Seq(KeyVersion)
      BY <3>1 DEF Key
    <3>3. Len(keys[k].versions) > 0
      BY <3>1 DEF Lineage, Numbered
    <3>4. PICK vs \in Seq(KeyVersion) : vs = keys[k].versions
      BY <3>2
    <3>5. Len(vs) > 0 => Len(vs) \in DOMAIN vs
      OBVIOUS
    <3> QED
      BY <3>1, <3>2, <3>3, <3>4, <3>5
  <2>2. next \in Request
    <3>1. (IF q.spec.op = "delete" THEN "delete" ELSE "getVersion") \in Labels
      BY DEF Labels
    <3>2. Len(keys[k].versions) \in Nat
      <4>1. PICK vs \in Seq(KeyVersion) : vs = keys[k].versions
        BY <2>1
      <4> QED
        BY <4>1
    <3>3. \A l \in Labels, p \in PolicyNames \union {""}, n \in Nat :
            [q EXCEPT !.pc = l, !.key = k, !.policy = p, !.at = n] \in Request
      BY <1>2 DEF Request
    <3> QED
      BY <1>4, <2>1, <3>1, <3>2, <3>3
  <2>3. /\ q.spec.op # "create"
        /\ q.last = NoVersion
        /\ q.spec.op \in {"transform", "migrate", "delete"}
    BY <1>2 DEF StageOK, Stages, HasLast, ScopeOf, RequestSpec
  <2>4. /\ next.pc = (IF q.spec.op = "delete" THEN "delete" ELSE "getVersion")
        /\ next.spec = q.spec
        /\ next.last = q.last
        /\ next.key = k
        /\ next.policy = keys[k].policy
        /\ next.at = Len(keys[k].versions)
    BY <1>2, <1>4 DEF Request
  <2>5. StageOK(next)
    BY <2>3, <2>4 DEF StageOK, Stages, HasLast, ScopeOf
  <2>6. Remembers(next)
    BY <1>4, <2>1, <2>3, <2>4 DEF Remembers
  <2> QED
    BY <1>4, <2>2, <2>5, <2>6, ProceedOK
<1> QED
  BY <1>1, <1>3, <1>4 DEF GetKey

LEMMA GetVersionOK ==
    ASSUME IInv, NEW r \in Requests, GetVersion(r)
    PROVE  IInv'
<1>1. PICK q : q = req[r]
  OBVIOUS
<1>2. /\ q \in Request
      /\ q.pc = "getVersion"
      /\ StageOK(q)
      /\ Located(q) => Remembers(q)
      /\ q.spec \in RequestSpec
  BY <1>1, ActiveRequest DEF GetVersion, Labels
<1>3. CASE Refuse(r)
  BY <1>3, RefuseOK
<1>4. ASSUME keys[q.key].status = "live", NEW next,
             next = [q EXCEPT !.pc   = IF q.spec.op = "migrate" THEN "getSource" ELSE "requirements",
                              !.last = keys[q.key].versions[q.at]],
             q.spec.op = "transform" => q.spec.scope = keys[q.key].versions[q.at].scope,
             Proceed(r, next)
      PROVE  IInv'
  <2>1. /\ q.spec.op \in {"transform", "migrate"}
        /\ Remembers(q)
    BY <1>2 DEF StageOK, Stages, RequestSpec, Located
  <2>2. /\ q.key \in KeyIds
        /\ q.at \in DOMAIN keys[q.key].versions
        /\ keys[q.key].policy = q.policy
    BY <1>4, <2>1 DEF Remembers
  <2>3. /\ keys[q.key].versions \in Seq(KeyVersion)
        /\ Numbered(keys[q.key].versions)
    BY <1>4, <2>2 DEF IInv, TypeOK, KeysTypeOK, Key, LineageInv, Lineage
  <2>4. /\ keys[q.key].versions[q.at] \in KeyVersion
        /\ keys[q.key].versions[q.at].version = q.at
    BY <2>2, <2>3 DEF Numbered
  <2>5. next \in Request
    <3>1. (IF q.spec.op = "migrate" THEN "getSource" ELSE "requirements") \in Labels
      BY DEF Labels
    <3>2. PICK l \in Labels : l = (IF q.spec.op = "migrate" THEN "getSource" ELSE "requirements")
      BY <3>1
    <3>3. PICK v \in KeyVersion : v = keys[q.key].versions[q.at]
      BY <2>4
    <3>4. next = [q EXCEPT !.pc = l, !.last = v]
      BY <1>4, <3>2, <3>3
    <3> QED
      BY <1>2, <3>4 DEF Request
  <2>6. /\ next.pc = (IF q.spec.op = "migrate" THEN "getSource" ELSE "requirements")
        /\ next.spec = q.spec
        /\ next.last = keys[q.key].versions[q.at]
        /\ next.key = q.key
        /\ next.policy = q.policy
        /\ next.at = q.at
    BY <1>2, <1>4 DEF Request
  <2>7. StageOK(next)
    BY <1>4, <2>1, <2>4, <2>6 DEF StageOK, Stages, HasLast, ScopeOf
  <2>8. Remembers(next)
    BY <1>4, <2>2, <2>4, <2>6 DEF Remembers
  <2> QED
    BY <1>4, <2>5, <2>7, <2>8, ProceedOK
<1> QED
  BY <1>1, <1>3, <1>4 DEF GetVersion, Check

(* A step that leaves what the request remembers of its key as it was. *)
LEMMA LocalStep ==
    ASSUME IInv, NEW r \in Requests, NEW label \in Labels \ {"getKey"}, At(r, label),
           NEW next \in Request, Proceed(r, next), StageOK(next),
           NEW q, q = req[r],
           next.spec = q.spec, next.key = q.key, next.policy = q.policy,
           next.at = q.at, next.last = q.last
    PROVE  IInv'
<1>1. Located(next) => Located(q)
  BY ActiveRequest DEF Located
<1>2. Located(q) => Remembers(q)
  BY ActiveRequest
<1>3. Located(next) => Remembers(next)
  BY <1>1, <1>2 DEF Remembers
<1> QED
  BY <1>3, ProceedOK

LEMMA GetSourceOK ==
    ASSUME IInv, NEW r \in Requests, GetSource(r)
    PROVE  IInv'
<1>1. PICK q : q = req[r]
  OBVIOUS
<1>2. /\ q \in Request
      /\ q.pc = "getSource"
      /\ StageOK(q)
      /\ At(r, "getSource")
      /\ q.spec \in RequestSpec
      /\ "getSource" \in Labels \ {"getKey"}
  BY <1>1, ActiveRequest DEF GetSource, Labels
<1>3. PICK b \in Backends \union {NoBackend} :
         Proceed(r, [q EXCEPT !.pc = "requirements", !.source = b])
  BY <1>1 DEF GetSource, Registered
<1>4. PICK next : next = [q EXCEPT !.pc = "requirements", !.source = b]
  OBVIOUS
<1>5. next \in Request
  BY <1>2, <1>4 DEF Request, Labels
<1>6. /\ next.pc = "requirements"
      /\ next.spec = q.spec
      /\ next.key = q.key
      /\ next.policy = q.policy
      /\ next.at = q.at
      /\ next.last = q.last
  BY <1>2, <1>4 DEF Request
<1>7. StageOK(next)
  <2>1. q.spec.op = "migrate"
    BY <1>2 DEF StageOK, Stages, RequestSpec
  <2> QED
    BY <1>2, <1>6, <2>1 DEF StageOK, Stages, HasLast, ScopeOf
<1>8. Proceed(r, next)
  BY <1>3, <1>4
<1>9. PICK label \in Labels \ {"getKey"} : At(r, label)
  BY <1>2
<1> QED
  BY <1>1, <1>5, <1>6, <1>7, <1>8, <1>9, LocalStep

LEMMA ReadRequirementsOK ==
    ASSUME IInv, NEW r \in Requests, ReadRequirements(r)
    PROVE  IInv'
<1>1. PICK q : q = req[r]
  OBVIOUS
<1>2. /\ q \in Request
      /\ q.pc = "requirements"
      /\ StageOK(q)
      /\ At(r, "requirements")
      /\ q.spec \in RequestSpec
      /\ WellFormed(q.spec)
      /\ q.spec.op \in {"create", "transform", "migrate"}
      /\ "requirements" \in Labels \ {"getKey"}
  <2>1. /\ q \in Request
        /\ q.pc = "requirements"
        /\ StageOK(q)
        /\ At(r, "requirements")
        /\ q.spec \in RequestSpec
        /\ WellFormed(q.spec)
    BY <1>1, ActiveRequest DEF ReadRequirements, Labels
  <2>2. q.spec.op # "delete"
    BY <2>1 DEF StageOK, Stages
  <2> QED
    BY <2>1, <2>2 DEF RequestSpec, Labels
<1>3. CASE Refuse(r)
  BY <1>3, RefuseOK
<1>4. ASSUME NEW custody \in Requirements, q.spec.op = "migrate",
             q.spec.instance # q.last.provider,
             SourceFeasible(q.spec.strategy, q.source, q.last),
             NEW next,
             next = [q EXCEPT !.custody = custody, !.template = q.last.template,
                              !.pc = IF q.spec.type = NoType THEN "match" ELSE "list"],
             Proceed(r, next)
      PROVE  IInv'
  <2>1. /\ q.last \in KeyVersion
        /\ q.last.template \in Templates
    BY <1>2, <1>4 DEF StageOK, HasLast, KeyVersion
  <2>2. \A l \in Labels, t \in Templates :
          [q EXCEPT !.custody = custody, !.template = t, !.pc = l] \in Request
    BY <1>2, <1>4 DEF Request
  <2>3. next \in Request
    BY <1>4, <2>1, <2>2 DEF Labels
  <2>4. /\ next.pc = (IF q.spec.type = NoType THEN "match" ELSE "list")
        /\ next.spec = q.spec
        /\ next.key = q.key
        /\ next.policy = q.policy
        /\ next.at = q.at
        /\ next.last = q.last
        /\ next.source = q.source
        /\ next.template = q.last.template
    BY <1>2, <1>4 DEF Request
  <2>5. next.pc = "match" => q.spec.instance \in Instances \ {q.last.provider}
    BY <1>2, <1>4, <2>4 DEF WellFormed, RequestSpec
  <2>6. StageOK(next)
    BY <1>2, <1>4, <2>1, <2>4, <2>5 DEF StageOK, Stages, HasLast, ScopeOf
  <2>7. Proceed(r, next)
    BY <1>4
  <2> QED
    BY <1>1, <1>2, <2>3, <2>4, <2>6, <2>7, LocalStep
<1>5. ASSUME NEW custody \in Requirements, q.spec.op # "migrate",
             q.spec.template # NoTemplate, NEW next,
             next = WithTemplate([q EXCEPT !.custody = custody], q.spec.template),
             Proceed(r, next)
      PROVE  IInv'
  <2>1. q.spec.template \in Templates
    BY <1>2, <1>5 DEF RequestSpec
  <2>2. \A l \in Labels, t \in Templates :
          [[q EXCEPT !.custody = custody] EXCEPT !.template = t, !.pc = l] \in Request
    BY <1>2, <1>5 DEF Request
  <2>3. next \in Request
    BY <1>5, <2>1, <2>2 DEF Labels, WithTemplate
  <2>4. /\ next.pc = (IF q.spec.op = "create" THEN "validate" ELSE "match")
        /\ next.spec = q.spec
        /\ next.key = q.key
        /\ next.policy = q.policy
        /\ next.at = q.at
        /\ next.last = q.last
        /\ next.template = q.spec.template
    BY <1>2, <1>5 DEF Request, WithTemplate
  <2>5. StageOK(next)
    BY <1>2, <1>5, <2>1, <2>4 DEF StageOK, Stages, HasLast, ScopeOf
  <2>6. Proceed(r, next)
    BY <1>5
  <2> QED
    BY <1>1, <1>2, <2>3, <2>4, <2>5, <2>6, LocalStep
<1>6. ASSUME NEW custody \in Requirements, q.spec.op # "migrate", NEW next,
             next = [[q EXCEPT !.custody = custody] EXCEPT !.pc = "allowed"],
             Proceed(r, next)
      PROVE  IInv'
  <2>1. next \in Request
    BY <1>2, <1>6 DEF Request, Labels
  <2>2. /\ next.pc = "allowed"
        /\ next.spec = q.spec
        /\ next.key = q.key
        /\ next.policy = q.policy
        /\ next.at = q.at
        /\ next.last = q.last
    BY <1>2, <1>6 DEF Request
  <2>3. StageOK(next)
    BY <1>2, <1>6, <2>2 DEF StageOK, Stages, HasLast, ScopeOf
  <2>4. Proceed(r, next)
    BY <1>6
  <2> QED
    BY <1>1, <1>2, <2>1, <2>2, <2>3, <2>4, LocalStep
<1>7. ASSUME NEW d \in Consulted(q)
      PROVE  Custody(q, d) \in Requirements
  BY <1>2, <1>7, CustodyType
<1>8. ASSUME NEW d \in Consulted(q), q.spec.op = "migrate",
             Check(r, /\ q.spec.instance # q.last.provider
                      /\ TransfersMaterial(q.spec.strategy) => KeepsLineage(Custody(q, d), q.last)
                      /\ SourceFeasible(q.spec.strategy, q.source, q.last),
                   [[q EXCEPT !.custody = Custody(q, d)] EXCEPT
                        !.template = q.last.template,
                        !.pc = IF q.spec.type = NoType THEN "match" ELSE "list"])
      PROVE  IInv'
  BY <1>3, <1>4, <1>7, <1>8 DEF Check
<1>9. ASSUME NEW d \in Consulted(q), q.spec.op # "migrate", q.spec.template # NoTemplate,
             Check(r, ScopeOf(q) \in TemplateScopes[q.spec.template],
                   WithTemplate([q EXCEPT !.custody = Custody(q, d)], q.spec.template))
      PROVE  IInv'
  BY <1>3, <1>5, <1>7, <1>9 DEF Check
<1>10. ASSUME NEW d \in Consulted(q), q.spec.op # "migrate",
              Proceed(r, [[q EXCEPT !.custody = Custody(q, d)] EXCEPT !.pc = "allowed"])
       PROVE  IInv'
  BY <1>6, <1>7, <1>10
<1> QED
  BY <1>1, <1>3, <1>8, <1>9, <1>10 DEF ReadRequirements

LEMMA ReadAllowedOK ==
    ASSUME IInv, NEW r \in Requests, ReadAllowed(r)
    PROVE  IInv'
<1>1. PICK q : q = req[r]
  OBVIOUS
<1>2. /\ q \in Request
      /\ q.pc = "allowed"
      /\ StageOK(q)
      /\ At(r, "allowed")
      /\ q.spec \in RequestSpec
      /\ "allowed" \in Labels \ {"getKey"}
  BY <1>1, ActiveRequest DEF ReadAllowed, Labels
<1>3. CASE Refuse(r)
  BY <1>3, RefuseOK
<1>4. ASSUME NEW ts \in Seq(Templates), NEW next,
             next = [q EXCEPT !.pc = "servable", !.candidates = ts],
             Proceed(r, next)
      PROVE  IInv'
  <2>1. next \in Request
    BY <1>2, <1>4 DEF Request, Labels
  <2>2. /\ next.pc = "servable"
        /\ next.spec = q.spec
        /\ next.key = q.key
        /\ next.policy = q.policy
        /\ next.at = q.at
        /\ next.last = q.last
    BY <1>2, <1>4 DEF Request
  <2>3. StageOK(next)
    <3>1. q.spec.op \in {"create", "transform"}
      BY <1>2 DEF StageOK, Stages, RequestSpec
    <3> QED
      BY <1>2, <2>2, <3>1 DEF StageOK, Stages, HasLast, ScopeOf
  <2>4. Proceed(r, next)
    BY <1>4
  <2> QED
    BY <1>1, <1>2, <2>1, <2>2, <2>3, <2>4, LocalStep
<1> QED
  BY <1>1, <1>3, <1>4, ConsultedRules DEF ReadAllowed

(* The two steps at "servable" share what they know of the request. *)
LEMMA ServableRequest ==
    ASSUME IInv, NEW r \in Requests, At(r, "servable"), NEW q, q = req[r]
    PROVE  /\ q \in Request
           /\ q.pc = "servable"
           /\ StageOK(q)
           /\ q.spec.op \in {"create", "transform"}
<1>1. /\ q \in Request
      /\ q.pc = "servable"
      /\ StageOK(q)
      /\ q.spec \in RequestSpec
  BY ActiveRequest DEF Labels
<1> QED
  BY <1>1 DEF StageOK, Stages, RequestSpec

LEMMA TryCandidateOK ==
    ASSUME IInv, NEW r \in Requests, TryCandidate(r)
    PROVE  IInv'
<1>1. PICK q : q = req[r]
  OBVIOUS
<1>2. At(r, "servable") /\ q.candidates # <<>> /\ "servable" \in Labels \ {"getKey"}
  BY <1>1 DEF TryCandidate, Labels
<1>3. /\ q \in Request
      /\ q.pc = "servable"
      /\ StageOK(q)
      /\ q.spec.op \in {"create", "transform"}
  BY <1>1, <1>2, ServableRequest
<1>4. /\ q.candidates \in Seq(Templates)
      /\ q.servable \in Seq(Templates)
  BY <1>3 DEF Request
<1>5. /\ Head(q.candidates) \in Templates
      /\ Tail(q.candidates) \in Seq(Templates)
      /\ Append(q.servable, Head(q.candidates)) \in Seq(Templates)
  <2>1. PICK cs \in Seq(Templates), ss \in Seq(Templates) : cs = q.candidates /\ ss = q.servable
    BY <1>4
  <2>2. Head(cs) \in Templates /\ Tail(cs) \in Seq(Templates)
    BY <1>2, <2>1
  <2> QED
    BY <2>1, <2>2
<1>6. PICK ss \in Seq(Templates) :
         Proceed(r, [q EXCEPT !.candidates = Tail(q.candidates), !.servable = ss])
  <2>1. TryCandidate(r) =>
           \/ Proceed(r, [q EXCEPT !.candidates = Tail(q.candidates),
                                   !.servable = Append(q.servable, Head(q.candidates))])
           \/ Proceed(r, [q EXCEPT !.candidates = Tail(q.candidates), !.servable = q.servable])
    BY <1>1 DEF TryCandidate
  <2> QED
    BY <1>4, <1>5, <2>1
<1>7. PICK next : next = [q EXCEPT !.candidates = Tail(q.candidates), !.servable = ss]
  OBVIOUS
<1>8. next \in Request
  BY <1>3, <1>5, <1>6, <1>7 DEF Request
<1>9. /\ next.pc = "servable"
      /\ next.spec = q.spec
      /\ next.key = q.key
      /\ next.policy = q.policy
      /\ next.at = q.at
      /\ next.last = q.last
  BY <1>3, <1>7 DEF Request
<1>10. StageOK(next)
  BY <1>3, <1>9 DEF StageOK, Stages, HasLast, ScopeOf
<1>11. Proceed(r, next)
  BY <1>6, <1>7
<1> QED
  BY <1>1, <1>2, <1>8, <1>9, <1>10, <1>11, LocalStep

LEMMA SelectTemplateOK ==
    ASSUME IInv, NEW r \in Requests, SelectTemplate(r)
    PROVE  IInv'
<1>1. PICK q : q = req[r]
  OBVIOUS
<1>2. At(r, "servable") /\ "servable" \in Labels \ {"getKey"}
  BY DEF SelectTemplate, Labels
<1>3. /\ q \in Request
      /\ q.pc = "servable"
      /\ StageOK(q)
      /\ q.spec.op \in {"create", "transform"}
  BY <1>1, <1>2, ServableRequest
<1>4. CASE Refuse(r)
  BY <1>4, RefuseOK
<1>5. ASSUME NEW t \in Templates, NEW next, next = WithTemplate(q, t), Proceed(r, next)
      PROVE  IInv'
  <2>1. next \in Request
    <3>1. \A l \in Labels : [q EXCEPT !.template = t, !.pc = l] \in Request
      BY <1>3, <1>5 DEF Request
    <3> QED
      BY <1>5, <3>1 DEF Labels, WithTemplate
  <2>2. /\ next.pc = (IF q.spec.op = "create" THEN "validate" ELSE "match")
        /\ next.spec = q.spec
        /\ next.key = q.key
        /\ next.policy = q.policy
        /\ next.at = q.at
        /\ next.last = q.last
        /\ next.template = t
    BY <1>3, <1>5 DEF Request, WithTemplate
  <2>3. StageOK(next)
    BY <1>3, <1>5, <2>2 DEF StageOK, Stages, HasLast, ScopeOf
  <2>4. Proceed(r, next)
    BY <1>5
  <2> QED
    BY <1>1, <1>2, <2>1, <2>2, <2>3, <2>4, LocalStep
<1> QED
  BY <1>1, <1>4, <1>5 DEF SelectTemplate, FirstInScope

(* What a Match, pinned or not, may return. *)
LEMMA MatchResult ==
    ASSUME NEW n, NEW q, NEW t, NEW b \in Match(registry, n, q, t)
    PROVE  b \in Backends /\ (n # NoInstance => Desc[b].name = n)
BY DEF Match, MatchPinned, MatchFirst, Registered

LEMMA MatchProviderOK ==
    ASSUME IInv, NEW r \in Requests, MatchProvider(r)
    PROVE  IInv'
<1>1. PICK q : q = req[r]
  OBVIOUS
<1>2. /\ q \in Request
      /\ q.pc = "match"
      /\ StageOK(q)
      /\ At(r, "match")
      /\ q.spec \in RequestSpec
      /\ q.spec.op \in {"create", "transform", "migrate"}
      /\ "match" \in Labels \ {"getKey"}
  <2>1. /\ q \in Request
        /\ q.pc = "match"
        /\ StageOK(q)
        /\ At(r, "match")
        /\ q.spec \in RequestSpec
    BY <1>1, ActiveRequest DEF MatchProvider, Labels
  <2>2. q.spec.op # "delete"
    BY <2>1 DEF StageOK, Stages
  <2> QED
    BY <2>1, <2>2 DEF RequestSpec, Labels
<1>3. q.template \in Templates
  BY <1>2 DEF StageOK
<1>4. CASE Refuse(r)
  BY <1>4, RefuseOK
<1>5. ASSUME q.spec.op = "create", NEW b \in Backends, NEW next,
             next = WithVersion(q, NewVersion(1, q.template, b, ScopeOf(q),
                                              GeneratedPayload(b, q.template),
                                              GeneratedProvenance(b, q.template))),
             Proceed(r, next)
      PROVE  IInv'
  <2>1. PICK v : v = NewVersion(1, q.template, b, ScopeOf(q),
                                GeneratedPayload(b, q.template),
                                GeneratedProvenance(b, q.template))
    OBVIOUS
  <2>2. ScopeOf(q) \in Scopes
    BY <1>2, <1>5 DEF RequestSpec, ScopeOf
  <2>3. v \in KeyVersion /\ v.version = 1 /\ Generated(v)
    BY <1>3, <2>1, <2>2, GeneratedVersion
  <2>4. next = [q EXCEPT !.new = v, !.pc = "persist"]
    BY <1>5, <2>1 DEF WithVersion
  <2>5. next \in Request
    BY <1>2, <2>3, <2>4 DEF Request, Labels
  <2>6. /\ next.pc = "persist"
        /\ next.spec = q.spec
        /\ next.key = q.key
        /\ next.policy = q.policy
        /\ next.at = q.at
        /\ next.last = q.last
        /\ next.new = v
    BY <1>2, <2>4 DEF Request
  <2>7. StageOK(next)
    BY <1>2, <1>5, <2>3, <2>6 DEF StageOK, Stages, HasLast, ScopeOf, Built
  <2>8. Proceed(r, next)
    BY <1>5
  <2> QED
    BY <1>1, <1>2, <2>5, <2>6, <2>7, <2>8, LocalStep
<1>6. ASSUME q.spec.op # "create", NEW b \in Match(registry, Pin(q), q.custody, q.template),
             q.spec.op = "migrate" => TargetFeasible(q.spec.strategy, q.source, b, q.last),
             NEW next, next = [q EXCEPT !.target = b, !.pc = "validate"],
             Proceed(r, next)
      PROVE  IInv'
  <2>1. b \in Backends /\ (Pin(q) # NoInstance => Desc[b].name = Pin(q))
    BY <1>6, MatchResult
  <2>2. q.last \in KeyVersion /\ q.last.provider \in Instances
    BY <1>2, <1>6 DEF StageOK, HasLast, KeyVersion
  <2>3. q.spec.op = "transform" => Desc[b].name = q.last.provider
    BY <2>1, <2>2, BackendAssumption DEF Pin
  <2>4. q.spec.op = "migrate" => Desc[b].name # q.last.provider
    BY <1>2, <2>1, BackendAssumption DEF Pin, StageOK
  <2>5. next \in Request
    BY <1>2, <1>6, <2>1 DEF Request, Labels
  <2>6. /\ next.pc = "validate"
        /\ next.spec = q.spec
        /\ next.key = q.key
        /\ next.policy = q.policy
        /\ next.at = q.at
        /\ next.last = q.last
        /\ next.template = q.template
        /\ next.source = q.source
        /\ next.target = b
    BY <1>2, <1>6 DEF Request
  <2>7. TargetChosen(next)
    BY <1>6, <2>1, <2>3, <2>4, <2>6 DEF TargetChosen
  <2>8. StageOK(next)
    BY <1>2, <1>6, <2>6, <2>7 DEF StageOK, Stages, HasLast, ScopeOf
  <2>9. Proceed(r, next)
    BY <1>6
  <2> QED
    BY <1>1, <1>2, <2>5, <2>6, <2>8, <2>9, LocalStep
<1> QED
  <2>1. CASE q.spec.op = "create"
    <3>1. \A b \in Match(registry, Pin(q), q.custody, q.template) : b \in Backends
      BY MatchResult
    <3> QED
      BY <1>1, <1>4, <1>5, <2>1, <3>1 DEF MatchProvider
  <2>2. CASE q.spec.op # "create"
    BY <1>1, <1>4, <1>6, <2>2 DEF MatchProvider
  <2> QED
    BY <2>1, <2>2

LEMMA ListTargetsOK ==
    ASSUME IInv, NEW r \in Requests, ListTargets(r)
    PROVE  IInv'
<1>1. PICK q : q = req[r]
  OBVIOUS
<1>2. /\ q \in Request
      /\ q.pc = "list"
      /\ StageOK(q)
      /\ At(r, "list")
      /\ q.spec \in RequestSpec
      /\ "list" \in Labels \ {"getKey"}
  BY <1>1, ActiveRequest DEF ListTargets, Labels
<1>3. PICK next : next = [q EXCEPT !.pc = "search", !.listing = registry]
  OBVIOUS
<1>4. Proceed(r, next)
  BY <1>1, <1>3 DEF ListTargets
<1>5. next \in Request
  BY <1>2, <1>3 DEF Request, Labels, IInv, TypeOK
<1>6. /\ next.pc = "search"
      /\ next.spec = q.spec
      /\ next.key = q.key
      /\ next.policy = q.policy
      /\ next.at = q.at
      /\ next.last = q.last
      /\ next.template = q.template
      /\ next.source = q.source
  BY <1>2, <1>3 DEF Request
<1>7. StageOK(next)
  <2>1. q.spec.op = "migrate"
    BY <1>2 DEF StageOK, Stages, RequestSpec
  <2> QED
    BY <1>2, <1>6, <2>1 DEF StageOK, Stages, HasLast, ScopeOf
<1> QED
  BY <1>1, <1>2, <1>4, <1>5, <1>6, <1>7, LocalStep

LEMMA TryTargetOK ==
    ASSUME IInv, NEW r \in Requests, TryTarget(r)
    PROVE  IInv'
<1>1. PICK q : q = req[r]
  OBVIOUS
<1>2. /\ q \in Request
      /\ q.pc = "search"
      /\ StageOK(q)
      /\ At(r, "search")
      /\ q.spec.op = "migrate"
      /\ "search" \in Labels \ {"getKey"}
  <2>1. /\ q \in Request
        /\ q.pc = "search"
        /\ StageOK(q)
        /\ At(r, "search")
        /\ q.spec \in RequestSpec
    BY <1>1, ActiveRequest DEF TryTarget, Labels
  <2> QED
    BY <2>1 DEF StageOK, Stages, RequestSpec, Labels
<1>3. CASE Refuse(r)
  BY <1>3, RefuseOK
<1>4. ASSUME NEW i \in Untried(q),
             NEW b \in MatchPinned(registry, Desc[q.listing[i]].name, q.custody, q.template),
             TargetFeasible(q.spec.strategy, q.source, b, q.last),
             NEW next, next = [q EXCEPT !.target = b, !.pc = "validate"],
             Proceed(r, next)
      PROVE  IInv'
  <2>1. b \in Backends /\ Desc[b].name # q.last.provider
    BY <1>4 DEF MatchPinned, Registered, Untried
  <2>2. next \in Request
    BY <1>2, <1>4, <2>1 DEF Request, Labels
  <2>3. /\ next.pc = "validate"
        /\ next.spec = q.spec
        /\ next.key = q.key
        /\ next.policy = q.policy
        /\ next.at = q.at
        /\ next.last = q.last
        /\ next.template = q.template
        /\ next.source = q.source
        /\ next.target = b
    BY <1>2, <1>4 DEF Request
  <2>4. TargetChosen(next)
    BY <1>2, <1>4, <2>1, <2>3 DEF TargetChosen
  <2>5. StageOK(next)
    BY <1>2, <2>3, <2>4 DEF StageOK, Stages, HasLast, ScopeOf
  <2>6. Proceed(r, next)
    BY <1>4
  <2> QED
    BY <1>1, <1>2, <2>2, <2>3, <2>5, <2>6, LocalStep
<1>5. ASSUME NEW i \in Untried(q), NEW next, next = [q EXCEPT !.tried = @ \union {i}],
             Proceed(r, next)
      PROVE  IInv'
  <2>1. i \in Nat /\ q.tried \in SUBSET Nat
    <3>1. q.listing \in Seq(Backends) /\ q.tried \in SUBSET Nat
      BY <1>2 DEF Request
    <3>2. i \in DOMAIN q.listing
      BY <1>5 DEF Untried
    <3> QED
      BY <3>1, <3>2
  <2>2. q.tried \union {i} \in SUBSET Nat
    BY <2>1
  <2>3. next \in Request
    BY <1>2, <1>5, <2>2 DEF Request
  <2>4. /\ next.pc = "search"
        /\ next.spec = q.spec
        /\ next.key = q.key
        /\ next.policy = q.policy
        /\ next.at = q.at
        /\ next.last = q.last
        /\ next.template = q.template
        /\ next.source = q.source
    BY <1>2, <1>5 DEF Request
  <2>5. StageOK(next)
    BY <1>2, <2>4 DEF StageOK, Stages, HasLast, ScopeOf
  <2>6. Proceed(r, next)
    BY <1>5
  <2> QED
    BY <1>1, <1>2, <2>3, <2>4, <2>5, <2>6, LocalStep
<1> QED
  BY <1>1, <1>3, <1>4, <1>5 DEF TryTarget

(* What ValidateOp builds from a chosen target is the version after last,   *)
(* generated or kept from it.                                               *)
LEMMA NextVersionBuilt ==
    ASSUME NEW q \in Request, StageOK(q), q.pc = "validate",
           q.spec.op \in {"transform", "migrate"},
           q.spec.op = "transform" /\ q.spec.retain => MayRetain(q),
           NEW v, v = NextVersion(q)
    PROVE  /\ v \in KeyVersion
           /\ v.version = q.last.version + 1
           /\ v.scope = q.last.scope
           /\ Generated(v) \/ KeptFrom(v, q.last)
<1>1. /\ q.last \in KeyVersion
      /\ q.last.version + 1 \in Nat \ {0}
      /\ q.last.scope \in Scopes
      /\ ScopeOf(q) = q.last.scope
  BY DEF StageOK, HasLast, KeyVersion
<1>2. /\ q.template \in Templates
      /\ q.target \in Backends
      /\ TargetChosen(q)
  BY DEF StageOK, TargetChosen
<1>3. CASE ~Keeps(q)
  <2>1. v = NewVersion(q.last.version + 1, q.template, q.target, q.last.scope,
                       GeneratedPayload(q.target, q.template),
                       GeneratedProvenance(q.target, q.template))
    BY <1>1, <1>3 DEF NextVersion
  <2> QED
    BY <1>1, <1>2, <2>1, GeneratedVersion
<1>4. CASE q.spec.op = "transform" /\ Keeps(q)
  <2>1. v = NewVersion(q.last.version + 1, q.template, q.target, q.last.scope, q.last.payload,
                       KeptProvenance(q.last, q.target, q.template, "RETAINED"))
    BY <1>1, <1>4 DEF NextVersion
  <2>2. /\ q.last.payload.encoding \in Accept(q.target, q.template).stored
        /\ <<q.last.template, q.template>> \in Compatible
    BY <1>4 DEF MayRetain, RetainFeasible, Keeps
  <2>3. Desc[q.target].name = q.last.provider
    BY <1>2, <1>4 DEF TargetChosen
  <2> QED
    BY <1>1, <1>2, <2>1, <2>2, <2>3, KeptVersion
<1>5. CASE q.spec.op = "migrate" /\ Keeps(q)
  <2>1. v = NewVersion(q.last.version + 1, q.template, q.target, q.last.scope, q.last.payload,
                       KeptProvenance(q.last, q.target, q.template, "TRANSFERRED"))
    BY <1>1, <1>5 DEF NextVersion
  <2>2. q.spec.strategy = "PROVIDER_SWITCH" /\ q.template = q.last.template
    BY <1>5 DEF Keeps, StageOK
  <2>3. q.last.extractable
    BY <1>5, <2>2 DEF StageOK, SourceFeasible
  <2>4. q.last.payload.encoding \in Accept(q.target, q.template).stored
    BY <1>2, <1>5, <2>2 DEF TargetChosen, TargetFeasible
  <2>5. Desc[q.target].name # q.last.provider
    BY <1>2, <1>5 DEF TargetChosen
  <2>6. PICK u \in KeyVersion, b \in Backends, t \in Templates :
           u = q.last /\ b = q.target /\ t = q.template
    BY <1>1, <1>2
  <2>7. /\ u.payload.encoding \in Accept(b, t).stored
        /\ Desc[b].name # u.provider
        /\ t = u.template
        /\ u.extractable
    BY <2>2, <2>3, <2>4, <2>5, <2>6
  <2>8. PICK kind \in {"RETAINED", "TRANSFERRED"} :
           /\ kind # "RETAINED"
           /\ v = NewVersion(u.version + 1, t, b, u.scope, u.payload,
                             KeptProvenance(u, b, t, kind))
    BY <2>1, <2>6
  <2>9. /\ u.payload.encoding \in Accept(b, t).stored
        /\ kind = "RETAINED" => Desc[b].name = u.provider /\ <<u.template, t>> \in Compatible
        /\ kind = "TRANSFERRED" => Desc[b].name # u.provider /\ t = u.template /\ u.extractable
    BY <2>7, <2>8
  <2>10. v \in KeyVersion /\ v.version = u.version + 1 /\ v.scope = u.scope /\ KeptFrom(v, u)
    BY <2>8, <2>9, KeptVersion
  <2> QED
    BY <2>6, <2>10
<1> QED
  BY <1>3, <1>4, <1>5

LEMMA ValidateOpOK ==
    ASSUME IInv, NEW r \in Requests, ValidateOp(r)
    PROVE  IInv'
<1>1. PICK q : q = req[r]
  OBVIOUS
<1>2. /\ q \in Request
      /\ q.pc = "validate"
      /\ StageOK(q)
      /\ At(r, "validate")
      /\ q.spec.op \in {"create", "transform", "migrate"}
      /\ "validate" \in Labels \ {"getKey"}
  <2>1. /\ q \in Request
        /\ q.pc = "validate"
        /\ StageOK(q)
        /\ At(r, "validate")
        /\ q.spec \in RequestSpec
    BY <1>1, ActiveRequest DEF ValidateOp, Labels
  <2>2. q.spec.op # "delete"
    BY <2>1 DEF StageOK, Stages
  <2> QED
    BY <2>1, <2>2 DEF RequestSpec, Labels
<1>3. CASE Refuse(r)
  BY <1>3, RefuseOK
<1>4. ASSUME q.spec.op = "create", NEW next, next = [q EXCEPT !.pc = "match"], Proceed(r, next)
      PROVE  IInv'
  <2>1. next \in Request
    BY <1>2, <1>4 DEF Request, Labels
  <2>2. /\ next.pc = "match"
        /\ next.spec = q.spec
        /\ next.key = q.key
        /\ next.policy = q.policy
        /\ next.at = q.at
        /\ next.last = q.last
        /\ next.template = q.template
    BY <1>2, <1>4 DEF Request
  <2>3. StageOK(next)
    BY <1>2, <1>4, <2>2 DEF StageOK, Stages, HasLast, ScopeOf
  <2>4. Proceed(r, next)
    BY <1>4
  <2> QED
    BY <1>1, <1>2, <2>1, <2>2, <2>3, <2>4, LocalStep
<1>5. ASSUME q.spec.op # "create", q.spec.op = "transform" /\ q.spec.retain => MayRetain(q),
             Proceed(r, WithVersion(q, NextVersion(q)))
      PROVE  IInv'
  <2>1. PICK v : v = NextVersion(q)
    OBVIOUS
  <2>2. /\ v \in KeyVersion
        /\ v.version = q.last.version + 1
        /\ v.scope = q.last.scope
        /\ Generated(v) \/ KeptFrom(v, q.last)
    BY <1>2, <1>5, <2>1, NextVersionBuilt
  <2>3. PICK next : next = [q EXCEPT !.new = v, !.pc = "persist"]
    OBVIOUS
  <2>4. Proceed(r, next)
    BY <1>5, <2>1, <2>3 DEF WithVersion
  <2>5. next \in Request
    BY <1>2, <2>2, <2>3 DEF Request, Labels
  <2>6. /\ next.pc = "persist"
        /\ next.spec = q.spec
        /\ next.key = q.key
        /\ next.policy = q.policy
        /\ next.at = q.at
        /\ next.last = q.last
        /\ next.new = v
    BY <1>2, <2>3 DEF Request
  <2>7. Built(next)
    BY <1>5, <2>2, <2>6 DEF Built
  <2>8. StageOK(next)
    BY <1>2, <1>5, <2>6, <2>7 DEF StageOK, Stages, HasLast, ScopeOf
  <2> QED
    BY <1>1, <1>2, <2>4, <2>5, <2>6, <2>8, LocalStep
<1> QED
  BY <1>1, <1>3, <1>4, <1>5 DEF ValidateOp, Check

-----------------------------------------------------------------------------
(* The writes, each a step of the abstract specification. *)

LEMMA AbstractStepOK ==
    ASSUME IInv, NEW r \in Requests, NEW k \in KeyIds, NEW key, Write(r, k, key),
           KeyCreated(k) \/ VersionAdded(k) \/ KeyDeleted(k), KeysGrow
    PROVE  IInv'
<1>1. KeysTypeOK' /\ LineageInv'
  BY KeysNextOK DEF IInv, TypeOK, KeysNext
<1>2. /\ UNCHANGED <<registry, policies>>
      /\ req' = [req EXCEPT ![r] = Idle]
      /\ inForce' = [inForce EXCEPT ![r] = {}]
  BY DEF Write, End
<1>3. /\ req' \in [Requests -> Request \union {Idle}]
      /\ StagesOK'
      /\ SnapshotIsPast'
  BY <1>2, RequestEnds
<1> QED
  BY <1>1, <1>2, <1>3 DEF IInv, TypeOK

LEMMA PersistKeyWrites ==
    ASSUME IInv, NEW r \in Requests, PersistKey(r), ~Refuse(r)
    PROVE  \E k \in KeyIds, key \in Key :
              Write(r, k, key) /\ KeyCreated(k) /\ KeysGrow
<1>1. PICK q : q = req[r]
  OBVIOUS
<1>2. /\ q \in Request
      /\ StageOK(q)
      /\ q.pc = "persist"
      /\ q.spec \in RequestSpec
      /\ q.spec.op = "create"
  BY <1>1, ActiveRequest DEF PersistKey, Labels
<1>3. /\ q.new \in KeyVersion
      /\ q.new.version = 1
      /\ Generated(q.new)
      /\ q.policy \in PolicyNames
      /\ q.spec.name \in KeyNames
  BY <1>2 DEF StageOK, Built, RequestSpec
<1>4. PICK key : key = [status |-> "live", name |-> q.spec.name, policy |-> q.policy,
                        versions |-> <<q.new>>]
  OBVIOUS
<1>5. PICK k \in KeyIds : keys[k].status = "unused" /\ Write(r, k, key)
  BY <1>1, <1>4 DEF PersistKey
<1>6. <<q.new>> \in Seq(KeyVersion) /\ Len(<<q.new>>) = 1 /\ <<q.new>>[1] = q.new
  BY <1>3
<1>7. key \in Key
  BY <1>3, <1>4, <1>6 DEF Key, Status
<1>8. keys \in [KeyIds -> Key] /\ keys' = [keys EXCEPT ![k] = key]
  BY <1>5 DEF Write, IInv, TypeOK, KeysTypeOK
<1>9. keys'[k] = key
  BY <1>8
<1>10. KeyCreated(k)
  BY <1>3, <1>4, <1>5, <1>6, <1>7, <1>8, <1>9 DEF KeyCreated
<1>11. KeysGrow
  BY <1>4, <1>5, <1>8 DEF KeysGrow
<1> QED
  BY <1>5, <1>7, <1>10, <1>11

LEMMA PersistVersionWrites ==
    ASSUME IInv, NEW r \in Requests, PersistVersion(r), ~Refuse(r)
    PROVE  \E k \in KeyIds, key \in Key :
              Write(r, k, key) /\ VersionAdded(k) /\ KeysGrow
<1>1. PICK q : q = req[r]
  OBVIOUS
<1>2. /\ q \in Request
      /\ StageOK(q)
      /\ q.pc = "persist"
      /\ q.spec.op # "create"
      /\ Located(q) => Remembers(q)
      /\ q.spec \in RequestSpec
  BY <1>1, ActiveRequest DEF PersistVersion, Labels
<1>3. Remembers(q) /\ Built(q) /\ q.last \in KeyVersion
  <2>1. q.spec.op \in {"transform", "migrate"}
    BY <1>2 DEF StageOK, Stages, RequestSpec
  <2> QED
    BY <1>2, <2>1 DEF Located, StageOK, HasLast
<1>4. PICK k \in KeyIds : k = q.key
  BY <1>3 DEF Remembers
<1>5. PICK vs : vs = keys[k].versions
  OBVIOUS
<1>6. PICK key : key = [keys[k] EXCEPT !.versions = Append(vs, q.new)]
  OBVIOUS
<1>7. /\ keys[k].status = "live"
      /\ q.new.version = Len(vs) + 1
      /\ Write(r, k, key)
  BY <1>1, <1>2, <1>4, <1>5, <1>6 DEF PersistVersion
<1>8. /\ keys \in [KeyIds -> Key]
      /\ keys[k] \in Key
      /\ vs \in Seq(KeyVersion)
      /\ Len(vs) \in Nat
  <2>1. keys \in [KeyIds -> Key] /\ keys[k] \in Key
    BY DEF IInv, TypeOK, KeysTypeOK
  <2>2. vs \in Seq(KeyVersion)
    BY <1>5, <2>1 DEF Key
  <2> QED
    BY <2>1, <2>2
<1>9. /\ q.new \in KeyVersion
      /\ Append(vs, q.new) \in Seq(KeyVersion)
      /\ Len(Append(vs, q.new)) = Len(vs) + 1
      /\ Append(vs, q.new)[Len(vs) + 1] = q.new
      /\ DOMAIN Append(vs, q.new) = 1..(Len(vs) + 1)
      /\ DOMAIN vs = 1..Len(vs)
      /\ \A i \in 1..Len(vs) : Append(vs, q.new)[i] = vs[i]
  BY <1>2, <1>3, <1>8 DEF Built
<1>10. key \in Key
  BY <1>6, <1>8, <1>9 DEF Key
<1>11. /\ key.status = "live"
       /\ key.policy = keys[k].policy
       /\ key.versions = Append(vs, q.new)
  BY <1>6, <1>7, <1>8 DEF Key
<1>12. keys' = [keys EXCEPT ![k] = key] /\ keys'[k] = key
  BY <1>7, <1>8 DEF Write
<1>13. q.last = vs[Len(vs)]
  <2>1. q.last.version = Len(vs)
    BY <1>2, <1>3, <1>7, <1>8 DEF Built, KeyVersion
  <2>2. q.last # NoVersion
    BY <1>3, OrchestratorAssumption
  <2> QED
    BY <1>3, <1>4, <1>5, <1>7, <2>1, <2>2 DEF Remembers
<1>14. VersionAdded(k)
  <2>1. keys' = [keys EXCEPT ![k].versions = Append(vs, q.new)]
    BY <1>6, <1>8, <1>12
  <2>2. keys'[k].versions[Len(vs) + 1] = q.new
    BY <1>9, <1>11, <1>12
  <2>3. Len(keys'[k].versions) = Len(vs) + 1
    BY <1>9, <1>11, <1>12
  <2>4. /\ q.new.scope = vs[Len(vs)].scope
        /\ Generated(q.new) \/ KeptFrom(q.new, vs[Len(vs)])
    BY <1>2, <1>3, <1>13 DEF Built
  <2> QED
    BY <1>5, <1>7, <1>9, <2>1, <2>2, <2>3, <2>4 DEF VersionAdded
<1>15. KeysGrow
  BY <1>5, <1>7, <1>8, <1>9, <1>11, <1>12 DEF KeysGrow
<1> QED
  BY <1>7, <1>10, <1>14, <1>15

LEMMA DeleteKeyWrites ==
    ASSUME IInv, NEW r \in Requests, DeleteKey(r), ~Refuse(r)
    PROVE  \E k \in KeyIds, key \in Key :
              Write(r, k, key) /\ KeyDeleted(k) /\ KeysGrow
<1>1. PICK q : q = req[r]
  OBVIOUS
<1>2. /\ StageOK(q)
      /\ q.pc = "delete"
      /\ Located(q) => Remembers(q)
      /\ q.spec \in RequestSpec
  BY <1>1, ActiveRequest DEF DeleteKey, Labels
<1>3. q.key \in KeyIds
  <2>1. q.spec.op = "delete"
    BY <1>2 DEF StageOK, Stages, RequestSpec
  <2> QED
    BY <1>2, <2>1 DEF Located, Remembers
<1>4. keys[q.key].status = "live" /\ Write(r, q.key, NoKey("deleted"))
  BY <1>1 DEF DeleteKey
<1>5. /\ NoKey("deleted") \in Key
      /\ NoKey("deleted").status = "deleted"
  BY NoKeyIsKey DEF NoKey, Status
<1>6. keys \in [KeyIds -> Key] /\ keys' = [keys EXCEPT ![q.key] = NoKey("deleted")]
  BY <1>4 DEF Write, IInv, TypeOK, KeysTypeOK
<1>7. KeyDeleted(q.key)
  BY <1>4, <1>6 DEF KeyDeleted
<1>8. KeysGrow
  BY <1>3, <1>5, <1>6 DEF KeysGrow
<1> QED
  BY <1>3, <1>4, <1>5, <1>7, <1>8

-----------------------------------------------------------------------------
(* Every step: it preserves the invariant, and is a step of the abstract    *)
(* specification or leaves the keys alone.                                  *)

LEMMA InitOK == Init => IInv
<1> SUFFICES ASSUME Init PROVE IInv
  OBVIOUS
<1>1. KeysTypeOK /\ LineageInv
  BY KeysInitOK DEF Init
<1>2. /\ registry \in Seq(Backends)
      /\ Distinct(registry)
      /\ policies \in [PolicyNames -> PolicyDocs \union {NoPolicy}]
  BY OrchestratorAssumption DEF Init
<1>3. /\ req \in [Requests -> Request \union {Idle}]
      /\ inForce \in [Requests -> SUBSET (PolicyNames \X (PolicyDocs \union {NoPolicy}))]
      /\ \A r \in Requests : ~Active(r)
  BY DEF Init, Active
<1>4. StagesOK /\ SnapshotIsPast
  BY <1>3 DEF StagesOK, SnapshotIsPast
<1> QED
  BY <1>1, <1>2, <1>3, <1>4 DEF IInv, TypeOK

LEMMA BeginOK ==
    ASSUME IInv, NEW r \in Requests, NEW s \in Specs, Begin(r, s)
    PROVE  IInv'
<1>1. PICK next : next = Start(s)
  OBVIOUS
<1>2. s \in RequestSpec
  BY OrchestratorAssumption
<1>3. /\ s.policy \in PolicyNames
      /\ s.op \in {"create", "transform", "migrate", "delete"}
  BY <1>2 DEF RequestSpec
<1>4. next \in Request
  <2>1. NothingRequired \in Requirements
    BY DEF NothingRequired, Requirements, MaxFIPS140Level
  <2>2. <<>> \in Seq(Templates) /\ <<>> \in Seq(Backends)
    OBVIOUS
  <2> QED
    BY <1>1, <1>3, <2>1, <2>2 DEF Start, Request, Labels
<1>5. /\ next.pc = (IF s.op = "create" THEN "requirements" ELSE "getKey")
      /\ next.spec = s
      /\ next.policy = (IF s.op = "create" THEN s.policy ELSE "")
      /\ next.last = NoVersion
  BY <1>1 DEF Start
<1>6. StageOK(next)
  BY <1>3, <1>5 DEF StageOK, Stages, HasLast, ScopeOf
<1>7. UNCHANGED keys /\ req' = [req EXCEPT ![r] = next]
  BY <1>1 DEF Begin
<1>8. /\ req' \in [Requests -> Request \union {Idle}]
      /\ StagesOK'
      /\ SnapshotIsPast'
  BY <1>4, <1>5, <1>6, <1>7, StutterGrows, RequestUpdate
<1>9. inForce' \in [Requests -> SUBSET (PolicyNames \X (PolicyDocs \union {NoPolicy}))]
  BY DEF Begin, IInv, TypeOK
<1> QED
  BY <1>7, <1>8, <1>9 DEF IInv, TypeOK, KeysTypeOK, LineageInv, Begin

LEMMA PutPolicyOK ==
    ASSUME IInv, NEW p \in PolicyNames, NEW d \in PolicyEdits, PutPolicy(p, d)
    PROVE  IInv'
<1>1. d \in PolicyDocs \union {NoPolicy}
  BY OrchestratorAssumption
<1>2. policies' \in [PolicyNames -> PolicyDocs \union {NoPolicy}]
  BY <1>1 DEF PutPolicy, IInv, TypeOK
<1>3. inForce' \in [Requests -> SUBSET (PolicyNames \X (PolicyDocs \union {NoPolicy}))]
  BY <1>1 DEF PutPolicy, IInv, TypeOK
<1>4. UNCHANGED <<keys, registry, req>>
  BY DEF PutPolicy
<1> QED
  BY <1>2, <1>3, <1>4
  DEF IInv, TypeOK, KeysTypeOK, LineageInv, StagesOK, SnapshotIsPast, Active, Remembers

LEMMA RegistryStepOK ==
    ASSUME IInv, registry' \in Seq(Backends), Distinct(registry'),
           UNCHANGED <<keys, policies, req, inForce>>
    PROVE  IInv'
BY DEF IInv, TypeOK, KeysTypeOK, LineageInv, StagesOK, SnapshotIsPast, Active, Remembers, Distinct

LEMMA RegisterBackendOK ==
    ASSUME IInv, NEW b \in Reconfigurable, RegisterBackend(b)
    PROVE  IInv'
<1>1. b \in Backends
  BY OrchestratorAssumption
<1>2. registry \in Seq(Backends) /\ Distinct(registry)
  BY DEF IInv, TypeOK
<1>3. PICK new : new = registry'
  OBVIOUS
<1>4. /\ new = Append(registry, b)
      /\ new \in Seq(Backends)
      /\ Len(new) = Len(registry) + 1
      /\ DOMAIN new = 1..(Len(registry) + 1)
      /\ DOMAIN registry = 1..Len(registry)
      /\ new[Len(registry) + 1] = b
      /\ \A i \in 1..Len(registry) : new[i] = registry[i]
  BY <1>1, <1>2, <1>3 DEF RegisterBackend
<1>5. \A i \in 1..Len(registry) : Desc[new[i]].name # Desc[b].name
  BY <1>2, <1>4 DEF RegisterBackend, Registered
<1>6. Distinct(new)
  BY <1>2, <1>4, <1>5 DEF Distinct
<1> QED
  BY <1>3, <1>4, <1>6, RegistryStepOK DEF RegisterBackend

LEMMA RemoveBackendOK ==
    ASSUME IInv, NEW b \in Reconfigurable, RemoveBackend(b)
    PROVE  IInv'
<1>1. registry \in Seq(Backends) /\ Distinct(registry)
  BY DEF IInv, TypeOK
<1>2. PICK i \in DOMAIN registry :
         registry' = [j \in 1..(Len(registry) - 1) |->
                        IF j < i THEN registry[j] ELSE registry[j + 1]]
  BY DEF RemoveBackend
<1>3. PICK new : new = registry'
  OBVIOUS
<1>4. /\ Len(registry) \in Nat
      /\ DOMAIN registry = 1..Len(registry)
      /\ i \in 1..Len(registry)
      /\ Len(registry) - 1 \in Nat
  BY <1>1, <1>2
<1>5. /\ new = [j \in 1..(Len(registry) - 1) |->
                  IF j < i THEN registry[j] ELSE registry[j + 1]]
      /\ \A j \in 1..(Len(registry) - 1) : j \in 1..Len(registry) /\ j + 1 \in 1..Len(registry)
  BY <1>2, <1>3, <1>4
<1>6. new \in Seq(Backends)
  <2>1. \A j \in 1..(Len(registry) - 1) :
           (IF j < i THEN registry[j] ELSE registry[j + 1]) \in Backends
    BY <1>1, <1>4, <1>5
  <2> QED
    BY <1>4, <1>5, <2>1
<1>7. Distinct(new)
  BY <1>1, <1>4, <1>5 DEF Distinct
<1> QED
  BY <1>3, <1>6, <1>7, RegistryStepOK DEF RemoveBackend

LEMMA StepOK ==
    ASSUME IInv, NEW r \in Requests, Step(r)
    PROVE  IInv'
<1>1. CASE GetKey(r)            BY <1>1, GetKeyOK
<1>2. CASE GetVersion(r)        BY <1>2, GetVersionOK
<1>3. CASE GetSource(r)         BY <1>3, GetSourceOK
<1>4. CASE ReadRequirements(r)  BY <1>4, ReadRequirementsOK
<1>5. CASE ReadAllowed(r)       BY <1>5, ReadAllowedOK
<1>6. CASE TryCandidate(r)      BY <1>6, TryCandidateOK
<1>7. CASE SelectTemplate(r)    BY <1>7, SelectTemplateOK
<1>8. CASE MatchProvider(r)     BY <1>8, MatchProviderOK
<1>9. CASE ListTargets(r)       BY <1>9, ListTargetsOK
<1>10. CASE TryTarget(r)        BY <1>10, TryTargetOK
<1>11. CASE ValidateOp(r)       BY <1>11, ValidateOpOK
<1>12. CASE PersistKey(r)       BY <1>12, PersistKeyWrites, AbstractStepOK, RefuseOK
<1>13. CASE PersistVersion(r)   BY <1>13, PersistVersionWrites, AbstractStepOK, RefuseOK
<1>14. CASE DeleteKey(r)        BY <1>14, DeleteKeyWrites, AbstractStepOK, RefuseOK
<1> QED
  BY <1>1, <1>2, <1>3, <1>4, <1>5, <1>6, <1>7, <1>8, <1>9, <1>10, <1>11, <1>12, <1>13, <1>14
  DEF Step

LEMMA NextOK ==
    ASSUME IInv, [Next]_vars
    PROVE  IInv'
<1>1. ASSUME NEW r \in Requests, NEW s \in Specs, Begin(r, s)
      PROVE  IInv'
  BY <1>1, BeginOK
<1>2. ASSUME NEW r \in Requests, Step(r)
      PROVE  IInv'
  BY <1>2, StepOK
<1>3. ASSUME NEW r \in Requests, DependencyError(r)
      PROVE  IInv'
  BY <1>3, RefuseOK DEF DependencyError
<1>4. CASE Environment
  BY <1>4, PutPolicyOK, RegisterBackendOK, RemoveBackendOK DEF Environment
<1>5. CASE UNCHANGED vars
  BY <1>5
  DEF vars, IInv, TypeOK, KeysTypeOK, LineageInv, StagesOK, SnapshotIsPast, Active, Remembers
<1> QED
  BY <1>1, <1>2, <1>3, <1>4, <1>5 DEF Next

LEMMA StepRefines ==
    ASSUME IInv, [Next]_vars
    PROVE  [KeysNext]_keys
<1>1. ASSUME NEW r \in Requests, Step(r)
      PROVE  [KeysNext]_keys
  <2>1. CASE Refuse(r)
    BY <2>1 DEF Refuse
  <2>2. CASE PersistKey(r) /\ ~Refuse(r)
    BY <2>2, PersistKeyWrites DEF KeysNext
  <2>3. CASE PersistVersion(r) /\ ~Refuse(r)
    BY <2>3, PersistVersionWrites DEF KeysNext
  <2>4. CASE DeleteKey(r) /\ ~Refuse(r)
    BY <2>4, DeleteKeyWrites DEF KeysNext
  <2>5. CASE \/ GetKey(r) \/ GetVersion(r) \/ GetSource(r) \/ ReadRequirements(r)
             \/ ReadAllowed(r) \/ TryCandidate(r) \/ SelectTemplate(r)
             \/ MatchProvider(r) \/ ListTargets(r) \/ TryTarget(r) \/ ValidateOp(r)
    BY <2>5 DEF GetKey, GetVersion, GetSource, ReadRequirements, ReadAllowed, TryCandidate,
                SelectTemplate, MatchProvider, ListTargets, TryTarget, ValidateOp,
                Check, Proceed, Refuse
  <2> QED
    BY <1>1, <2>1, <2>2, <2>3, <2>4, <2>5 DEF Step
<1>2. ASSUME NEW r \in Requests, NEW s \in Specs, Begin(r, s)
      PROVE  UNCHANGED keys
  BY <1>2 DEF Begin
<1>3. ASSUME NEW r \in Requests, DependencyError(r)
      PROVE  UNCHANGED keys
  BY <1>3 DEF DependencyError, Refuse
<1>4. CASE Environment
  BY <1>4 DEF Environment, PutPolicy, RegisterBackend, RemoveBackend
<1> QED
  BY <1>1, <1>2, <1>3, <1>4 DEF Next, vars

(* The abstract specification alone says that keys only grow.               *)
LEMMA AbstractStepGrows ==
    ASSUME KeysTypeOK, [KeysNext]_keys
    PROVE  KeysGrow
<1>1. keys \in [KeyIds -> Key]
  BY DEF KeysTypeOK
<1>2. CASE UNCHANGED keys
  BY <1>2, StutterGrows
<1>3. ASSUME NEW k \in KeyIds, KeyCreated(k)
      PROVE  KeysGrow
  BY <1>1, <1>3 DEF KeyCreated, KeysGrow
<1>4. ASSUME NEW k \in KeyIds, VersionAdded(k)
      PROVE  KeysGrow
  <2>1. PICK old \in Key : old = keys[k]
    BY <1>1
  <2>2. PICK vs \in Seq(KeyVersion) : vs = old.versions
    BY <2>1 DEF Key
  <2>3. PICK v : keys' = [keys EXCEPT ![k] = [old EXCEPT !.versions = Append(vs, v)]] /\ v \in KeyVersion
    BY <1>1, <1>4, <2>1, <2>2 DEF VersionAdded
  <2>4. /\ keys'[k].status = old.status
        /\ keys'[k].policy = old.policy
        /\ keys'[k].versions = Append(vs, v)
    BY <1>1, <2>1, <2>3 DEF Key
  <2>5. \A i \in DOMAIN vs : i \in DOMAIN Append(vs, v) /\ Append(vs, v)[i] = vs[i]
    BY <2>2, <2>3
  <2> QED
    BY <1>1, <1>4, <2>1, <2>2, <2>3, <2>4, <2>5 DEF KeysGrow, VersionAdded
<1>5. ASSUME NEW k \in KeyIds, KeyDeleted(k)
      PROVE  KeysGrow
  <2>1. NoKey("deleted").status = "deleted"
    BY DEF NoKey
  <2> QED
    BY <1>1, <1>5, <2>1 DEF KeyDeleted, KeysGrow
<1> QED
  BY <1>2, <1>3, <1>4, <1>5 DEF KeysNext

-----------------------------------------------------------------------------

(* The inductive invariant holds in every reachable state.                  *)
THEOREM Invariant == Spec => []IInv
<1>1. Init => IInv
  BY InitOK
<1>2. IInv /\ [Next]_vars => IInv'
  BY NextOK
<1> QED
  BY <1>1, <1>2, PTL DEF Spec

(* Types: in particular the registry never lists two instances of one name. *)
THEOREM TypesCorrect == Spec => []TypeOK
<1>1. IInv => TypeOK
  BY DEF IInv
<1> QED
  BY <1>1, Invariant, PTL

(* What a request remembers of its key stays true while the key lives,      *)
(* whatever the other requests write (TransformKey and MigrateKey use the   *)
(* version they loaded at the end, in appendVersion).                       *)
THEOREM SnapshotsStayTrue == Spec => []SnapshotIsPast
<1>1. IInv => SnapshotIsPast
  BY DEF IInv
<1> QED
  BY <1>1, Invariant, PTL

(* What each request has established by each of its steps.                  *)
THEOREM StagesHold == Spec => []StagesOK
<1>1. IInv => StagesOK
  BY DEF IInv
<1> QED
  BY <1>1, Invariant, PTL

(* The orchestrator implements the abstract specification of keys.          *)
THEOREM Refinement == Spec => KeysSpec
<1>1. Init => KeysInit
  BY DEF Init
<1>2. IInv /\ [Next]_vars => [KeysNext]_keys
  BY StepRefines
<1> QED
  BY <1>1, <1>2, Invariant, PTL DEF Spec, KeysSpec

(* Whatever requests, policy edits and registry changes interleave, every   *)
(* live key has a sound lineage: see AggregateLineage.                      *)
THEOREM LineageAlwaysSound == Spec => []LineageSound
BY Refinement, AggregateLineage, PTL

(* Whatever is retained and migrated, no certified module at level 3 or 4,  *)
(* or at no reported level, takes in stored material or has released any    *)
(* that moved (TransferOf, sourceFeasibility, targetFeasibility,            *)
(* retainFeasibility).                                                      *)
THEOREM LevelsRespected == Spec => []FipsLevelsRespected
<1>1. IInv => FipsLevelsRespected
  BY LineageRespectsLevels DEF IInv, TypeOK
<1> QED
  BY <1>1, Invariant, PTL

=============================================================================
