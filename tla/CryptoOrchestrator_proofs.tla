---------------------- MODULE CryptoOrchestrator_proofs ----------------------
(***************************************************************************)
(* Proofs about CryptoOrchestrator, for any number of calls, artifacts,    *)
(* requests and keys: an artifact is taken back by the version that made   *)
(* it, a key accepts ever after the scope parameters it once accepted, and *)
(* a provider is only called within the rights of the caller.              *)
(*                                                                         *)
(* The calls' steps change neither keys nor policies, and every step of    *)
(* the key orchestrator is one of Spec, so its invariant IInv holds here   *)
(* too.  The inductive invariant CInv adds that a version which a call or  *)
(* an artifact carries is its key's version of that number for as long as  *)
(* the key lives (VersionOf), which holds because keys only grow, and that *)
(* the versions of one key in use, live or deleted, are of one scope.      *)
(***************************************************************************)
EXTENDS CryptoOrchestrator, KeyOrchestrator_proofs

HasVersion(q) == q.pc \in {"authorize", "dispatch", "perform"}

VersionOf(k, v) ==
    /\ k \in KeyIds
    /\ v \in KeyVersion
    /\ keys[k].status # "unused"
    /\ keys[k].status = "live" =>
         /\ v.version \in DOMAIN keys[k].versions
         /\ keys[k].versions[v.version] = v

CallOK(q) ==
    /\ q.pc # "load" => q.key \in KeyIds
    /\ HasVersion(q) <=> q.v # NoVersion
    /\ HasVersion(q) => VersionOf(q.key, q.v)
    /\ q.op \in Receiving => q.artifact \in artifacts
    /\ HasVersion(q) /\ q.op \in Receiving /\ q.key = q.artifact.key => q.v = q.artifact.made
    /\ q.pc = "perform" =>
         /\ Desc[q.backend].name = q.v.provider
         /\ RequestFits(q.op, q.arm, q.v)

CallsOK == \A c \in Calls : Running(c) => CallOK(call[c])

ArtifactOK(a) ==
    /\ VersionOf(a.key, a.made)
    /\ a.version = a.made.version
    /\ ScopeFits(a.op, a.arm, a.made.scope)

ArtifactsOK == \A a \in artifacts : ArtifactOK(a)

(* The versions in use agree on the scope of their key. *)
CallsAgree ==
    \A c, d \in Calls :
        Running(c) /\ HasVersion(call[c]) /\ Running(d) /\ HasVersion(call[d]) /\ call[c].key = call[d].key
        => call[c].v.scope = call[d].v.scope

CallsMatchArtifacts ==
    \A c \in Calls, a \in artifacts :
        Running(c) /\ HasVersion(call[c]) /\ call[c].key = a.key => call[c].v.scope = a.made.scope

NothingAfterDelete == \A k \in KeyIds : keys[k].status # "live" => keys[k].versions = <<>>

CInv == /\ CryptoTypeOK /\ NothingAfterDelete
        /\ CallsOK /\ ArtifactsOK /\ CallsAgree /\ CallsMatchArtifacts

-----------------------------------------------------------------------------
(* The key orchestrator beside the calls. *)

LEMMA CryptoStepIsStep == [CryptoNext]_cryptoVars => [Next]_vars
<1>1. \A k, s : UpdateState(k, s) => UNCHANGED vars
  BY DEF UpdateState, vars
<1>2. \A c : /\ \A next : Continue(c, next) => UNCHANGED vars
             /\ Return(c) => UNCHANGED vars
  BY DEF Continue, Return, vars
<1>3. \A c : /\ \A s : Originate(c, s) => UNCHANGED vars
             /\ \A a : Receive(c, a) => UNCHANGED vars
             /\ CallError(c) => UNCHANGED vars
  BY <1>2 DEF Originate, Receive, CallError
<1>4. ASSUME NEW c, CallStep(c) PROVE UNCHANGED vars
  BY <1>2, <1>4 DEF CallStep, LoadKey, LoadVersion, Authorize, Dispatch, Produce, Consume, Require
<1>5. ASSUME CryptoNext PROVE [Next]_vars
  BY <1>1, <1>3, <1>4, <1>5 DEF CryptoNext
<1>6. ASSUME UNCHANGED cryptoVars PROVE UNCHANGED vars
  BY <1>6 DEF cryptoVars
<1> QED
  BY <1>5, <1>6

(* Crypto operations leave keys, policies and registry to the orchestrator  *)
(* and the administrators: a run with them is a run of Spec.                *)
THEOREM OrchestratedAsBefore == CryptoSpec => Spec
<1>1. CryptoInit => Init
  BY DEF CryptoInit
<1> QED
  BY <1>1, CryptoStepIsStep, PTL DEF CryptoSpec, Spec

LEMMA AbstractStepEmpties ==
    ASSUME KeysTypeOK, [KeysNext]_keys, NothingAfterDelete
    PROVE  NothingAfterDelete'
<1>1. keys \in [KeyIds -> Key]
  BY DEF KeysTypeOK
<1>2. CASE UNCHANGED keys
  BY <1>2 DEF NothingAfterDelete
<1>3. ASSUME NEW k \in KeyIds, KeyCreated(k)
      PROVE  NothingAfterDelete'
  BY <1>1, <1>3 DEF KeyCreated, NothingAfterDelete
<1>4. ASSUME NEW k \in KeyIds, VersionAdded(k)
      PROVE  NothingAfterDelete'
  <2>1. PICK x : keys' = [keys EXCEPT ![k] = [keys[k] EXCEPT !.versions = x]]
    BY <1>1, <1>4 DEF VersionAdded
  <2>2. keys'[k].status = "live"
    <3>1. PICK old \in Key : old = keys[k]
      BY <1>1
    <3>2. [old EXCEPT !.versions = x].status = old.status
      BY DEF Key
    <3>3. old.status = "live" /\ keys'[k] = [old EXCEPT !.versions = x]
      BY <1>1, <1>4, <2>1, <3>1 DEF VersionAdded
    <3> QED
      BY <3>2, <3>3
  <2> QED
    BY <1>1, <2>1, <2>2 DEF NothingAfterDelete
<1>5. ASSUME NEW k \in KeyIds, KeyDeleted(k)
      PROVE  NothingAfterDelete'
  <2>1. NoKey("deleted").versions = <<>>
    BY DEF NoKey
  <2> QED
    BY <1>1, <1>5, <2>1 DEF KeyDeleted, NothingAfterDelete
<1> QED
  BY <1>2, <1>3, <1>4, <1>5 DEF KeysNext

LEMMA VersionOfKept ==
    ASSUME KeysGrow, NEW k, NEW v, VersionOf(k, v)
    PROVE  VersionOf(k, v)'
BY DEF KeysGrow, VersionOf

LEMMA CallKept ==
    ASSUME KeysGrow, artifacts \subseteq artifacts', NEW q, CallOK(q)
    PROVE  CallOK(q)'
<1>1. HasVersion(q) => VersionOf(q.key, q.v)'
  BY VersionOfKept DEF CallOK
<1> QED
  BY <1>1 DEF CallOK

LEMMA ArtifactKept ==
    ASSUME KeysGrow, NEW a, ArtifactOK(a)
    PROVE  ArtifactOK(a)'
BY VersionOfKept DEF ArtifactOK

(* Versions of one live key are of one scope. *)
LEMMA LiveScope ==
    ASSUME IInv, NEW k \in KeyIds, keys[k].status = "live",
           NEW u, NEW v, VersionOf(k, u), VersionOf(k, v)
    PROVE  u.scope = v.scope
<1>1. PICK vs \in Seq(KeyVersion) : vs = keys[k].versions
  BY DEF IInv, TypeOK, KeysTypeOK, Key
<1>2. \A i, j \in 1..Len(vs) : vs[i].scope = vs[j].scope
  BY <1>1 DEF IInv, LineageInv, Lineage, OneScope
<1>3. /\ u.version \in 1..Len(vs) /\ vs[u.version] = u
      /\ v.version \in 1..Len(vs) /\ vs[v.version] = v
  BY <1>1 DEF VersionOf
<1> QED
  BY <1>2, <1>3

-----------------------------------------------------------------------------
(* A step of the key orchestrator, or a change of a key's lifecycle state.  *)

LEMMA TransitionsTyped ==
    ASSUME NEW s \in LifecycleStates, NEW t \in validTransitions[s]
    PROVE  t \in LifecycleStates
BY DEF validTransitions, LifecycleStates

LEMMA SnapshotTyped ==
    ASSUME IInv, CryptoTypeOK
    PROVE  Snapshot \subseteq (KeyIds \X (LifecycleStates \union {"none"}))
                              \union (PolicyNames \X (PolicyDocs \union {NoPolicy}))
<1>1. /\ state \in [KeyIds -> LifecycleStates \union {"none"}]
      /\ policies \in [PolicyNames -> PolicyDocs \union {NoPolicy}]
  BY DEF IInv, TypeOK, CryptoTypeOK
<1> QED
  BY <1>1 DEF Snapshot


(* What a step of the key orchestrator or a change of state leaves of CInv. *)
LEMMA BesideCalls ==
    ASSUME IInv, CInv, KeysTypeOK', [Next]_vars, UNCHANGED <<call, artifacts>>
    PROVE  /\ NothingAfterDelete'
           /\ CallsOK'
           /\ ArtifactsOK'
           /\ CallsAgree'
           /\ CallsMatchArtifacts'
<1>1. KeysTypeOK /\ [KeysNext]_keys
  BY StepRefines DEF IInv, TypeOK
<1>2. KeysGrow /\ NothingAfterDelete'
  BY <1>1, AbstractStepGrows, AbstractStepEmpties DEF CInv
<1>3. CallsOK'
  <2>1. ASSUME NEW c \in Calls, call[c] # Idle
        PROVE  CallOK(call[c])'
    BY <1>2, <2>1, CallKept DEF CInv, CallsOK, Running
  <2> QED
    BY <2>1 DEF CallsOK, Running
<1>4. ArtifactsOK'
  BY <1>2, ArtifactKept DEF CInv, ArtifactsOK
<1>5. CallsAgree' /\ CallsMatchArtifacts'
  BY DEF CInv, CallsAgree, CallsMatchArtifacts, Running, HasVersion
<1> QED
  BY <1>2, <1>3, <1>4, <1>5

LEMMA WitnessTyped ==
    ASSUME IInv, CryptoTypeOK, IInv', Witness,
           state' \in [KeyIds -> LifecycleStates \union {"none"}]
    PROVE  seen' \in [Calls -> SUBSET ((KeyIds \X (LifecycleStates \union {"none"}))
                                       \union (PolicyNames \X (PolicyDocs \union {NoPolicy})))]
<1>1. PICK S : S = (KeyIds \X (LifecycleStates \union {"none"}))
                      \union (PolicyNames \X (PolicyDocs \union {NoPolicy}))
  OBVIOUS
<1>2. policies' \in [PolicyNames -> PolicyDocs \union {NoPolicy}]
  BY DEF IInv, TypeOK
<1>3. Snapshot' \subseteq S
  BY <1>1, <1>2 DEF Snapshot
<1>4. seen \in [Calls -> SUBSET S]
  BY <1>1 DEF CryptoTypeOK
<1> QED
  BY <1>1, <1>3, <1>4 DEF Witness

LEMMA KeyStepOK ==
    ASSUME IInv, CInv, IInv', Next, StateOfStoredKeys, UNCHANGED <<call, artifacts>>, Witness
    PROVE  CInv'
<1>1. /\ state' \in [KeyIds -> LifecycleStates \union {"none"}]
      /\ \A k \in KeyIds : (state'[k] # "none") = (keys'[k].status = "live")
  BY DEF StateOfStoredKeys, CInv, CryptoTypeOK, LifecycleStates
<1>2. CryptoTypeOK'
  BY <1>1, WitnessTyped DEF CInv, CryptoTypeOK
<1> QED
  BY <1>2, BesideCalls DEF CInv, IInv, TypeOK

LEMMA UpdateStateOK ==
    ASSUME IInv, CInv, IInv', NEW k \in KeyIds, NEW s, UpdateState(k, s), Witness
    PROVE  CInv'
<1>1. /\ state \in [KeyIds -> LifecycleStates \union {"none"}]
      /\ \A x \in KeyIds : (state[x] # "none") = (keys[x].status = "live")
      /\ state' = [state EXCEPT ![k] = s]
      /\ s \in validTransitions[state[k]]
      /\ keys[k].status = "live"
      /\ UNCHANGED <<vars, call, artifacts>>
  BY DEF CInv, CryptoTypeOK, UpdateState
<1>2. s \in LifecycleStates
  BY <1>1, TransitionsTyped
<1>3. s # "none" /\ UNCHANGED keys
  BY <1>1, <1>2 DEF LifecycleStates, vars
<1>4. /\ state' \in [KeyIds -> LifecycleStates \union {"none"}]
      /\ \A x \in KeyIds : (state'[x] # "none") = (keys'[x].status = "live")
  BY <1>1, <1>2, <1>3
<1>5. CryptoTypeOK'
  BY <1>1, <1>4, WitnessTyped DEF CInv, CryptoTypeOK
<1> QED
  BY <1>1, <1>5, BesideCalls DEF CInv, IInv, TypeOK

-----------------------------------------------------------------------------
(* The steps of a call. *)

LEMMA IdleIsNoCall == Idle \notin CallRecord
<1>1. \A q \in CallRecord : q.pc # "idle"
  BY DEF CallRecord
<1> QED
  BY <1>1, IdleIsNoRequest

(* What is known of a call at a label. *)
LEMMA RunningCall ==
    ASSUME CInv, NEW c \in Calls, NEW label, RunningAt(c, label), NEW q, q = call[c]
    PROVE  /\ q \in CallRecord
           /\ q.pc = label
           /\ CallOK(q)
           /\ Running(c)
BY DEF RunningAt, Running, CInv, CryptoTypeOK, CallsOK

LEMMA ContinueOK ==
    ASSUME IInv, CInv, IInv', Witness, NEW c \in Calls, NEW next \in CallRecord, Continue(c, next),
           CallOK(next),
           HasVersion(next) =>
              \/ /\ Running(c)
                 /\ HasVersion(call[c])
                 /\ next.key = call[c].key
                 /\ next.v = call[c].v
              \/ keys[next.key].status = "live"
    PROVE  CInv'
<1>1. /\ call' = [call EXCEPT ![c] = next]
      /\ call \in [Calls -> CallRecord \union {Idle}]
      /\ UNCHANGED <<keys, registry, policies, req, inForce, state, artifacts>>
      /\ IInv
      /\ CryptoTypeOK /\ NothingAfterDelete
      /\ CallsOK /\ ArtifactsOK /\ CallsAgree /\ CallsMatchArtifacts
  BY DEF Continue, vars, CInv, CryptoTypeOK
<1>2. KeysGrow
  BY <1>1, StutterGrows
<1>3. CryptoTypeOK'
  <2>1. call' \in [Calls -> CallRecord \union {Idle}]
    BY <1>1
  <2> QED
    BY <1>1, <2>1, WitnessTyped DEF CryptoTypeOK
<1>4. \A d \in Calls : call'[d] # Idle =>
         (d = c /\ call'[d] = next) \/ (d # c /\ call'[d] = call[d] /\ Running(d))
  <2>1. call'[c] = next /\ \A d \in Calls \ {c} : call'[d] = call[d]
    BY <1>1
  <2> QED
    BY <2>1 DEF Running
<1>5. CallsOK'
  <2>1. ASSUME NEW d \in Calls, call'[d] # Idle
        PROVE  CallOK(call[d])'
    <3>1. CASE d = c
      <4>1. CallOK(next)'
        BY <1>1, <1>2, CallKept
      <4> QED
        BY <1>4, <2>1, <3>1, <4>1
    <3>2. CASE d # c
      <4>1. CallOK(call[d])
        BY <1>1, <1>4, <2>1, <3>2 DEF CallsOK
      <4>2. PICK q : q = call[d]
        OBVIOUS
      <4>3. CallOK(q)'
        BY <1>1, <1>2, <4>1, <4>2, CallKept
      <4> QED
        BY <1>4, <2>1, <3>2, <4>2, <4>3
    <3> QED
      BY <3>1, <3>2
  <2> QED
    BY <2>1 DEF CallsOK, Running
<1>6. ArtifactsOK'
  BY <1>1, <1>2, ArtifactKept DEF ArtifactsOK
<1>7. ASSUME HasVersion(next), NEW d \in Calls, Running(d), HasVersion(call[d]), call[d].key = next.key
      PROVE  call[d].v.scope = next.v.scope
  <2>1. CASE Running(c) /\ HasVersion(call[c]) /\ next.key = call[c].key /\ next.v = call[c].v
    BY <1>1, <1>7, <2>1 DEF CallsAgree
  <2>2. CASE keys[next.key].status = "live"
    <3>1. VersionOf(next.key, next.v) /\ VersionOf(next.key, call[d].v)
      BY <1>1, <1>7 DEF CallOK, CallsOK
    <3> QED
      BY <2>2, <3>1, LiveScope DEF VersionOf
  <2> QED
    BY <1>7, <2>1, <2>2
<1>8. ASSUME HasVersion(next), NEW a \in artifacts, a.key = next.key
      PROVE  next.v.scope = a.made.scope
  <2>1. CASE Running(c) /\ HasVersion(call[c]) /\ next.key = call[c].key /\ next.v = call[c].v
    BY <1>1, <1>8, <2>1 DEF CallsMatchArtifacts
  <2>2. CASE keys[next.key].status = "live"
    <3>1. VersionOf(next.key, next.v) /\ VersionOf(next.key, a.made)
      BY <1>1, <1>8 DEF CallOK, ArtifactsOK, ArtifactOK
    <3> QED
      BY <2>2, <3>1, LiveScope DEF VersionOf
  <2> QED
    BY <1>8, <2>1, <2>2
<1>9. CallsAgree'
  <2>1. ASSUME NEW d \in Calls, NEW e \in Calls, call'[d] # Idle, call'[e] # Idle,
               HasVersion(call'[d]), HasVersion(call'[e]), call'[d].key = call'[e].key
        PROVE  call'[d].v.scope = call'[e].v.scope
    BY <1>1, <1>4, <1>7, <2>1 DEF CallsAgree
  <2> QED
    BY <2>1 DEF CallsAgree, Running, HasVersion
<1>10. CallsMatchArtifacts'
  <2>1. ASSUME NEW d \in Calls, NEW a \in artifacts, call'[d] # Idle,
               HasVersion(call'[d]), call'[d].key = a.key
        PROVE  call'[d].v.scope = a.made.scope
    BY <1>1, <1>4, <1>8, <2>1 DEF CallsMatchArtifacts
  <2> QED
    BY <1>1, <2>1 DEF CallsMatchArtifacts, Running, HasVersion
<1>11. NothingAfterDelete'
  BY <1>1 DEF NothingAfterDelete
<1> QED
  BY <1>3, <1>5, <1>6, <1>9, <1>10, <1>11 DEF CInv

(* A call that ends, and what it may leave with its caller. *)
LEMMA EndCallOK ==
    ASSUME IInv, CInv, IInv', Witness, NEW c \in Calls, NEW new,
           call' = [call EXCEPT ![c] = Idle], UNCHANGED <<vars, state>>,
           artifacts' = artifacts \union new,
           \A a \in new :
              /\ a \in Artifact
              /\ ArtifactOK(a)
              /\ Running(c) /\ HasVersion(call[c])
              /\ a.key = call[c].key
              /\ a.made = call[c].v
    PROVE  CInv'
<1>1. /\ call \in [Calls -> CallRecord \union {Idle}]
      /\ UNCHANGED <<keys, registry, policies, req, inForce, state>>
      /\ CryptoTypeOK /\ NothingAfterDelete
      /\ CallsOK /\ ArtifactsOK /\ CallsAgree /\ CallsMatchArtifacts
  BY DEF vars, CInv, CryptoTypeOK
<1>2. KeysGrow
  BY <1>1, StutterGrows
<1>3. CryptoTypeOK'
  <2>1. call' \in [Calls -> CallRecord \union {Idle}] /\ artifacts' \subseteq Artifact
    BY <1>1 DEF CryptoTypeOK
  <2> QED
    BY <1>1, <2>1, WitnessTyped DEF CryptoTypeOK
<1>4. \A d \in Calls : call'[d] # Idle => call'[d] = call[d] /\ Running(d)
  BY <1>1 DEF Running
<1>5. CallsOK'
  <2>1. ASSUME NEW d \in Calls, call'[d] # Idle
        PROVE  CallOK(call[d])'
    <3>1. PICK q : q = call[d]
      OBVIOUS
    <3>2. CallOK(q)'
      BY <1>1, <1>2, <1>4, <2>1, <3>1, CallKept DEF CallsOK
    <3> QED
      BY <1>4, <2>1, <3>1, <3>2
  <2> QED
    BY <2>1 DEF CallsOK, Running
<1>6. ArtifactsOK'
  BY <1>1, <1>2, ArtifactKept DEF ArtifactsOK
<1>7. CallsAgree'
  BY <1>1, <1>4 DEF CallsAgree, Running, HasVersion
<1>8. CallsMatchArtifacts'
  <2>1. ASSUME NEW d \in Calls, NEW a \in artifacts', call'[d] # Idle,
               HasVersion(call'[d]), call'[d].key = a.key
        PROVE  call'[d].v.scope = a.made.scope
    <3>1. CASE a \in artifacts
      BY <1>1, <1>4, <2>1, <3>1 DEF CallsMatchArtifacts
    <3>2. CASE a \in new
      BY <1>1, <1>4, <2>1, <3>2 DEF CallsAgree
    <3> QED
      BY <2>1, <3>1, <3>2
  <2> QED
    BY <2>1 DEF CallsMatchArtifacts, Running, HasVersion
<1>9. NothingAfterDelete'
  BY <1>1 DEF NothingAfterDelete
<1> QED
  BY <1>3, <1>5, <1>6, <1>7, <1>8, <1>9 DEF CInv

LEMMA ReturnOK ==
    ASSUME IInv, CInv, IInv', Witness, NEW c \in Calls, Return(c)
    PROVE  CInv'
<1>1. PICK new : new = {}
  OBVIOUS
<1>2. /\ artifacts' = artifacts \union new
      /\ call' = [call EXCEPT ![c] = Idle]
      /\ UNCHANGED <<vars, state>>
  BY <1>1 DEF Return, Continue
<1>3. \A a \in new :
         /\ a \in Artifact
         /\ ArtifactOK(a)
         /\ Running(c) /\ HasVersion(call[c])
         /\ a.key = call[c].key
         /\ a.made = call[c].v
  BY <1>1
<1> QED
  BY <1>2, <1>3, EndCallOK

LEMMA NewCallOK ==
    ASSUME CInv, NEW op \in Originating \union Receiving, NEW name \in KeyNames, NEW arm \in Arms,
           NEW a \in Artifact \union {NoArtifact}, op \in Receiving => a \in artifacts,
           NEW q, q = NewCall(op, name, arm, a)
    PROVE  q \in CallRecord /\ CallOK(q) /\ ~HasVersion(q)
<1>1. q \in CallRecord
  BY DEF NewCall, CallRecord
<1>2. /\ q.pc = "load"
      /\ q.op = op
      /\ q.artifact = a
      /\ q.v = NoVersion
  BY DEF NewCall
<1> QED
  BY <1>1, <1>2 DEF CallOK, HasVersion

LEMMA OriginateOK ==
    ASSUME IInv, CInv, IInv', Witness, NEW c \in Calls, NEW s \in CallSpecs, Originate(c, s)
    PROVE  CInv'
<1>1. s.op \in Originating /\ s.name \in KeyNames /\ s.arm \in Arms
  BY CryptoAssumption DEF CallSpec
<1>2. PICK next : next = NewCall(s.op, s.name, s.arm, NoArtifact)
  OBVIOUS
<1>3. s.op \notin Receiving
  BY <1>1 DEF Originating, Receiving
<1>4. next \in CallRecord /\ CallOK(next) /\ ~HasVersion(next)
  BY <1>1, <1>2, <1>3, NewCallOK
<1>5. Continue(c, next)
  BY <1>2 DEF Originate
<1> QED
  BY <1>4, <1>5, ContinueOK

LEMMA ReceiveOK ==
    ASSUME IInv, CInv, IInv', Witness, NEW c \in Calls, NEW a \in artifacts, Receive(c, a)
    PROVE  CInv'
<1>1. a \in Artifact
  BY DEF CInv, CryptoTypeOK
<1>2. a.op \in Originating /\ a.name \in KeyNames /\ a.arm \in Arms
  BY <1>1 DEF Artifact
<1>3. Receiver[a.op] \in Receiving
  BY <1>2 DEF Receiver, Originating, Receiving
<1>4. PICK next : next = NewCall(Receiver[a.op], a.name, a.arm, a)
  OBVIOUS
<1>5. next \in CallRecord /\ CallOK(next) /\ ~HasVersion(next)
  BY <1>1, <1>2, <1>3, <1>4, NewCallOK
<1>6. Continue(c, next)
  BY <1>4 DEF Receive
<1> QED
  BY <1>5, <1>6, ContinueOK

LEMMA LoadKeyOK ==
    ASSUME IInv, CInv, IInv', Witness, NEW c \in Calls, LoadKey(c)
    PROVE  CInv'
<1>1. PICK q : q = call[c]
  OBVIOUS
<1>2. q \in CallRecord /\ q.pc = "load" /\ CallOK(q)
  BY <1>1, RunningCall DEF LoadKey
<1>3. CASE Return(c)
  BY <1>3, ReturnOK
<1>4. ASSUME NEW k \in KeyIds, NEW next,
             next = [q EXCEPT !.pc = "version", !.key = k, !.policy = keys[k].policy],
             Continue(c, next)
      PROVE  CInv'
  <2>1. keys[k].policy \in PolicyNames \union {""}
    <3>1. keys[k] \in Key
      BY DEF IInv, TypeOK, KeysTypeOK
    <3> QED
      BY <3>1 DEF Key
  <2>2. next \in CallRecord
    BY <1>2, <1>4, <2>1 DEF CallRecord
  <2>3. /\ next.pc = "version"
        /\ next.key = k
        /\ next.op = q.op
        /\ next.v = q.v
        /\ next.artifact = q.artifact
    BY <1>2, <1>4 DEF CallRecord
  <2>4. CallOK(next) /\ ~HasVersion(next)
    BY <1>2, <1>4, <2>3 DEF CallOK, HasVersion
  <2> QED
    BY <1>4, <2>2, <2>4, ContinueOK
<1> QED
  BY <1>1, <1>3, <1>4 DEF LoadKey, Require

LEMMA LoadVersionOK ==
    ASSUME IInv, CInv, IInv', Witness, NEW c \in Calls, LoadVersion(c)
    PROVE  CInv'
<1>1. PICK q : q = call[c]
  OBVIOUS
<1>2. q \in CallRecord /\ q.pc = "version" /\ CallOK(q) /\ q.key \in KeyIds
  BY <1>1, RunningCall DEF LoadVersion, CallOK
<1>3. CASE Return(c)
  BY <1>3, ReturnOK
<1>4. PICK n : n = IF q.op \in Originating THEN Len(keys[q.key].versions) ELSE q.artifact.version
  OBVIOUS
<1>5. ASSUME n \in DOMAIN keys[q.key].versions, NEW next,
             next = [q EXCEPT !.pc = "authorize", !.v = keys[q.key].versions[n]],
             Continue(c, next)
      PROVE  CInv'
  <2>1. PICK vs \in Seq(KeyVersion) : vs = keys[q.key].versions
    BY <1>2 DEF IInv, TypeOK, KeysTypeOK, Key
  <2>2. keys[q.key].status = "live"
    BY <1>2, <1>5, <2>1 DEF CInv, NothingAfterDelete
  <2>3. /\ n \in 1..Len(vs)
        /\ vs[n] \in KeyVersion
        /\ vs[n].version = n
    <3>1. Numbered(vs)
      BY <1>2, <2>1, <2>2 DEF IInv, LineageInv, Lineage
    <3> QED
      BY <1>5, <2>1, <3>1 DEF Numbered
  <2>4. next \in CallRecord
    BY <1>2, <1>5, <2>1, <2>3 DEF CallRecord
  <2>5. /\ next.pc = "authorize"
        /\ next.key = q.key
        /\ next.op = q.op
        /\ next.v = vs[n]
        /\ next.artifact = q.artifact
    BY <1>2, <1>5, <2>1 DEF CallRecord
  <2>6. VersionOf(next.key, next.v)
    BY <1>2, <2>1, <2>2, <2>3, <2>5 DEF VersionOf
  <2>7. ASSUME q.op \in Receiving, q.key = q.artifact.key
        PROVE  vs[n] = q.artifact.made
    <3>1. q.artifact \in artifacts /\ n = q.artifact.version
      BY <1>2, <1>4, <2>7 DEF CallOK, Originating, Receiving
    <3>2. /\ VersionOf(q.key, q.artifact.made)
          /\ q.artifact.version = q.artifact.made.version
      BY <2>7, <3>1 DEF CInv, ArtifactsOK, ArtifactOK
    <3> QED
      BY <2>1, <2>2, <3>1, <3>2 DEF VersionOf
  <2>8. next.v # NoVersion
    BY <2>3, <2>5, OrchestratorAssumption
  <2>9. CallOK(next)
    BY <1>2, <2>5, <2>6, <2>7, <2>8 DEF CallOK, HasVersion
  <2> QED
    BY <1>5, <2>2, <2>4, <2>5, <2>9, ContinueOK
<1> QED
  BY <1>1, <1>3, <1>4, <1>5 DEF LoadVersion

LEMMA AuthorizeOK ==
    ASSUME IInv, CInv, IInv', Witness, NEW c \in Calls, Authorize(c)
    PROVE  CInv'
<1>1. PICK q : q = call[c]
  OBVIOUS
<1>2. q \in CallRecord /\ q.pc = "authorize" /\ CallOK(q) /\ Running(c)
  BY <1>1, RunningCall DEF Authorize
<1>3. CASE Return(c)
  BY <1>3, ReturnOK
<1>4. ASSUME NEW next, next = [q EXCEPT !.pc = "dispatch"], Continue(c, next)
      PROVE  CInv'
  <2>1. next \in CallRecord
    BY <1>2, <1>4 DEF CallRecord
  <2>2. /\ next.pc = "dispatch"
        /\ next.key = q.key
        /\ next.op = q.op
        /\ next.v = q.v
        /\ next.artifact = q.artifact
    BY <1>2, <1>4 DEF CallRecord
  <2>3. CallOK(next) /\ HasVersion(q)
    BY <1>2, <2>2 DEF CallOK, HasVersion
  <2> QED
    BY <1>1, <1>2, <1>4, <2>1, <2>2, <2>3, ContinueOK
<1> QED
  BY <1>1, <1>3, <1>4 DEF Authorize, Require

LEMMA DispatchOK ==
    ASSUME IInv, CInv, IInv', Witness, NEW c \in Calls, Dispatch(c)
    PROVE  CInv'
<1>1. PICK q : q = call[c]
  OBVIOUS
<1>2. q \in CallRecord /\ q.pc = "dispatch" /\ CallOK(q) /\ Running(c)
  BY <1>1, RunningCall DEF Dispatch
<1>3. CASE Return(c)
  BY <1>3, ReturnOK
<1>4. ASSUME NEW b \in Registered(registry, q.v.provider), RequestFits(q.op, q.arm, q.v),
             NEW next, next = [q EXCEPT !.pc = "perform", !.backend = b], Continue(c, next)
      PROVE  CInv'
  <2>1. b \in Backends /\ Desc[b].name = q.v.provider
    BY <1>4 DEF Registered
  <2>2. next \in CallRecord
    BY <1>2, <1>4, <2>1 DEF CallRecord
  <2>3. /\ next.pc = "perform"
        /\ next.key = q.key
        /\ next.op = q.op
        /\ next.arm = q.arm
        /\ next.v = q.v
        /\ next.artifact = q.artifact
        /\ next.backend = b
    BY <1>2, <1>4 DEF CallRecord
  <2>4. CallOK(next) /\ HasVersion(q)
    BY <1>2, <1>4, <2>1, <2>3 DEF CallOK, HasVersion
  <2> QED
    BY <1>1, <1>2, <1>4, <2>2, <2>3, <2>4, ContinueOK
<1> QED
  BY <1>1, <1>3, <1>4 DEF Dispatch, Require

LEMMA ProduceOK ==
    ASSUME IInv, CInv, IInv', Witness, NEW c \in Calls, Produce(c)
    PROVE  CInv'
<1>1. PICK q : q = call[c]
  OBVIOUS
<1>2. q \in CallRecord /\ q.pc = "perform" /\ CallOK(q) /\ Running(c)
  BY <1>1, RunningCall DEF Produce
<1>3. PICK a : a = [op |-> q.op, name |-> q.name, arm |-> q.arm, version |-> q.v.version,
                    key |-> q.key, made |-> q.v]
  OBVIOUS
<1>4. /\ q.op \in Originating
      /\ q.name \in KeyNames
      /\ q.arm \in Arms
      /\ q.key \in KeyIds
      /\ q.v \in KeyVersion
      /\ HasVersion(q)
  BY <1>1, <1>2 DEF Produce, CallRecord, CallOK, HasVersion, VersionOf
<1>5. /\ a.op = q.op
      /\ a.arm = q.arm
      /\ a.version = q.v.version
      /\ a.key = q.key
      /\ a.made = q.v
  BY <1>3
<1>6. a \in Artifact
  <2>1. q.v.version \in Nat
    BY <1>4 DEF KeyVersion
  <2> QED
    BY <1>3, <1>4, <2>1 DEF Artifact
<1>7. ArtifactOK(a)
  BY <1>2, <1>4, <1>5 DEF ArtifactOK, CallOK, RequestFits
<1>8. PICK new : new \subseteq {a} /\ artifacts' = artifacts \union new
  <2>1. artifacts' = artifacts \union {} \/ artifacts' = artifacts \union {a}
    BY <1>1, <1>3 DEF Produce
  <2> QED
    BY <2>1
<1>9. call' = [call EXCEPT ![c] = Idle] /\ UNCHANGED <<vars, state>>
  BY DEF Produce
<1>10. \A x \in new :
          /\ x \in Artifact
          /\ ArtifactOK(x)
          /\ Running(c) /\ HasVersion(call[c])
          /\ x.key = call[c].key
          /\ x.made = call[c].v
  BY <1>1, <1>2, <1>4, <1>5, <1>6, <1>7, <1>8
<1> QED
  BY <1>8, <1>9, <1>10, EndCallOK

LEMMA CallStepOK ==
    ASSUME IInv, CInv, IInv', Witness, NEW c \in Calls, CallStep(c)
    PROVE  CInv'
BY LoadKeyOK, LoadVersionOK, AuthorizeOK, DispatchOK, ProduceOK, ReturnOK
DEF CallStep, Consume

-----------------------------------------------------------------------------

LEMMA CryptoNextOK ==
    ASSUME IInv, CInv, [CryptoNext]_cryptoVars
    PROVE  CInv'
<1>1. IInv'
  BY CryptoStepIsStep, NextOK
<1>2. CASE UNCHANGED cryptoVars
  <2>1. UNCHANGED <<call, artifacts, state, seen, keys, policies>>
    BY <1>2 DEF cryptoVars, vars
  <2>2. CryptoTypeOK'
    BY <2>1 DEF CInv, CryptoTypeOK
  <2>3. [Next]_vars
    BY <1>2 DEF cryptoVars
  <2> QED
    BY <1>1, <2>1, <2>2, <2>3, BesideCalls DEF CInv, IInv, TypeOK
<1>3. ASSUME CryptoNext
      PROVE  CInv'
  BY <1>1, <1>3, KeyStepOK, UpdateStateOK, OriginateOK, ReceiveOK, CallStepOK, ReturnOK
  DEF CryptoNext, CallError
<1> QED
  BY <1>2, <1>3

(* The inductive invariant of calls and artifacts.                          *)
THEOREM CryptoInvariant == CryptoSpec => [](IInv /\ CInv)
<1>1. CryptoInit => CInv
  <2> SUFFICES ASSUME CryptoInit PROVE CInv
    OBVIOUS
  <2>1. \A k \in KeyIds : keys[k].status = "unused" /\ keys[k].versions = <<>>
    BY DEF CryptoInit, Init, KeysInit, NoKey
  <2>2. CryptoTypeOK
    BY <2>1 DEF CryptoInit, CryptoTypeOK
  <2>3. NothingAfterDelete
    BY <2>1 DEF NothingAfterDelete
  <2>4. \A c \in Calls : ~Running(c)
    BY DEF CryptoInit, Running
  <2> QED
    BY <2>2, <2>3, <2>4
    DEF CInv, CallsOK, ArtifactsOK, CallsAgree, CallsMatchArtifacts, CryptoInit
<1>2. IInv /\ CInv /\ [CryptoNext]_cryptoVars => CInv'
  BY CryptoNextOK
<1> QED
  BY <1>1, <1>2, OrchestratedAsBefore, Invariant, PTL DEF CryptoSpec

(* Types; a key has a lifecycle state exactly while it is stored.           *)
THEOREM CryptoTyped == CryptoSpec => []CryptoTypeOK
<1>1. CInv => CryptoTypeOK
  BY DEF CInv
<1> QED
  BY <1>1, CryptoInvariant, PTL

(* Whatever became of the key since, a signature is verified and a          *)
(* ciphertext decrypted by the version that made it, on its provider.       *)
THEOREM MakerTakesBack == CryptoSpec => []TakenBackByItsMaker
<1>1. CInv => TakenBackByItsMaker
  <2> SUFFICES ASSUME CInv, NEW c \in Calls, RunningAt(c, "perform"), NEW q, q = call[c],
                      q.op \in Receiving, q.key = q.artifact.key
               PROVE  /\ q.v = q.artifact.made
                      /\ Desc[q.backend].name = q.artifact.made.provider
    BY DEF TakenBackByItsMaker
  <2>1. CallOK(q) /\ q.pc = "perform"
    BY RunningCall
  <2> QED
    BY <2>1 DEF CallOK, HasVersion
<1> QED
  BY <1>1, CryptoInvariant, PTL

(* An operation and its inverse take the same arms in the same scopes.      *)
LEMMA InverseFits ==
    ASSUME NEW op \in Originating, NEW arm, NEW s, ScopeFits(op, arm, s)
    PROVE  ScopeFits(Receiver[op], arm, s)
<1>1. CASE op = "sign"
  BY <1>1 DEF ScopeFits, VendorArm, ScopesFor, Receiver
<1>2. CASE op = "digest_sign"
  BY <1>2 DEF ScopeFits, VendorArm, ScopesFor, Receiver
<1>3. CASE op = "encrypt"
  BY <1>3 DEF ScopeFits, VendorArm, ScopesFor, Receiver
<1> QED
  BY <1>1, <1>2, <1>3 DEF Originating

(* The scope parameters a key accepted once it accepts ever after.          *)
THEOREM ContractAlwaysKept == CryptoSpec => []ContractKept
<1>1. CInv => ContractKept
  <2> SUFFICES ASSUME CInv, NEW c \in Calls, Running(c), NEW q, q = call[c], q.v # NoVersion,
                      NEW a \in artifacts, a.key = q.key, a.arm = q.arm,
                      q.op \in {a.op, Receiver[a.op]}
               PROVE  ScopeFits(q.op, q.arm, q.v.scope)
    BY DEF ContractKept
  <2>1. CallOK(q) /\ HasVersion(q)
    BY DEF CInv, CallsOK, CallOK
  <2>2. a.op \in Originating /\ ScopeFits(a.op, a.arm, a.made.scope)
    BY DEF CInv, CryptoTypeOK, Artifact, ArtifactsOK, ArtifactOK
  <2>3. q.v.scope = a.made.scope
    BY <2>1 DEF CInv, CallsMatchArtifacts
  <2> QED
    BY <2>2, <2>3, InverseFits
<1> QED
  BY <1>1, CryptoInvariant, PTL

-----------------------------------------------------------------------------
(* A call's rights: what it was allowed is among what was so while it ran.  *)

RightsOf(q, ran) ==
    /\ q.pc # "load" => \E s \in LifecycleStates : <<q.key, s>> \in ran /\ CanPerform(q.op, s)
    /\ q.pc \in {"dispatch", "perform"} =>
         \E d \in PolicyDocs : <<q.policy, d>> \in ran /\ Permits(d, q.op, q.v.template)

RInv == \A c \in Calls : Running(c) => Snapshot \subseteq seen[c] /\ RightsOf(call[c], seen[c])

LEMMA RightsGrow ==
    ASSUME NEW q, NEW ran, NEW more, ran \subseteq more, RightsOf(q, ran)
    PROVE  RightsOf(q, more)
BY DEF RightsOf

(* Every step of a call that goes on leaves the others as they are.         *)
LEMMA OthersKeepRights ==
    ASSUME RInv, Witness,
           \A c \in Calls : call'[c] # Idle =>
              \/ Running(c) /\ call'[c] = call[c]
              \/ \A ran : Snapshot' \subseteq ran /\ (Running(c) => seen[c] \subseteq ran)
                              => RightsOf(call'[c], ran)
    PROVE  RInv'
<1>1. ASSUME NEW c \in Calls, call'[c] # Idle
      PROVE  Snapshot' \subseteq seen'[c] /\ RightsOf(call'[c], seen'[c])
  <2>1. /\ Snapshot' \subseteq seen'[c]
        /\ Running(c) => seen[c] \subseteq seen'[c]
    BY <1>1 DEF Witness
  <2>2. CASE Running(c) /\ call'[c] = call[c]
    BY <2>1, <2>2, RightsGrow DEF RInv
  <2>3. CASE \A ran : Snapshot' \subseteq ran /\ (Running(c) => seen[c] \subseteq ran)
                          => RightsOf(call'[c], ran)
    BY <2>1, <2>3
  <2> QED
    BY <1>1, <2>1, <2>2, <2>3
<1> QED
  BY <1>1 DEF RInv, Running

LEMMA ContinueRights ==
    ASSUME CInv, RInv, Witness, NEW c \in Calls, NEW next, Continue(c, next),
           next # Idle =>
              \A ran : Snapshot \subseteq ran /\ (Running(c) => seen[c] \subseteq ran)
                         => RightsOf(next, ran)
    PROVE  RInv'
<1>1. /\ call' = [call EXCEPT ![c] = next]
      /\ call \in [Calls -> CallRecord \union {Idle}]
      /\ Snapshot' = Snapshot
  BY DEF Continue, vars, CInv, CryptoTypeOK, Snapshot
<1>2. call'[c] = next /\ \A d \in Calls \ {c} : call'[d] = call[d]
  BY <1>1
<1>3. ASSUME NEW d \in Calls, call'[d] # Idle
      PROVE  \/ Running(d) /\ call'[d] = call[d]
             \/ \A ran : Snapshot' \subseteq ran /\ (Running(d) => seen[d] \subseteq ran)
                            => RightsOf(call'[d], ran)
  <2>1. CASE d = c
    BY <1>1, <1>2, <1>3, <2>1
  <2>2. CASE d # c
    BY <1>2, <1>3, <2>2 DEF Running
  <2> QED
    BY <2>1, <2>2
<1> QED
  BY <1>3, OthersKeepRights

(* Nothing the calls carry changes, or one of them ends. *)
LEMMA EndRights ==
    ASSUME RInv, Witness, \A c \in Calls : call'[c] # Idle => Running(c) /\ call'[c] = call[c]
    PROVE  RInv'
BY OthersKeepRights

LEMMA ReturnRights ==
    ASSUME CInv, RInv, Witness, NEW c \in Calls, call' = [call EXCEPT ![c] = Idle]
    PROVE  RInv'
<1>1. \A d \in Calls : call'[d] # Idle => Running(d) /\ call'[d] = call[d]
  BY DEF CInv, CryptoTypeOK, Running
<1> QED
  BY <1>1, EndRights

LEMMA BeginRights ==
    ASSUME CInv, RInv, Witness, NEW c \in Calls, NEW op, NEW name, NEW arm, NEW a,
           Continue(c, NewCall(op, name, arm, a))
    PROVE  RInv'
<1>1. \A ran : RightsOf(NewCall(op, name, arm, a), ran)
  BY DEF NewCall, RightsOf
<1> QED
  BY <1>1, ContinueRights

LEMMA LoadKeyRights ==
    ASSUME CInv, RInv, Witness, NEW c \in Calls, LoadKey(c)
    PROVE  RInv'
<1>1. PICK q : q = call[c]
  OBVIOUS
<1>2. q \in CallRecord
  BY <1>1, RunningCall DEF LoadKey
<1>3. CASE Return(c)
  BY <1>3, ReturnRights DEF Return, Continue
<1>4. ASSUME NEW k \in KeyIds, CanPerform(q.op, state[k]), NEW next,
             next = [q EXCEPT !.pc = "version", !.key = k, !.policy = keys[k].policy],
             Continue(c, next)
      PROVE  RInv'
  <2>1. /\ next.pc = "version"
        /\ next.key = k
        /\ next.op = q.op
    BY <1>2, <1>4 DEF CallRecord
  <2>2. state[k] \in LifecycleStates /\ <<k, state[k]>> \in Snapshot
    BY <1>4 DEF CanPerform, LifecycleStates, Snapshot
  <2>3. \A ran : Snapshot \subseteq ran => RightsOf(next, ran)
    BY <1>4, <2>1, <2>2 DEF RightsOf
  <2> QED
    BY <1>4, <2>3, ContinueRights
<1> QED
  BY <1>1, <1>3, <1>4 DEF LoadKey, Require

LEMMA LoadVersionRights ==
    ASSUME CInv, RInv, Witness, NEW c \in Calls, LoadVersion(c)
    PROVE  RInv'
<1>1. PICK q : q = call[c]
  OBVIOUS
<1>2. q \in CallRecord /\ q.pc = "version" /\ Running(c) /\ RightsOf(q, seen[c])
  BY <1>1, RunningCall DEF LoadVersion, RInv
<1>3. CASE Return(c)
  BY <1>3, ReturnRights DEF Return, Continue
<1>4. ASSUME NEW v, NEW next, next = [q EXCEPT !.pc = "authorize", !.v = v], Continue(c, next)
      PROVE  RInv'
  <2>1. /\ next.pc = "authorize"
        /\ next.key = q.key
        /\ next.op = q.op
    BY <1>2, <1>4 DEF CallRecord
  <2>2. \A ran : seen[c] \subseteq ran => RightsOf(next, ran)
    BY <1>2, <2>1 DEF RightsOf
  <2> QED
    BY <1>2, <1>4, <2>2, ContinueRights
<1> QED
  BY <1>1, <1>3, <1>4 DEF LoadVersion

LEMMA AuthorizeRights ==
    ASSUME CInv, RInv, Witness, NEW c \in Calls, Authorize(c)
    PROVE  RInv'
<1>1. PICK q : q = call[c]
  OBVIOUS
<1>2. q \in CallRecord /\ q.pc = "authorize" /\ Running(c) /\ RightsOf(q, seen[c])
  BY <1>1, RunningCall DEF Authorize, RInv
<1>3. CASE Return(c)
  BY <1>3, ReturnRights DEF Return, Continue
<1>4. ASSUME NEW d \in Consulted(q), Permits(d, q.op, q.v.template), NEW next,
             next = [q EXCEPT !.pc = "dispatch"], Continue(c, next)
      PROVE  RInv'
  <2>1. /\ next.pc = "dispatch"
        /\ next.key = q.key
        /\ next.op = q.op
        /\ next.policy = q.policy
        /\ next.v = q.v
    BY <1>2, <1>4 DEF CallRecord
  <2>2. d \in PolicyDocs /\ <<q.policy, d>> \in Snapshot
    BY <1>4 DEF Consulted, Snapshot
  <2>3. \A ran : Snapshot \subseteq ran /\ seen[c] \subseteq ran => RightsOf(next, ran)
    BY <1>2, <1>4, <2>1, <2>2 DEF RightsOf
  <2> QED
    BY <1>2, <1>4, <2>3, ContinueRights
<1> QED
  BY <1>1, <1>3, <1>4 DEF Authorize, Require

LEMMA DispatchRights ==
    ASSUME CInv, RInv, Witness, NEW c \in Calls, Dispatch(c)
    PROVE  RInv'
<1>1. PICK q : q = call[c]
  OBVIOUS
<1>2. q \in CallRecord /\ q.pc = "dispatch" /\ Running(c) /\ RightsOf(q, seen[c])
  BY <1>1, RunningCall DEF Dispatch, RInv
<1>3. CASE Return(c)
  BY <1>3, ReturnRights DEF Return, Continue
<1>4. ASSUME NEW b, NEW next, next = [q EXCEPT !.pc = "perform", !.backend = b], Continue(c, next)
      PROVE  RInv'
  <2>1. /\ next.pc = "perform"
        /\ next.key = q.key
        /\ next.op = q.op
        /\ next.policy = q.policy
        /\ next.v = q.v
    BY <1>2, <1>4 DEF CallRecord
  <2>2. \A ran : seen[c] \subseteq ran => RightsOf(next, ran)
    BY <1>2, <2>1 DEF RightsOf
  <2> QED
    BY <1>2, <1>4, <2>2, ContinueRights
<1> QED
  BY <1>1, <1>3, <1>4 DEF Dispatch, Require

LEMMA RInvStep ==
    ASSUME CInv, RInv, [CryptoNext]_cryptoVars
    PROVE  RInv'
<1>1. CASE UNCHANGED cryptoVars
  BY <1>1 DEF cryptoVars, vars, RInv, Running, Snapshot
<1>2. ASSUME UNCHANGED call, Witness
      PROVE  RInv'
  BY <1>2, EndRights DEF Running
<1>3. ASSUME NEW c \in Calls, CallStep(c) \/ CallError(c), Witness
      PROVE  RInv'
  <2>1. CASE LoadKey(c)      BY <1>3, <2>1, LoadKeyRights
  <2>2. CASE LoadVersion(c)  BY <1>3, <2>2, LoadVersionRights
  <2>3. CASE Authorize(c)    BY <1>3, <2>3, AuthorizeRights
  <2>4. CASE Dispatch(c)     BY <1>3, <2>4, DispatchRights
  <2>5. CASE Produce(c) \/ Consume(c) \/ CallError(c)
    BY <1>3, <2>5, ReturnRights DEF Produce, Consume, CallError, Return, Continue
  <2> QED
    BY <1>3, <2>1, <2>2, <2>3, <2>4, <2>5 DEF CallStep
<1>4. ASSUME NEW c \in Calls, Witness,
             \/ \E s \in CallSpecs : Originate(c, s)
             \/ \E a \in artifacts : Receive(c, a)
      PROVE  RInv'
  BY <1>4, BeginRights DEF Originate, Receive
<1> QED
  BY <1>1, <1>2, <1>3, <1>4 DEF CryptoNext, UpdateState

(* A provider is only called when, at some time during the call, the key    *)
(* was in a state that allows the operation and its policy permitted it.    *)
THEOREM WithinItsRights == CryptoSpec => []PerformedWithinItsRights
<1>1. CryptoInit => RInv
  BY DEF CryptoInit, RInv, Running
<1>2. CInv /\ RInv /\ [CryptoNext]_cryptoVars => RInv'
  BY RInvStep
<1>3. RInv => PerformedWithinItsRights
  <2> SUFFICES ASSUME RInv, NEW c \in Calls, RunningAt(c, "perform"), NEW q, q = call[c]
               PROVE  /\ \E s \in LifecycleStates :
                           /\ <<q.key, s>> \in seen[c]
                           /\ s = "ACTIVE" \/ (q.op \in Receiving /\ s \in {"SUSPENDED", "DEACTIVATED"})
                      /\ \E d \in PolicyDocs :
                           <<q.policy, d>> \in seen[c] /\ Permits(d, q.op, q.v.template)
    BY DEF PerformedWithinItsRights
  <2>1. RightsOf(q, seen[c]) /\ q.pc = "perform"
    BY DEF RInv, RunningAt
  <2> QED
    BY <2>1 DEF RightsOf, CanPerform
<1> QED
  BY <1>1, <1>2, <1>3, CryptoInvariant, PTL DEF CryptoSpec

=============================================================================
