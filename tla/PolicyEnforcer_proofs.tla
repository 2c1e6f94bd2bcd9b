------------------------ MODULE PolicyEnforcer_proofs ------------------------
(***************************************************************************)
(* Proofs about PolicyEnforcer, for any number of administrators, policies *)
(* and documents: only valid documents are stored, and a list is true to   *)
(* the time it took.                                                       *)
(*                                                                         *)
(* The inductive invariant Inv says of a write under way that its document *)
(* was found valid (Pending), and of a list that what it has was stored at *)
(* some time since it began and that what it lacks is still to be fetched  *)
(* or was missing once (Listed).  Listed speaks of the stores since the    *)
(* list began, which only become more, so no other call disturbs it.       *)
(***************************************************************************)
EXTENDS PolicyEnforcer, TLAPS

ValidDocuments == {d \in Documents : Valid(d)}

CallRecord ==
    [op    : {"create", "update", "list"},
     name  : Names \union {NoName},
     doc   : Documents \union {NoPolicy},
     pc    : {"absent?", "present?", "put", "read", "names", "fetch", "done"},
     names : SUBSET Names,
     got   : SUBSET (Names \X Documents)]

Pending(q) ==
    /\ q.op = "list" => q.pc \in {"names", "fetch", "done"}
    /\ q.op # "list" => q.pc \notin {"names", "fetch"} /\ q.name \in Names /\ q.doc \in ValidDocuments

Listed(q, ran) ==
    q.op = "list" =>
        /\ \A e \in q.got : \E s \in ran : s[e[1]] = e[2]
        /\ q.pc \in {"fetch", "done"} =>
             \A p \in Names : (\A s \in ran : s[p] # NoPolicy) =>
                p \in q.names \/ \E e \in q.got : e[1] = p
        /\ q.pc = "done" => q.names = {}

Inv ==
    /\ store \in [Names -> ValidDocuments \union {NoPolicy}]
    /\ call \in [Calls -> CallRecord \union {Idle}]
    /\ \A c \in Calls : Busy(c) =>
         /\ Pending(call[c])
         /\ Listed(call[c], seen[c])
         /\ call[c].op = "list" => store \in seen[c]

-----------------------------------------------------------------------------

LEMMA IdleIsNoCall == Idle \notin CallRecord /\ Idle.op = "none"
<1>1. Idle.op = "none"
  BY DEF Idle
<1>2. \A q \in CallRecord : q.op # "none"
  BY DEF CallRecord
<1> QED
  BY <1>1, <1>2

LEMMA ListedLater ==
    ASSUME NEW q, NEW ran, NEW more, ran \subseteq more, Listed(q, ran)
    PROVE  Listed(q, more)
BY DEF Listed

(* A step of call c, whatever it does to the store. *)
LEMMA MovesOK ==
    ASSUME Inv, NEW c \in Calls, NEW next \in CallRecord \union {Idle}, Moves(c, next),
           store' \in [Names -> ValidDocuments \union {NoPolicy}],
           next # Idle => Pending(next) /\ Listed(next, seen'[c])
    PROVE  Inv'
<1>1. /\ call \in [Calls -> CallRecord \union {Idle}]
      /\ call' = [call EXCEPT ![c] = next]
  BY DEF Inv, Moves
<1>2. /\ call' \in [Calls -> CallRecord \union {Idle}]
      /\ call'[c] = next
      /\ \A e \in Calls \ {c} : call'[e] = call[e]
  BY <1>1
<1>3. ASSUME NEW e \in Calls, call'[e] # Idle
      PROVE  /\ Pending(call'[e])
             /\ Listed(call'[e], seen'[e])
             /\ call'[e].op = "list" => store' \in seen'[e]
  <2>1. seen'[e] = IF call'[e].op = "list"
                   THEN (IF Busy(e) THEN seen[e] ELSE {}) \union {store'} ELSE {}
    BY DEF Moves
  <2>2. CASE e = c
    BY <1>2, <1>3, <2>1, <2>2
  <2>3. CASE e # c
    <3>1. call'[e] = call[e] /\ Busy(e) /\ Pending(call[e]) /\ Listed(call[e], seen[e])
      BY <1>2, <1>3, <2>3 DEF Inv, Busy
    <3>2. CASE call[e].op = "list"
      <4>1. seen[e] \subseteq seen'[e] /\ store' \in seen'[e]
        BY <2>1, <3>1, <3>2
      <4> QED
        BY <3>1, <4>1, ListedLater
    <3>3. CASE call[e].op # "list"
      BY <3>1, <3>3 DEF Listed
    <3> QED
      BY <3>2, <3>3
  <2> QED
    BY <2>2, <2>3
<1> QED
  BY <1>2, <1>3 DEF Inv, Busy

LEMMA FailOK ==
    ASSUME Inv, NEW c \in Calls, Fail(c)
    PROVE  Inv'
<1>1. store' \in [Names -> ValidDocuments \union {NoPolicy}]
  BY DEF Fail, Inv
<1> QED
  BY <1>1, MovesOK DEF Fail

(* What is known of a call at a label, and of what a list has seen by the   *)
(* end of its step.                                                         *)
LEMMA CallAt ==
    ASSUME Inv, NEW c \in Calls, NEW pc, At(c, pc), NEW q, q = call[c]
    PROVE  /\ q \in CallRecord
           /\ q.pc = pc
           /\ Pending(q)
           /\ Listed(q, seen[c])
           /\ q.op = "list" => store \in seen[c]
           /\ Busy(c)
BY DEF At, Busy, Inv

LEMMA MoreSeen ==
    ASSUME Inv, NEW c \in Calls, Busy(c), NEW next, Moves(c, next), next.op = "list"
    PROVE  seen[c] \subseteq seen'[c]
<1>1. call'[c] = next
  BY DEF Moves, Inv
<1> QED
  BY <1>1 DEF Moves

-----------------------------------------------------------------------------
(* Each step. *)

LEMMA StartedOK ==
    ASSUME Inv, NEW c \in Calls, NEW next \in CallRecord, UNCHANGED store, Moves(c, next),
           next.got = {}, next.pc \notin {"fetch", "done"}, Pending(next)
    PROVE  Inv'
<1>1. Listed(next, seen'[c])
  BY DEF Listed
<1>2. store' \in [Names -> ValidDocuments \union {NoPolicy}]
  BY DEF Inv
<1> QED
  BY <1>1, <1>2, MovesOK

LEMMA BeginWriteOK ==
    ASSUME Inv, NEW c \in Calls, NEW p \in Names, NEW d \in Documents, BeginWrite(c, p, d)
    PROVE  Inv'
<1>1. d \in ValidDocuments
  BY DEF BeginWrite, ValidDocuments
<1>2. ASSUME NEW op \in {"create", "update"}, NEW pc \in {"absent?", "present?"},
             Moves(c, Started(op, p, d, pc))
      PROVE  Inv'
  <2>1. PICK next : next = Started(op, p, d, pc)
    OBVIOUS
  <2>2. next \in CallRecord /\ next.got = {} /\ next.pc \notin {"fetch", "done"} /\ Pending(next)
    BY <1>1, <2>1 DEF Started, CallRecord, Pending
  <2> QED
    BY <1>2, <2>1, <2>2, StartedOK DEF BeginWrite
<1> QED
  BY <1>2 DEF BeginWrite

LEMMA BeginListOK ==
    ASSUME Inv, NEW c \in Calls, BeginList(c)
    PROVE  Inv'
<1>1. PICK next : next = Started("list", NoName, NoPolicy, "names")
  OBVIOUS
<1>2. next \in CallRecord /\ next.got = {} /\ next.pc \notin {"fetch", "done"} /\ Pending(next)
  BY <1>1 DEF Started, CallRecord, Pending
<1> QED
  BY <1>1, <1>2, StartedOK DEF BeginList

(* The steps of a create or an update. *)
LEMMA WriterOK ==
    ASSUME Inv, NEW c \in Calls, Busy(c), NEW q, q = call[c], q.op # "list",
           NEW next \in CallRecord, Moves(c, next),
           next.op = q.op, next.name = q.name, next.doc = q.doc,
           next.pc \in {"put", "read", "done"},
           store' \in [Names -> ValidDocuments \union {NoPolicy}]
    PROVE  Inv'
<1>1. Pending(q)
  BY DEF Inv
<1>2. Pending(next) /\ Listed(next, seen'[c])
  BY <1>1 DEF Pending, Listed
<1> QED
  BY <1>2, MovesOK

LEMMA GoWriterOK ==
    ASSUME Inv, NEW c \in Calls, Busy(c), call[c].op # "list", NEW pc \in {"put", "read", "done"},
           Go(c, pc), store' \in [Names -> ValidDocuments \union {NoPolicy}]
    PROVE  Inv'
<1>1. PICK q \in CallRecord : q = call[c]
  BY DEF Inv, Busy
<1>2. PICK next : next = [q EXCEPT !.pc = pc]
  OBVIOUS
<1>3. next \in CallRecord /\ next.op = q.op /\ next.name = q.name /\ next.doc = q.doc /\ next.pc = pc
  BY <1>2 DEF CallRecord
<1>4. Moves(c, next)
  BY <1>1, <1>2 DEF Go
<1> QED
  BY <1>1, <1>3, <1>4, WriterOK

LEMMA WriteStepOK ==
    ASSUME Inv, NEW c \in Calls, CheckAbsent(c) \/ CheckPresent(c) \/ Put(c) \/ ReadBack(c)
    PROVE  Inv'
<1>1. PICK q : q = call[c]
  OBVIOUS
<1>2. /\ q \in CallRecord
      /\ q.pc \in {"absent?", "present?", "put", "read"}
      /\ q.op # "list"
      /\ q.name \in Names
      /\ q.doc \in ValidDocuments
      /\ Busy(c)
  <2>1. /\ q \in CallRecord
        /\ q.pc \in {"absent?", "present?", "put", "read"}
        /\ Pending(q)
        /\ Busy(c)
    BY <1>1, CallAt DEF CheckAbsent, CheckPresent, Put, ReadBack
  <2> QED
    BY <2>1 DEF Pending
<1>3. store \in [Names -> ValidDocuments \union {NoPolicy}]
  BY DEF Inv
<1>4. CASE CheckAbsent(c) \/ CheckPresent(c)
  BY <1>1, <1>2, <1>3, <1>4, FailOK, GoWriterOK DEF CheckAbsent, CheckPresent
<1>5. CASE Put(c)
  <2>1. store' \in [Names -> ValidDocuments \union {NoPolicy}]
    BY <1>1, <1>2, <1>3, <1>5 DEF Put
  <2>2. PICK pc \in {"read", "done"} : Go(c, pc)
    BY <1>5 DEF Put
  <2> QED
    BY <1>1, <1>2, <2>1, <2>2, GoWriterOK
<1>6. CASE ReadBack(c)
  <2>1. CASE Fail(c)
    BY <2>1, FailOK
  <2>2. ASSUME store[q.name] # NoPolicy, UNCHANGED store, NEW next,
               next = [q EXCEPT !.pc = "done", !.got = {<<q.name, store[q.name]>>}],
               Moves(c, next)
        PROVE  Inv'
    <3>1. <<q.name, store[q.name]>> \in Names \X Documents
      BY <1>2, <1>3, <2>2 DEF ValidDocuments
    <3>2. /\ next \in CallRecord
          /\ next.op = q.op
          /\ next.name = q.name
          /\ next.doc = q.doc
          /\ next.pc = "done"
      BY <1>2, <2>2, <3>1 DEF CallRecord
    <3> QED
      BY <1>1, <1>2, <1>3, <2>2, <3>2, WriterOK
  <2> QED
    BY <1>1, <1>6, <2>1, <2>2 DEF ReadBack
<1> QED
  BY <1>4, <1>5, <1>6

LEMMA DeletePolicyOK ==
    ASSUME Inv, NEW c \in Calls, NEW p \in Names, DeletePolicy(c, p)
    PROVE  Inv'
<1>1. store' \in [Names -> ValidDocuments \union {NoPolicy}]
  BY DEF DeletePolicy, Inv
<1> QED
  BY <1>1, MovesOK DEF DeletePolicy

LEMMA ListNamesOK ==
    ASSUME Inv, NEW c \in Calls, ListNames(c)
    PROVE  Inv'
<1>1. PICK q : q = call[c]
  OBVIOUS
<1>2. /\ q \in CallRecord
      /\ q.pc = "names"
      /\ q.op = "list"
      /\ Listed(q, seen[c])
      /\ store \in seen[c]
      /\ Busy(c)
  BY <1>1, CallAt DEF ListNames, Pending
<1>3. PICK next : next = [q EXCEPT !.pc = "fetch", !.names = {p \in Names : store[p] # NoPolicy}]
  OBVIOUS
<1>4. /\ next \in CallRecord
      /\ next.op = "list"
      /\ next.pc = "fetch"
      /\ next.names = {p \in Names : store[p] # NoPolicy}
      /\ next.got = q.got
  BY <1>2, <1>3 DEF CallRecord
<1>5. Moves(c, next) /\ UNCHANGED store
  BY <1>1, <1>3 DEF ListNames
<1>6. seen[c] \subseteq seen'[c]
  BY <1>2, <1>4, <1>5, MoreSeen
<1>7. Pending(next) /\ Listed(next, seen'[c])
  BY <1>2, <1>4, <1>6 DEF Pending, Listed
<1>8. store' \in [Names -> ValidDocuments \union {NoPolicy}]
  BY <1>5 DEF Inv
<1> QED
  BY <1>4, <1>5, <1>7, <1>8, MovesOK

LEMMA FetchOK ==
    ASSUME Inv, NEW c \in Calls, Fetch(c)
    PROVE  Inv'
<1>1. PICK q : q = call[c]
  OBVIOUS
<1>2. /\ q \in CallRecord
      /\ q.pc = "fetch"
      /\ q.op = "list"
      /\ Listed(q, seen[c])
      /\ store \in seen[c]
      /\ Busy(c)
      /\ store \in [Names -> ValidDocuments \union {NoPolicy}]
  BY <1>1, CallAt DEF Fetch, Pending, Inv
<1>3. CASE Fail(c)
  BY <1>3, FailOK
<1>4. ASSUME NEW p \in q.names, store[p] # NoPolicy, UNCHANGED store, NEW next,
             next = [q EXCEPT !.names = q.names \ {p}, !.got = q.got \union {<<p, store[p]>>}],
             Moves(c, next)
      PROVE  Inv'
  <2>1. p \in Names /\ <<p, store[p]>> \in Names \X Documents
    BY <1>2, <1>4 DEF CallRecord, ValidDocuments
  <2>2. /\ next \in CallRecord
        /\ next.op = "list"
        /\ next.pc = "fetch"
        /\ next.names = q.names \ {p}
        /\ next.got = q.got \union {<<p, store[p]>>}
    BY <1>2, <1>4, <2>1 DEF CallRecord
  <2>3. seen[c] \subseteq seen'[c]
    BY <1>2, <1>4, <2>2, MoreSeen
  <2>4. \A e \in next.got : \E s \in seen'[c] : s[e[1]] = e[2]
    <3> SUFFICES ASSUME NEW e \in next.got
                 PROVE  \E s \in seen'[c] : s[e[1]] = e[2]
      OBVIOUS
    <3>1. CASE e \in q.got
      <4>1. PICK s \in seen[c] : s[e[1]] = e[2]
        BY <1>2, <3>1 DEF Listed
      <4> QED
        BY <2>3, <4>1
    <3>2. CASE e = <<p, store[p]>>
      <4>1. e[1] = p /\ e[2] = store[p]
        BY <3>2
      <4> QED
        BY <1>2, <2>3, <4>1
    <3> QED
      BY <2>2, <3>1, <3>2
  <2>5. \A n \in Names : (\A s \in seen'[c] : s[n] # NoPolicy) =>
           n \in next.names \/ \E e \in next.got : e[1] = n
    <3> SUFFICES ASSUME NEW n \in Names, \A s \in seen'[c] : s[n] # NoPolicy
                 PROVE  n \in next.names \/ \E e \in next.got : e[1] = n
      OBVIOUS
    <3>1. n \in q.names \/ \E e \in q.got : e[1] = n
      BY <1>2, <2>3 DEF Listed
    <3>2. <<p, store[p]>> \in next.got /\ <<p, store[p]>>[1] = p
      BY <2>2
    <3> QED
      BY <2>2, <3>1, <3>2
  <2>6. Pending(next) /\ Listed(next, seen'[c])
    BY <2>2, <2>4, <2>5 DEF Pending, Listed
  <2> QED
    BY <1>2, <1>4, <2>2, <2>6, MovesOK
<1>5. ASSUME q.names = {}, UNCHANGED store, Go(c, "done")
      PROVE  Inv'
  <2>1. PICK next : next = [q EXCEPT !.pc = "done"]
    OBVIOUS
  <2>2. /\ next \in CallRecord
        /\ next.op = "list"
        /\ next.pc = "done"
        /\ next.names = q.names
        /\ next.got = q.got
    BY <1>2, <2>1 DEF CallRecord
  <2>3. Moves(c, next)
    BY <1>1, <1>5, <2>1 DEF Go
  <2>4. seen[c] \subseteq seen'[c]
    BY <1>2, <2>2, <2>3, MoreSeen
  <2>5. Pending(next) /\ Listed(next, seen'[c])
    BY <1>2, <1>5, <2>2, <2>4 DEF Pending, Listed
  <2> QED
    BY <1>2, <1>5, <2>2, <2>3, <2>5, MovesOK
<1> QED
  BY <1>1, <1>3, <1>4, <1>5 DEF Fetch

LEMMA NextOK ==
    ASSUME Inv, [Next]_vars
    PROVE  Inv'
<1>1. ASSUME NEW c \in Calls, Return(c)
      PROVE  Inv'
  BY <1>1, FailOK DEF Return, Fail
<1>2. ASSUME NEW c \in Calls, StoreError(c)
      PROVE  Inv'
  BY <1>2, FailOK DEF StoreError
<1>3. CASE UNCHANGED vars
  BY <1>3 DEF vars, Inv, Busy
<1> QED
  BY <1>1, <1>2, <1>3, BeginWriteOK, BeginListOK, DeletePolicyOK, WriteStepOK, ListNamesOK, FetchOK
  DEF Next, Step

-----------------------------------------------------------------------------

(* The inductive invariant holds in every reachable state.                  *)
THEOREM EnforcerInvariant == Spec => []Inv
<1>1. Init => Inv
  BY DEF Init, Inv, Busy
<1> QED
  BY <1>1, NextOK, PTL DEF Spec

(* Types, and: only valid documents are ever stored, whoever writes what    *)
(* between a check and the write it belongs to.                             *)
THEOREM OnlyValidStored == Spec => []TypeOK
<1>1. Inv => TypeOK
  <2> SUFFICES ASSUME Inv PROVE TypeOK
    OBVIOUS
  <2>1. store \in [Names -> {d \in Documents : Valid(d)} \union {NoPolicy}]
    BY DEF Inv, ValidDocuments
  <2>2. ASSUME NEW c \in Calls, Busy(c)
        PROVE  call[c].names \subseteq Names /\ call[c].got \subseteq Names \X Documents
    BY <2>2 DEF Inv, Busy, CallRecord
  <2> QED
    BY <2>1, <2>2 DEF TypeOK
<1> QED
  BY <1>1, EnforcerInvariant, PTL

(* What ListPolicies returns had been stored while it ran, and it omits no  *)
(* policy that was there all along.                                         *)
THEOREM ListsAreOfTheirTime == Spec => []ListIsOfItsTime
<1>1. Inv => ListIsOfItsTime
  BY DEF Inv, ListIsOfItsTime, At, Listed
<1> QED
  BY <1>1, EnforcerInvariant, PTL

=============================================================================
