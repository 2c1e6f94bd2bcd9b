------------------------- MODULE KeyAggregate_proofs -------------------------
(***************************************************************************)
(* Proofs about KeyAggregate: its states are well typed and the lineage of *)
(* every live key is sound, for any backends, templates and number of      *)
(* versions.                                                               *)
(*                                                                         *)
(* LineageSound is not inductive.  That transferred material was released  *)
(* by all its former holders needs ExtractableChain: what a version's      *)
(* extractable flag says about the holders before it.  That all of them    *)
(* may hold plaintext keys (FipsLevelsRespected) then follows, as a closed *)
(* module neither releases material nor, by TakenInOpenly, takes any in.   *)
(***************************************************************************)
EXTENDS KeyAggregate, TLAPS

TakenInOpenly(vs) == \A i \in 1..Len(vs) : Kept(vs[i]) => ~Closed(vs[i].placed)

Lineage(vs) ==
    /\ Numbered(vs)
    /\ OneScope(vs)
    /\ PayloadFromOrigin(vs)
    /\ ApprovedLineage(vs)
    /\ OnlyReleasedMaterialMoves(vs)
    /\ ExtractableChain(vs)
    /\ TakenInOpenly(vs)

LineageInv == \A k \in KeyIds : keys[k].status = "live" => Lineage(keys[k].versions)

-----------------------------------------------------------------------------

(* The chain of an old version is not changed by a new one; the chain of a  *)
(* new version is itself, with its predecessor's chain when it is kept.     *)
LEMMA ChainAppend ==
    ASSUME NEW vs \in Seq(KeyVersion), NEW v \in KeyVersion,
           NEW ws, ws = Append(vs, v)
    PROVE  /\ \A i \in 1..Len(vs) : Chain(ws, i) = Chain(vs, i)
           /\ Chain(ws, Len(vs) + 1) =
                {Len(vs) + 1} \union (IF Kept(v) THEN Chain(vs, Len(vs)) ELSE {})
<1> DEFINE n == Len(vs)
<1>1. /\ n \in Nat
      /\ ws \in Seq(KeyVersion)
      /\ Len(ws) = n + 1
      /\ \A i \in 1..n : ws[i] = vs[i]
      /\ ws[n + 1] = v
  OBVIOUS
<1> HIDE DEF n
<1>2. ASSUME NEW i \in 1..n
      PROVE  Chain(ws, i) = Chain(vs, i)
  <2>1. \A j \in 1..i, m \in 1..n : m \in (j + 1)..i => ws[m] = vs[m]
    BY <1>1, <1>2
  <2>2. \A j \in 1..i : \A m \in (j + 1)..i : m \in 1..n
    BY <1>1, <1>2
  <2> QED
    BY <2>1, <2>2 DEF Chain, Kept
<1>3. ASSUME NEW j \in 1..n
      PROVE  j \in Chain(ws, n + 1) <=> Kept(v) /\ j \in Chain(vs, n)
  <2>1. j \in 1..(n + 1) /\ n + 1 \in (j + 1)..(n + 1)
    BY <1>1, <1>3
  <2>2. \A m \in (j + 1)..(n + 1) : m = n + 1 \/ m \in (j + 1)..n
    BY <1>1, <1>3
  <2>3. \A m \in (j + 1)..n : m \in (j + 1)..(n + 1) /\ ws[m] = vs[m]
    BY <1>1, <1>3
  <2> QED
    BY <1>1, <2>1, <2>2, <2>3 DEF Chain, Kept
<1>4. n + 1 \in Chain(ws, n + 1)
  BY <1>1 DEF Chain
<1>5. /\ \A j \in Chain(ws, n + 1) : j = n + 1 \/ j \in 1..n
      /\ \A j \in Chain(vs, n) : j \in 1..n
  BY <1>1 DEF Chain
<1>6. Chain(ws, n + 1) = {n + 1} \union (IF Kept(v) THEN Chain(vs, n) ELSE {})
  <2>1. CASE Kept(v)
    BY <2>1, <1>3, <1>4, <1>5
  <2>2. CASE ~Kept(v)
    BY <2>2, <1>3, <1>4, <1>5
  <2> QED
    BY <2>1, <2>2
<1> QED
  BY <1>2, <1>6 DEF n

(* A first version, generated, has a sound lineage. *)
LEMMA FirstVersion ==
    ASSUME NEW v \in KeyVersion, v.version = 1, Generated(v)
    PROVE  Lineage(<<v>>)
<1> DEFINE vs == <<v>>
<1>1. /\ Len(vs) = 1
      /\ vs[1] = v
      /\ \A i \in 1..Len(vs) : i = 1
      /\ 2..Len(vs) = {}
  OBVIOUS
<1> HIDE DEF vs
<1>2. Chain(vs, 1) = {1}
  BY DEF Chain
<1>3. Numbered(vs) /\ OneScope(vs) /\ OnlyReleasedMaterialMoves(vs)
  BY <1>1 DEF Numbered, OneScope, OnlyReleasedMaterialMoves
<1>4. PayloadFromOrigin(vs)
  BY <1>1, <1>2 DEF PayloadFromOrigin
<1>5. ApprovedLineage(vs) /\ ExtractableChain(vs)
  BY <1>1, <1>2 DEF ApprovedLineage, ExtractableChain, Generated
<1>6. TakenInOpenly(vs)
  BY <1>1 DEF TakenInOpenly, Generated, Kept
<1> QED
  BY <1>3, <1>4, <1>5, <1>6 DEF Lineage, vs

(* A sound lineage stays sound when a version is added that is generated or *)
(* kept from the last one.                                                  *)
LEMMA NextVersionSound ==
    ASSUME NEW vs \in Seq(KeyVersion), Lineage(vs),
           NEW v \in KeyVersion,
           v.version = Len(vs) + 1,
           v.scope = vs[Len(vs)].scope,
           Generated(v) \/ KeptFrom(v, vs[Len(vs)])
    PROVE  Lineage(Append(vs, v))
<1> DEFINE n  == Len(vs)
           ws == Append(vs, v)
<1>1. /\ n \in Nat \ {0}
      /\ n \in 1..n
      /\ Len(ws) = n + 1
      /\ \A i \in 1..n : ws[i] = vs[i]
      /\ ws[n + 1] = v
      /\ \A i \in 1..Len(ws) : i \in 1..n \/ i = n + 1
  BY DEF Lineage, Numbered
<1>2. /\ \A i \in 1..n : Chain(ws, i) = Chain(vs, i)
      /\ Chain(ws, n + 1) = {n + 1} \union (IF Kept(v) THEN Chain(vs, n) ELSE {})
  BY ChainAppend
<1>3. \A i \in 1..n : \A j \in Chain(vs, i) : j \in 1..n /\ ws[j] = vs[j]
  BY <1>1 DEF Chain
<1>4. /\ Generated(v) => ~Kept(v)
      /\ Kept(v) => KeptFrom(v, vs[n])
      /\ KeptFrom(v, vs[n]) => Kept(v)
  BY DEF Generated, KeptFrom, Kept
<1> HIDE DEF n, ws
<1>5. Numbered(ws)
  BY <1>1 DEF Lineage, Numbered, n
<1>6. OneScope(ws)
  BY <1>1 DEF Lineage, OneScope, n
<1>7. PayloadFromOrigin(ws)
  <2>1. ASSUME NEW i \in 1..n
        PROVE  \E j \in Chain(ws, i) : Generated(ws[j]) /\ ws[i].payload = ws[j].payload
    BY <1>1, <1>2, <1>3 DEF Lineage, PayloadFromOrigin, n
  <2>2. \E j \in Chain(ws, n + 1) : Generated(ws[j]) /\ ws[n + 1].payload = ws[j].payload
    <3>1. CASE Generated(v)
      BY <3>1, <1>1, <1>2
    <3>2. CASE Kept(v)
      <4>1. PICK j \in Chain(vs, n) : Generated(vs[j]) /\ vs[n].payload = vs[j].payload
        BY <1>1 DEF Lineage, PayloadFromOrigin, n
      <4>2. v.payload = vs[n].payload
        BY <3>2, <1>4 DEF KeptFrom
      <4> QED
        BY <4>1, <4>2, <3>2, <1>1, <1>2, <1>3
    <3> QED
      BY <3>1, <3>2, <1>4 DEF n
  <2> QED
    BY <2>1, <2>2, <1>1 DEF PayloadFromOrigin
<1>8. ApprovedLineage(ws)
  <2>1. ASSUME NEW i \in 1..n, ws[i].approved, NEW j \in Chain(ws, i)
        PROVE  Desc[ws[j].placed].certified
    BY <2>1, <1>1, <1>2, <1>3 DEF Lineage, ApprovedLineage, n
  <2>2. ASSUME v.approved, NEW j \in Chain(ws, n + 1)
        PROVE  Desc[ws[j].placed].certified
    <3>1. CASE Generated(v)
      BY <3>1, <2>2, <1>1, <1>2, <1>4 DEF Generated
    <3>2. CASE Kept(v)
      <4>1. vs[n].approved /\ Desc[v.placed].certified
        BY <3>2, <2>2, <1>4 DEF KeptFrom
      <4>2. \A m \in Chain(vs, n) : Desc[vs[m].placed].certified
        BY <4>1, <1>1 DEF Lineage, ApprovedLineage, n
      <4> QED
        BY <4>1, <4>2, <3>2, <1>1, <1>2, <1>3
    <3> QED
      BY <3>1, <3>2, <1>4 DEF n
  <2> QED
    BY <2>1, <2>2, <1>1 DEF ApprovedLineage
<1>9. ExtractableChain(ws)
  <2>1. ASSUME NEW i \in 1..n, ws[i].extractable, NEW j \in Chain(ws, i)
        PROVE  ReleasesMaterial(ws[j].placed, ws[j].template)
    BY <2>1, <1>1, <1>2, <1>3 DEF Lineage, ExtractableChain, n
  <2>2. ASSUME v.extractable, NEW j \in Chain(ws, n + 1)
        PROVE  ReleasesMaterial(ws[j].placed, ws[j].template)
    <3>1. CASE Generated(v)
      BY <3>1, <2>2, <1>1, <1>2, <1>4 DEF Generated
    <3>2. CASE Kept(v)
      <4>1. vs[n].extractable /\ ReleasesMaterial(v.placed, v.template)
        BY <3>2, <2>2, <1>4 DEF KeptFrom
      <4>2. \A m \in Chain(vs, n) : ReleasesMaterial(vs[m].placed, vs[m].template)
        BY <4>1, <1>1 DEF Lineage, ExtractableChain, n
      <4> QED
        BY <4>1, <4>2, <3>2, <1>1, <1>2, <1>3
    <3> QED
      BY <3>1, <3>2, <1>4 DEF n
  <2> QED
    BY <2>1, <2>2, <1>1 DEF ExtractableChain
<1>10. OnlyReleasedMaterialMoves(ws)
  <2>1. ASSUME NEW i \in 2..n, ws[i].origin.kind = "TRANSFERRED", NEW j \in Chain(ws, i - 1)
        PROVE  ReleasesMaterial(ws[j].placed, ws[j].template)
    <3>1. i \in 1..n /\ i - 1 \in 1..n
      BY <1>1
    <3> QED
      BY <2>1, <3>1, <1>1, <1>2, <1>3 DEF Lineage, OnlyReleasedMaterialMoves, n
  <2>2. ASSUME v.origin.kind = "TRANSFERRED", NEW j \in Chain(ws, n)
        PROVE  ReleasesMaterial(ws[j].placed, ws[j].template)
    <3>1. vs[n].extractable
      BY <2>2, <1>4 DEF KeptFrom, Kept
    <3> QED
      BY <3>1, <1>1, <1>2, <1>3 DEF Lineage, ExtractableChain, n
  <2>3. \A i \in 2..Len(ws) : i \in 2..n \/ (i = n + 1 /\ i - 1 = n)
    BY <1>1
  <2> QED
    BY <2>1, <2>2, <2>3, <1>1 DEF OnlyReleasedMaterialMoves
<1>11. TakenInOpenly(ws)
  <2>1. \A i \in 1..n : Kept(ws[i]) => ~Closed(ws[i].placed)
    BY <1>1 DEF Lineage, TakenInOpenly, n
  <2>2. Kept(v) => ~Closed(v.placed)
    BY <1>4 DEF KeptFrom
  <2> QED
    BY <2>1, <2>2, <1>1 DEF TakenInOpenly
<1> QED
  BY <1>5, <1>6, <1>7, <1>8, <1>9, <1>10, <1>11 DEF Lineage, ws

(* A closed module releases nothing, and what is not closed may hold        *)
(* plaintext keys.                                                          *)
LEMMA OpenIsPermitted ==
    ASSUME NEW b
    PROVE  /\ ~Closed(b) => PlaintextPermitted(b)
           /\ \A t : ReleasesMaterial(b, t) => ~Closed(b)
<1>1. ~Closed(b) => PlaintextPermitted(b)
  BY DEF Closed, PermitsPlaintextKeys, PlaintextPermitted
<1>2. ASSUME NEW t, Closed(b)
      PROVE  ~ReleasesMaterial(b, t)
  BY <1>2 DEF ReleasesMaterial, Emit, Allow, NoChannels
<1> QED
  BY <1>1, <1>2

(* What the lineage says of the levels of those who held the material.      *)
LEMMA LevelsOfLineage ==
    ASSUME NEW vs, Lineage(vs), Len(vs) \in Nat, NEW i \in 1..Len(vs)
    PROVE  /\ Kept(vs[i]) => PlaintextPermitted(vs[i].placed)
           /\ vs[i].origin.kind = "TRANSFERRED" =>
                \A j \in Chain(vs, i) : PlaintextPermitted(vs[j].placed)
<1>1. Kept(vs[i]) => PlaintextPermitted(vs[i].placed)
  BY OpenIsPermitted DEF Lineage, TakenInOpenly
<1>2. ASSUME vs[i].origin.kind = "TRANSFERRED", NEW j \in Chain(vs, i)
      PROVE  PlaintextPermitted(vs[j].placed)
  <2>1. j \in 1..i /\ \A m \in (j + 1)..i : Kept(vs[m])
    BY <1>2 DEF Chain
  <2>2. CASE j = i
    BY <2>2, <1>1, <1>2 DEF Kept
  <2>3. CASE j # i
    <3>1. i \in 2..Len(vs) /\ j \in 1..(i - 1)
      BY <2>1, <2>3
    <3>2. \A m \in (j + 1)..(i - 1) : m \in (j + 1)..i
      BY <3>1
    <3>3. j \in Chain(vs, i - 1)
      BY <2>1, <3>1, <3>2 DEF Chain
    <3>4. ReleasesMaterial(vs[j].placed, vs[j].template)
      BY <1>2, <3>1, <3>3 DEF Lineage, OnlyReleasedMaterialMoves
    <3> QED
      BY <3>4, OpenIsPermitted
  <2> QED
    BY <2>2, <2>3
<1> QED
  BY <1>1, <1>2

LEMMA LineageRespectsLevels == KeysTypeOK /\ LineageInv => FipsLevelsRespected
<1> SUFFICES ASSUME KeysTypeOK, LineageInv,
                    NEW k \in KeyIds, keys[k].status = "live",
                    NEW i \in 1..Len(keys[k].versions)
             PROVE  LET vs == keys[k].versions IN
                    /\ Kept(vs[i]) => PlaintextPermitted(vs[i].placed)
                    /\ vs[i].origin.kind = "TRANSFERRED" =>
                         \A j \in Chain(vs, i) : PlaintextPermitted(vs[j].placed)
  BY DEF FipsLevelsRespected
<1>1. keys[k].versions \in Seq(KeyVersion)
  BY DEF KeysTypeOK, Key
<1>2. Lineage(keys[k].versions) /\ Len(keys[k].versions) \in Nat
  BY <1>1 DEF LineageInv
<1> QED
  BY <1>2, LevelsOfLineage

-----------------------------------------------------------------------------

LEMMA NoKeyIsKey ==
    ASSUME NEW status \in Status
    PROVE  NoKey(status) \in Key
<1>1. <<>> \in Seq(KeyVersion)
  OBVIOUS
<1> QED
  BY <1>1 DEF NoKey, Key

LEMMA KeysInitOK == KeysInit => KeysTypeOK /\ LineageInv
<1>1. ASSUME KeysInit
      PROVE  KeysTypeOK
  <2>1. NoKey("unused") \in Key
    BY NoKeyIsKey DEF Status
  <2> QED
    BY <1>1, <2>1 DEF KeysInit, KeysTypeOK
<1>2. ASSUME KeysInit
      PROVE  LineageInv
  BY <1>2 DEF KeysInit, LineageInv, NoKey
<1> QED
  BY <1>1, <1>2

LEMMA KeysNextOK ==
    ASSUME KeysTypeOK, LineageInv, [KeysNext]_keys
    PROVE  KeysTypeOK' /\ LineageInv'
<1>1. ASSUME NEW k \in KeyIds, KeyCreated(k)
      PROVE  KeysTypeOK' /\ LineageInv'
  <2> DEFINE new == keys'[k]
  <2>1. /\ new \in Key
        /\ keys' = [keys EXCEPT ![k] = new]
    BY <1>1 DEF KeyCreated
  <2>2. Lineage(new.versions)
    <3>1. new.versions \in Seq(KeyVersion)
      BY <2>1 DEF Key
    <3>2. /\ Len(new.versions) = 1
          /\ new.versions[1].version = 1
          /\ Generated(new.versions[1])
      BY <1>1 DEF KeyCreated
    <3>3. new.versions = <<new.versions[1]>> /\ new.versions[1] \in KeyVersion
      BY <3>1, <3>2
    <3> QED
      BY <3>2, <3>3, FirstVersion
  <2>3. KeysTypeOK'
    BY <2>1 DEF KeysTypeOK
  <2>4. LineageInv'
    BY <2>1, <2>2 DEF KeysTypeOK, LineageInv
  <2> QED
    BY <2>3, <2>4
<1>2. ASSUME NEW k \in KeyIds, VersionAdded(k)
      PROVE  KeysTypeOK' /\ LineageInv'
  <2> DEFINE vs  == keys[k].versions
             v   == keys'[k].versions[Len(vs) + 1]
  <2>1. /\ keys[k] \in Key
        /\ vs \in Seq(KeyVersion)
        /\ Lineage(vs)
    BY <1>2 DEF KeysTypeOK, Key, LineageInv, VersionAdded
  <2>2. /\ v \in KeyVersion
        /\ v.version = Len(vs) + 1
        /\ v.scope = vs[Len(vs)].scope
        /\ Generated(v) \/ KeptFrom(v, vs[Len(vs)])
        /\ keys' = [keys EXCEPT ![k].versions = Append(vs, v)]
    BY <1>2 DEF VersionAdded
  <2> HIDE DEF v
  <2>3. Lineage(Append(vs, v)) /\ Append(vs, v) \in Seq(KeyVersion)
    <3>1. Lineage(Append(vs, v))
      BY <2>1, <2>2, NextVersionSound
    <3>2. Append(vs, v) \in Seq(KeyVersion)
      BY <2>1, <2>2
    <3> QED
      BY <3>1, <3>2
  <2>4. KeysTypeOK'
    BY <2>1, <2>2, <2>3 DEF KeysTypeOK, Key
  <2>5. LineageInv'
    BY <2>1, <2>2, <2>3 DEF KeysTypeOK, LineageInv, Key
  <2> QED
    BY <2>4, <2>5
<1>3. ASSUME NEW k \in KeyIds, KeyDeleted(k)
      PROVE  KeysTypeOK' /\ LineageInv'
  <2>1. NoKey("deleted") \in Key /\ NoKey("deleted").status = "deleted"
    BY NoKeyIsKey DEF Status, NoKey
  <2> QED
    BY <1>3, <2>1 DEF KeyDeleted, KeysTypeOK, LineageInv
<1>4. CASE UNCHANGED keys
  BY <1>4 DEF KeysTypeOK, LineageInv
<1> QED
  BY <1>1, <1>2, <1>3, <1>4 DEF KeysNext

(* Every state of the abstract specification is well typed, and the lineage *)
(* of every live key is sound and its extractable flags tell the truth      *)
(* about all the holders of the material.                                   *)
THEOREM KeysInvariant == KeysSpec => [](KeysTypeOK /\ LineageInv)
<1>1. KeysInit => KeysTypeOK /\ LineageInv
  BY KeysInitOK
<1>2. KeysTypeOK /\ LineageInv /\ [KeysNext]_keys => KeysTypeOK' /\ LineageInv'
  BY KeysNextOK
<1> QED
  BY <1>1, <1>2, PTL DEF KeysSpec

(* Versions are numbered without gaps, keep one scope, hold the payload     *)
(* generated at the head of their chain, claim approved lineage only for    *)
(* material that certified modules alone have held, and move only material  *)
(* that every holder releases (keptProvenance, requireKeptLineage,          *)
(* sourceFeasibility).                                                      *)
THEOREM AggregateLineage == KeysSpec => []LineageSound
<1>1. LineageInv => LineageSound
  BY DEF LineageInv, Lineage, LineageSound
<1> QED
  BY <1>1, KeysInvariant, PTL

=============================================================================
