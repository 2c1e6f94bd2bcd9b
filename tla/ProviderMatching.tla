-------------------------- MODULE ProviderMatching --------------------------
(***************************************************************************)
(* Provider backends, the requirements placed on them and the order in     *)
(* which one is chosen: provider/match.go, the selection half of           *)
(* provider/registry.go and provider_requirements.go.                      *)
(*                                                                         *)
(* A backend is an opaque identity b; Desc[b] is what it reports about     *)
(* itself through the optional interfaces of provider/backend.go.  Two     *)
(* backends may carry the same instance name: the registry holds at most   *)
(* one of them at a time.  A backend that implements none of the optional  *)
(* interfaces has empty sets and FALSE everywhere.                         *)
(***************************************************************************)
EXTENDS Integers, Sequences

CONSTANTS
    Backends,     \* provider backend objects
    Instances,    \* registered instance names
    Types,        \* provider types
    Templates,    \* algorithm template identifiers
    Properties,   \* implementation properties other than FIPS 140 and hardware
    Encodings,    \* private key encodings
    Mechanisms,   \* key-wrapping mechanisms
    Desc,         \* what each backend reports
    NoBackend,    \* a nil backend
    NoInstance,   \* an empty instance name
    NoEncoding    \* PRIVATE_KEY_ENCODING_UNSPECIFIED

MaxFIPS140Level == 4

Channels == [stored  : SUBSET Encodings,
             plain   : SUBSET Encodings,
             wrapped : SUBSET Mechanisms]

Description ==
    [name       : Instances,
     type       : Types,
     advertises : SUBSET Templates,
     certified  : BOOLEAN,               \* FIPS 140 certified
     level      : 0..MaxFIPS140Level,    \* FIPS 140 level, 0 when unreported
     props      : SUBSET Properties,
     hardware   : BOOLEAN,
     emit       : [Templates -> Channels],
     accept     : [Templates -> Channels],
     generates  : [Templates -> Encodings \union {NoEncoding}]]

Requirements ==
    [certified : BOOLEAN,                \* FIPS140Certified
     level     : 0..MaxFIPS140Level,     \* MinFIPS140Level, 0 for none
     props     : SUBSET Properties,
     approved  : BOOLEAN,                \* ApprovedGeneration
     hardware  : BOOLEAN]                \* PreferHardwareAccelerated

ASSUME BackendAssumption ==
    /\ Desc \in [Backends -> Description]
    /\ NoBackend \notin Backends
    /\ NoInstance \notin Instances
    /\ NoEncoding \notin Encodings

NothingRequired ==
    [certified |-> FALSE, level |-> 0, props |-> {}, approved |-> FALSE, hardware |-> FALSE]

MergeWithoutApproved(p, q) ==    \* faulty: forgets a requirement
    [certified |-> p.certified \/ q.certified,
     level     |-> IF p.level >= q.level THEN p.level ELSE q.level,
     props     |-> p.props \union q.props,
     approved  |-> p.approved,
     hardware  |-> p.hardware \/ q.hardware]

(* What meets both p and q: ProviderRequirements.Merge. *)
Merge(p, q) ==
    [certified |-> p.certified \/ q.certified,
     level     |-> IF p.level >= q.level THEN p.level ELSE q.level,
     props     |-> p.props \union q.props,
     approved  |-> p.approved \/ q.approved,
     hardware  |-> p.hardware \/ q.hardware]

(* No hard requirement of q is unmet; what b does not report is unmet. *)
Meets(b, q) ==
    /\ q.props \subseteq Desc[b].props
    /\ q.certified => Desc[b].certified
    /\ q.level > 0 => Desc[b].certified /\ Desc[b].level >= q.level
    /\ q.approved => Desc[b].certified

Preferred(b, q) == q.hardware /\ Desc[b].hardware

Advertises(b, t) == t \in Desc[b].advertises

Eligible(b, q, t) == Advertises(b, t) /\ Meets(b, q)

(* Rank's three groups, and its order on the positions of a listing. *)
RankGroup(b, q, t) ==
    IF ~Eligible(b, q, t) THEN 3 ELSE IF Preferred(b, q) THEN 1 ELSE 2

RanksBefore(listing, q, t, i, j) ==
    LET g(k) == RankGroup(listing[k], q, t)
    IN g(i) < g(j) \/ (g(i) = g(j) /\ i < j)

(* The backend registered under name n, if any, as a set. *)
Registered(registry, n) ==
    {b \in Backends : Desc[b].name = n /\ \E i \in DOMAIN registry : registry[i] = b}

(* registry.Match: the backends it may return, at most one.  A pinned      *)
(* instance is that instance or an error; without a pin the first          *)
(* candidate of Rank wins if it is eligible.                               *)
MatchPinned(registry, n, q, t) ==
    {b \in Registered(registry, n) : Eligible(b, q, t)}

MatchFirst(registry, q, t) ==
    {b \in Backends : \E i \in DOMAIN registry :
        /\ registry[i] = b
        /\ Eligible(b, q, t)
        /\ \A j \in DOMAIN registry \ {i} : RanksBefore(registry, q, t, i, j)}

Match(registry, n, q, t) ==
    IF n = NoInstance THEN MatchFirst(registry, q, t)
                      ELSE MatchPinned(registry, n, q, t)

=============================================================================
