-------------------------- MODULE ProviderRegistry --------------------------
(***************************************************************************)
(* The in-memory registry of provider/registry.go as it is kept: a map by  *)
(* instance name, the names in registration order, and an index of the     *)
(* names by the templates they advertise.  Register and Remove hold the    *)
(* write lock and Get, GetDefault, List and Match the read lock from       *)
(* beginning to end, so each is one step or a function of one state.       *)
(*                                                                         *)
(* The other modules see a registry as the sequence of its backends;       *)
(* ImplementsListing and MatchAgrees say they may.                         *)
(*                                                                         *)
(* supported is what each backend's SupportedAlgorithms returns at the     *)
(* time.  The registry asks at Register, again at Remove, and again at     *)
(* Match; nothing obliges a backend (a remote one, say) to repeat itself.  *)
(***************************************************************************)
EXTENDS ProviderMatching, FiniteSets, SequencesExt

CONSTANTS
    Lists,       \* the lists SupportedAlgorithms may return, with repetitions
    FirstList,   \* the list each backend starts with
    Changing,    \* backends whose list changes
    Asked,       \* the requirements Match is asked about
    MaxNames     \* bound on the names indexed under a template

ASSUME ListsAssumption ==
    /\ Lists \subseteq Seq(Templates)
    /\ FirstList \in [Backends -> Lists]
    /\ \A b \in Backends : ToSet(FirstList[b]) = Desc[b].advertises
    /\ Changing \subseteq Backends
    /\ Asked \subseteq Requirements
    /\ MaxNames \in Nat

VARIABLES
    providers,    \* map[string]Backend; NoBackend for a name not in it
    order,        \* names, in registration order
    byTemplate,   \* names by template, in registration order
    supported     \* what SupportedAlgorithms returns now

vars == <<providers, order, byTemplate, supported>>

Occurrences(s, x) == Cardinality({i \in DOMAIN s : s[i] = x})

(* append(names, name), once for each time the template is in the list. *)
Indexed(names, n, list, t) ==
    names \o [i \in 1..Occurrences(list, t) |-> n]

EvictedFirst(names, n, list, t) ==    \* faulty: stops at the first occurrence
    IF Contains(list, t) THEN RemoveFirst(names, n) ELSE names

(* names without its first n, once for each time the template is in the list. *)
Evicted(names, n, list, t) ==
    LET f[i \in Nat] == IF i = 0 THEN names ELSE RemoveFirst(f[i - 1], n)
    IN f[Occurrences(list, t)]

Init ==
    /\ providers = [n \in Instances |-> NoBackend]
    /\ order = <<>>
    /\ byTemplate = [t \in Templates |-> <<>>]
    /\ supported = FirstList

RegisterByType(b) ==    \* faulty: indexes the provider type
    LET n == Desc[b].name IN
    /\ providers[n] = NoBackend
    /\ providers' = [providers EXCEPT ![n] = b]
    /\ order' = Append(order, n)
    /\ byTemplate' = [t \in Templates |->
                        Indexed(byTemplate[t], Desc[b].type, supported[b], t)]
    /\ UNCHANGED supported

RegisterInFront(b) ==    \* faulty: the latest comes first
    LET n == Desc[b].name IN
    /\ providers[n] = NoBackend
    /\ providers' = [providers EXCEPT ![n] = b]
    /\ order' = <<n>> \o order
    /\ byTemplate' = [t \in Templates |-> Indexed(byTemplate[t], n, supported[b], t)]
    /\ UNCHANGED supported

(* A name already registered is refused.  (The bound only matters once     *)
(* lists change: what is not evicted piles up.)                            *)
Register(b) ==
    LET n == Desc[b].name IN
    /\ providers[n] = NoBackend
    /\ providers' = [providers EXCEPT ![n] = b]
    /\ order' = Append(order, n)
    /\ byTemplate' = [t \in Templates |-> Indexed(byTemplate[t], n, supported[b], t)]
    /\ \A t \in Templates : Len(byTemplate'[t]) <= MaxNames
    /\ UNCHANGED supported

RemoveUnordered(n) ==    \* faulty: the name stays in the order
    LET b == providers[n] IN
    /\ b # NoBackend
    /\ providers' = [providers EXCEPT ![n] = NoBackend]
    /\ byTemplate' = [t \in Templates |-> Evicted(byTemplate[t], n, supported[b], t)]
    /\ UNCHANGED <<order, supported>>

RemoveBackend(n) ==
    LET b == providers[n] IN
    /\ b # NoBackend
    /\ providers' = [providers EXCEPT ![n] = NoBackend]
    /\ order' = RemoveFirst(order, n)
    /\ byTemplate' = [t \in Templates |-> Evicted(byTemplate[t], n, supported[b], t)]
    /\ UNCHANGED supported

(* A backend's SupportedAlgorithms returns another list from now on. *)
Readvertise(b, list) ==
    /\ supported[b] # list
    /\ supported' = [supported EXCEPT ![b] = list]
    /\ UNCHANGED <<providers, order, byTemplate>>

Next ==
    \/ \E b \in Backends : Register(b)
    \/ \E n \in Instances : RemoveBackend(n)
    \/ \E b \in Changing, list \in Lists : Readvertise(b, list)

Spec == Init /\ [][Next]_vars

-----------------------------------------------------------------------------
(* The queries, as sets of the backends they may return: at most one.      *)

List == [i \in DOMAIN order |-> providers[order[i]]]

Get(n) == {providers[n]} \ {NoBackend}

SupportsNow(b, t) == Contains(supported[b], t)

EligibleNow(b, q, t) == SupportsNow(b, t) /\ Meets(b, q)

GroupUnpreferred(b, q, t) ==    \* faulty: ignores preferences
    IF b = NoBackend \/ ~EligibleNow(b, q, t) THEN 3 ELSE 2

GroupByIndex(b, q, t) ==    \* faulty: takes the index at its word
    IF b = NoBackend \/ ~Meets(b, q) THEN 3 ELSE IF Preferred(b, q) THEN 1 ELSE 2

(* Rank's groups: the preferred, the other eligible ones, and the rest,     *)
(* with which goes a name that is no longer registered (nil, skipped).      *)
Group(b, q, t) ==
    IF b = NoBackend \/ ~EligibleNow(b, q, t) THEN 3 ELSE IF Preferred(b, q) THEN 1 ELSE 2

(* Match: the pinned instance if it is eligible; without a pin, the first   *)
(* of the backends the index names, as Rank orders them, if it is eligible. *)
MatchNow(n, q, t) ==
    LET names    == byTemplate[t]
        group(i) == Group(providers[names[i]], q, t)
        first(i) == /\ group(i) < 3
                    /\ \A j \in DOMAIN names :
                         group(i) < group(j) \/ (group(i) = group(j) /\ i <= j)
    IN IF n = NoInstance
       THEN {providers[names[i]] : i \in {k \in DOMAIN names : first(k)}}
       ELSE {b \in Get(n) : EligibleNow(b, q, t)}

-----------------------------------------------------------------------------
(* Properties *)

TypeOK ==
    /\ providers \in [Instances -> Backends \union {NoBackend}]
    /\ order \in Seq(Instances)
    /\ byTemplate \in [Templates -> Seq(Instances)]
    /\ supported \in [Backends -> Lists]

(* The order lists exactly the names of the map, each once, each with a     *)
(* backend of that name (registry, Register, Remove).                       *)
OrderMatchesMap ==
    /\ ToSet(order) = {n \in Instances : providers[n] # NoBackend}
    /\ \A i, j \in DOMAIN order : order[i] = order[j] => i = j
    /\ \A n \in ToSet(order) : Desc[providers[n]].name = n

(* For the backends whose lists do not change, the index has, for each      *)
(* template, a name for each time its backend advertises it, in             *)
(* registration order ("same as order", provider/registry.go, byTemplate).  *)
StableNames == Instances \ {Desc[b].name : b \in Changing}

Position(n) == CHOOSE i \in DOMAIN order : order[i] = n

IndexFollowsOrder ==
    \A t \in Templates :
        LET names == byTemplate[t] IN
        /\ \A n \in StableNames :
             Occurrences(names, n) = IF Contains(order, n)
                                     THEN Occurrences(supported[providers[n]], t)
                                     ELSE 0
        /\ \A i, j \in DOMAIN names :
             i < j /\ {names[i], names[j]} \subseteq StableNames =>
                 Position(names[i]) <= Position(names[j])

(* Match on the index answers as if it had ranked everything registered:    *)
(* the operator the orchestrators' models use.  Pins included, as long as   *)
(* only backends whose lists do not change are in play.                     *)
MatchAgrees ==
    \A q \in Asked, t \in Templates, n \in Instances \union {NoInstance} :
        (IF n = NoInstance THEN ToSet(order) \union ToSet(byTemplate[t]) ELSE {n})
            \subseteq StableNames
        => MatchNow(n, q, t) = Match(List, n, q, t)

(* Whatever the lists do, Match returns a backend that is registered under  *)
(* its name, advertises the template now and meets the requirements: the    *)
(* index only proposes (Rank judges again and skips nil).                   *)
MatchIsSound ==
    \A q \in Asked, t \in Templates, n \in Instances \union {NoInstance} :
        \A b \in MatchNow(n, q, t) :
            /\ Get(Desc[b].name) = {b}
            /\ EligibleNow(b, q, t)
            /\ n # NoInstance => Desc[b].name = n

(* The registry is the list of backends that the orchestrators' models      *)
(* append to and remove from, whatever the index does.                      *)
Listing == INSTANCE ProviderListing WITH listing <- List

ImplementsListing == Listing!ListingSpec

=============================================================================
