-------------------------- MODULE ObservationRoutes --------------------------
(***************************************************************************)
(* Which providers an observation request asks for a station, in which     *)
(* order: GNSSGo._observation_provider_route in client.py.  A station of a *)
(* region belongs to the provider that publishes it; only a station used   *)
(* as a global one walks the configured mirrors.                           *)
(***************************************************************************)
EXTENDS Sublists

CONSTANTS
    Stations,       \* station codes a request may name
    Providers,
    Priority,       \* settings.provider.priority: the global mirrors
    Regions,        \* data networks of category "regional"
    Members,        \* region -> its providers, in order
    SourceOf,       \* regional source -> [provider, network]
    Known           \* station -> the set of its catalogue rows, {} or one:
                    \* [srcs, provs, igs]

\* What the catalogue says of a station: sources, providers, whether it is IGS.
ASSUME RouteAssumption ==
    /\ Priority \in Seq(Providers)
    /\ Members \in [Regions -> Seq(Providers)]
    /\ \A s \in DOMAIN SourceOf : SourceOf[s].provider \in Providers
    /\ \A s \in Stations : \A row \in Known[s] : ToSet(row.provs) \subseteq Providers
    /\ \A s \in Stations : \A x, y \in Known[s] : x = y

\* DataNetworkRegistry.providers_for.
ProvidersFor(nets) == Distinct(FlattenSeq([k \in DOMAIN nets |-> Members[nets[k]]]))

FirstInPriority(wanted, order) == order[SelectInSeq(order, LAMBDA p : p \in wanted)]

(* Providers of the selected regions that own the station by one of its    *)
(* regional sources, restricted to the requested ones when there are any.  *)
(* Old caches name a provider where a source belongs.                      *)
Owners(row, nets, wanted) ==
    LET region == ToSet(ProvidersFor(nets))
        srcs == IF wanted = {} THEN ToSet(row.srcs) ELSE ToSet(row.srcs) \cap wanted
        named == {SourceOf[s].provider : s \in
                    {r \in srcs \cap DOMAIN SourceOf : SourceOf[r].network \in ToSet(nets)}}
    IN  (named \cup (srcs \ DOMAIN SourceOf)) \cap region

\* Mutant of Route: what the row says of its sources is not looked at.
RouteBlind(s, nets, wanted) ==
    IF nets = <<>> THEN Priority ELSE ProvidersFor(nets)

(* nets: the selected networks without IGS.  The strongest signal wins:    *)
(* sources, provenance, membership in IGS, the first provider of the       *)
(* region.                                                                 *)
Route(s, nets, wanted) ==
    LET order == ProvidersFor(nets)
        row == CHOOSE r \in Known[s] : TRUE
        owners == Owners(row, nets, wanted)
        provenance == ToSet(row.provs) \cap ToSet(order)
        primary == IF order # <<>> THEN <<Head(order)>> ELSE Priority
    IN  IF nets = <<>> THEN Priority
        ELSE IF Known[s] = {} THEN primary
        ELSE IF owners # {} THEN <<FirstInPriority(owners, order)>>
        ELSE IF provenance # {} THEN <<FirstInPriority(provenance, order)>>
        ELSE IF row.igs THEN Priority
        ELSE primary

\* Who publishes the station in the selected regions, as far as is known.
Claimants(s, nets, wanted) ==
    UNION {Owners(r, nets, wanted) \cup (ToSet(r.provs) \cap ToSet(ProvidersFor(nets))) :
           r \in Known[s]}
=============================================================================
