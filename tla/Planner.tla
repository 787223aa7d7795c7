------------------------------- MODULE Planner -------------------------------
(***************************************************************************)
(* GNSSGo._build_plan in client.py: a request is turned into searches, the *)
(* searches ask providers, what they found becomes a download plan.  A     *)
(* search is a coroutine; those of single files run side by side, limited  *)
(* by a semaphore for all and one per provider, after the searches that    *)
(* cover many stations at once, which run one after the other.             *)
(*                                                                         *)
(* A file is what a RemoteFile says of itself: the subjects and days it    *)
(* covers, its key, its name and, for products, type, centre and tier.     *)
(* The subject of an observation is its station, of a product its type.    *)
(***************************************************************************)
EXTENDS ObservationRoutes, ProductBundle

CONSTANTS
    Requests,       \* what may be asked for
    Offer,          \* provider -> the files it may have, a sequence
    Rank,           \* file name -> its place in the order of preference
    Short,          \* station -> its first four characters
    Registered,     \* ProviderRegistry.names(): the providers in alphabetical order
    ProductPriority,\* settings.products.provider_priority
    Capable,        \* kind of request -> the providers that serve it
    Passthrough,    \* providers with batch_observation_passthrough
    Directory,      \* providers with network_directory_discovery
    Epn,            \* the provider with a batch of its own
    OnDisk,         \* destinations that exist
    Unsafe,         \* file names that ArchiveLayout.safe_filename refuses
    Workers, PerProvider,
    None

ASSUME PlannerAssumption ==
    /\ Workers \in Nat \ {0} /\ PerProvider \in Nat \ {0}
    /\ None \notin Providers
    /\ Registered \in Seq(Providers)
    /\ ProductPriority \in Seq(Providers)
    /\ Passthrough \subseteq Providers /\ Epn \in Providers

(* What ObservationRequest, NavigationRequest and ProductRequest hold: the  *)
(* stations have no repetition (_unique_station_codes), nor have the days  *)
(* of a date range.                                                        *)
IsRequest(r) ==
    /\ r.kind \in {"obs", "nav", "product"}
    /\ r.from \in Providers \cup {None}
    /\ r.stations \in Seq(Stations) /\ IsInjective(r.stations)
    /\ r.days \in Seq(ToSet(r.days)) /\ IsInjective(r.days)
    /\ r.nets \in Seq(Regions)
    /\ r.types \in Seq(ToSet(r.types))
    /\ r.tiers \in Seq(ToSet(r.tiers)) /\ None \notin ToSet(r.tiers)
    /\ r.centers \in Seq(ToSet(r.centers))

ASSUME RequestAssumption == \A r \in Requests : IsRequest(r)

(* What the providers say of their files.  The logical id of a product     *)
(* names its centre and tier (logical_key), those of one provider follow   *)
(* from the file name; files of one name at two providers are of the same  *)
(* station and day, and EPN's are never bundles.                           *)
Files == UNION {ToSet(Offer[p]) : p \in Providers}
Key(f) == <<f.owner, f.day, f.type, f.id>>

ASSUME OfferAssumption ==
    /\ \A p \in Providers : Offer[p] \in Seq(Files)
    /\ \A f \in Files : Rank[f.name] \in Nat
    /\ \A f, g \in Files : Key(f) = Key(g) => f.tier = g.tier /\ f.center = g.center
    /\ \A f \in ToSet(Offer[Epn]) : f.covers \subseteq {<<f.owner, f.day>>}
    /\ \A p, q \in Providers : \A f \in ToSet(Offer[p]), g \in ToSet(Offer[q]) :
         f.owner = g.owner /\ f.day = g.day /\ f.type = g.type /\ f.name = g.name =>
            f.id = g.id \/ (p # q /\ f.covers \cap g.covers # {})

Subjects(r) ==
    CASE r.kind = "obs" -> ToSet(r.stations)
      [] r.kind = "nav" -> {"nav"}
      [] OTHER -> ToSet(r.types)

\* ProviderRegistry.ordered: a name that is listed twice stays twice.
Ordered(priority) == priority \o Those(Registered, Providers \ ToSet(priority))

-----------------------------------------------------------------------------
(* The searches of a request.  line: the providers in order, for products  *)
(* each once per tier; want: the subjects and days asked for.              *)

Search(kind, line, want) ==
    [kind |-> kind, line |-> line, want |-> want]
Asks(line, tier) == [k \in DOMAIN line |-> [prov |-> line[k], tier |-> tier]]
Able(line, kind) == Those(line, Capable[kind])

RouteOf(r, s) == Route(s, r.nets, r.srcs)

\* The stations whose only provider is p, if p resolves many at once.
Batched(r, p) ==
    {s \in ToSet(r.stations) : p \in Passthrough \cup {Epn} /\ RouteOf(r, s) = <<p>>}

Batches(r) ==
    LET owner(s) == IF Len(RouteOf(r, s)) = 1 THEN Head(RouteOf(r, s)) ELSE None
        line == Distinct([k \in DOMAIN r.stations |-> owner(r.stations[k])])
        all == Those(line, Passthrough \ {Epn}) \o Those(line, {Epn})
    IN  [k \in DOMAIN all |->
            Search(IF all[k] = Epn THEN "epn" ELSE "batch", Asks(<<all[k]>>, None),
                   Batched(r, all[k]) \X ToSet(r.days))]

\* One search per station and day, or per day.
Items(r) ==
    LET lone == Those(r.stations, Stations \ UNION {Batched(r, p) : p \in Providers})
        item(s, d) == Search("item", Asks(Able(RouteOf(r, s), "obs"), None), {<<s, d>>})
    IN  IF r.kind = "nav"
        THEN [k \in DOMAIN r.days |->
                Search("item", Asks(Able(Ordered(Priority), "nav"), None),
                       {<<"nav", r.days[k]>>})]
        ELSE FlattenSeq([k \in DOMAIN lone |->
                [m \in DOMAIN r.days |-> item(lone[k], r.days[m])]])

\* A whole day directory, when exactly one provider of the scope has such.
Discoveries(r) ==
    LET sources == {SourceOf[s].provider : s \in r.srcs \cap DOMAIN SourceOf}
        scope == IF sources = {} THEN ToSet(ProvidersFor(r.nets)) ELSE sources
        line == CHOOSE p \in Providers : scope \cap Directory = {p}
    IN  IF \E p \in Providers : scope \cap Directory = {p}
        THEN <<Search("discover", Asks(<<line>>, None), Stations \X ToSet(r.days))>> ELSE <<>>

Tiered(r) ==
    FlattenSeq([t \in DOMAIN r.tiers |-> Asks(Ordered(ProductPriority), r.tiers[t])])

Searches(r) ==
    LET want == Subjects(r) \X ToSet(r.days)
    IN  IF r.from # None THEN <<Search("explicit", Asks(<<r.from>>, None), want)>>
        ELSE IF r.kind = "product" THEN <<Search("product", Tiered(r), want)>>
        ELSE IF r.kind = "obs" /\ r.discover THEN Discoveries(r)
        ELSE IF r.kind = "obs" THEN Batches(r) \o Items(r)
        ELSE Items(r)

Serial == {"batch", "epn"}
Unlimited == {"explicit", "product"}        \* these calls take no semaphore

VARIABLES
    request,        \* what is planned
    search,         \* its searches
    phase,          \* "search", "planned", "raised"
    at,             \* search -> "wait", "worker" (holds a worker), "call", "done"
    said,           \* search -> the answers so far
    slots, free,    \* the semaphores: workers, provider -> its slots
    plan

vars == <<request, search, phase, at, said, slots, free, plan>>

NoPlan == [files |-> <<>>, tasks |-> <<>>, existing |-> <<>>, missing |-> {},
           unavailable |-> {}]

Start(s) ==
    IF s.line = <<>> THEN "done" ELSE IF s.kind \in Unlimited THEN "call" ELSE "wait"

Init ==
    /\ request \in Requests
    /\ search = Searches(request)
    /\ phase = "search"
    /\ at = [j \in DOMAIN search |-> Start(search[j])]
    /\ said = [j \in DOMAIN search |-> <<>>]
    /\ slots = Workers /\ free = [p \in Providers |-> PerProvider]
    /\ plan = NoPlan

-----------------------------------------------------------------------------
(* Asking *)

Pos(j) == Len(said[j]) + 1
Prov(j) == search[j].line[Pos(j)].prov
Tier(j) == search[j].line[Pos(j)].tier

(* The files of the provider that match, by position, and what it may      *)
(* answer: some of them, or an error.  A bundle of many stations and days  *)
(* is packed for the request and covers nothing else                       *)
(* (JapanGEONETProvider.search_observations).                              *)
Matching(j) ==
    {k \in DOMAIN Offer[Prov(j)] :
        LET f == Offer[Prov(j)][k]
        IN  f.covers # {} /\ f.covers \subseteq search[j].want /\ Tier(j) \in {None, f.tier}}
Found(files) == [how |-> "files", files |-> files]
Errors == {"refused", "broken", "raises"}   \* GNSSGoError, OSError, any other
Answers(j) ==
    {Found(Chosen(Offer[Prov(j)], K)) : K \in SUBSET Matching(j)}
        \cup {[how |-> e, files |-> <<>>] : e \in Errors}

\* The errors a search turns into an attempt of the plan.
Caught(kind) ==
    CASE kind = "batch" -> Errors
      [] kind = "explicit" -> {"refused"}
      [] OTHER -> {"refused", "broken"}

FilesOf(answers) == FlattenSeq([k \in DOMAIN answers |-> answers[k].files])
OfTier(files, tier) == Those(files, {f \in ToSet(files) : f.tier = tier})

\* Mutant of Deduplicated: nothing is left out.
NotDeduplicated(files) == files

\* _deduplicate_logical_files: the first of a station, day, type and logical id.
Deduplicated(files) == FirstOfEach(Key, files)

(* Does the search end with these answers?  A product search ends with the *)
(* first tier that has every type, any other with the first files; both    *)
(* end with their line.  The bundle of one tier has every type as soon as  *)
(* each is there from some centre of the request, mixed or partial; it is  *)
(* looked at after the last provider of the tier, here the k-th answer.    *)
(* It is as long as the list of types only when none is named twice.       *)
TierDone(s, answers, k) ==
    LET tier == s.line[k].tier
        last == k = Len(s.line) \/ s.line[k + 1].tier # tier
        there(type) == \E m \in 1..k : \E f \in ToSet(answers[m].files) :
                         f.type = type /\ f.tier = tier /\ f.center \in ToSet(request.centers)
    IN  last /\ IsInjective(request.types) /\ \A type \in ToSet(request.types) : there(type)

\* Mutant of Ends: the next provider is asked although this one has files.
EndsAtLast(s, answers) == Len(answers) = Len(s.line)

Ends(s, answers) ==
    \/ Len(answers) = Len(s.line)
    \/ IF s.kind = "product" THEN TierDone(s, answers, Len(answers))
       ELSE answers[Len(answers)].files # <<>>

\* Mutant of TakeWorker: the worker is not counted.
TakeWorkerUncounted(j) ==
    /\ phase = "search" /\ at[j] = "wait"
    /\ \A i \in 1..(j - 1) : search[i].kind \in Serial => at[i] = "done"
    /\ slots > 0
    /\ at' = [at EXCEPT ![j] = "worker"]
    /\ UNCHANGED <<request, search, phase, said, slots, free, plan>>

\* A search that may run takes a worker before it waits for its provider.
TakeWorker(j) ==
    /\ phase = "search" /\ at[j] = "wait"
    /\ \A i \in 1..(j - 1) : search[i].kind \in Serial => at[i] = "done"
    /\ slots > 0
    /\ slots' = slots - 1
    /\ at' = [at EXCEPT ![j] = "worker"]
    /\ UNCHANGED <<request, search, phase, said, free, plan>>

TakeProvider(j) ==
    /\ phase = "search" /\ at[j] = "worker"
    /\ free[Prov(j)] > 0
    /\ free' = [free EXCEPT ![Prov(j)] = @ - 1]
    /\ at' = [at EXCEPT ![j] = "call"]
    /\ UNCHANGED <<request, search, phase, said, slots, plan>>

Release(j) ==
    IF search[j].kind \in Unlimited THEN UNCHANGED <<slots, free>>
    ELSE slots' = slots + 1 /\ free' = [free EXCEPT ![Prov(j)] = @ + 1]

Resume(j) == IF search[j].kind \in Unlimited THEN "call" ELSE "wait"

\* Mutant of Answered: a call that failed is made again, not the next one.
AnsweredRetries(j) ==
    /\ phase = "search" /\ at[j] = "call"
    /\ \E a \in Answers(j) :
         LET answers == Append(said[j], a)
         IN  \/ /\ a.how = "broken"
                /\ at' = [at EXCEPT ![j] = Resume(j)]
                /\ UNCHANGED <<said, phase>>
             \/ /\ a.how # "broken"
                /\ said' = [said EXCEPT ![j] = answers]
                /\ \/ /\ a.how \in Caught(search[j].kind) \cup {"files"}
                      /\ at' = [at EXCEPT ![j] = IF Ends(search[j], answers)
                                                 THEN "done" ELSE Resume(j)]
                      /\ UNCHANGED phase
                   \/ /\ a.how \notin Caught(search[j].kind) \cup {"files"}
                      /\ at' = [at EXCEPT ![j] = "done"]
                      /\ phase' = "raised"
    /\ Release(j)
    /\ UNCHANGED <<request, search, plan>>

\* The provider answered; an error that is not caught ends the planning.
Answered(j) ==
    /\ phase = "search" /\ at[j] = "call"
    /\ \E a \in Answers(j) :
         LET answers == Append(said[j], a)
         IN  /\ said' = [said EXCEPT ![j] = answers]
             /\ \/ /\ a.how \in Caught(search[j].kind) \cup {"files"}
                   /\ at' = [at EXCEPT ![j] = IF Ends(search[j], answers)
                                              THEN "done" ELSE Resume(j)]
                   /\ UNCHANGED phase
                \/ /\ a.how \notin Caught(search[j].kind) \cup {"files"}
                   /\ at' = [at EXCEPT ![j] = "done"]
                   /\ phase' = "raised"
    /\ Release(j)
    /\ UNCHANGED <<request, search, plan>>

-----------------------------------------------------------------------------
(* The plan *)

\* _preferred_logical_candidate.
Preferred(files) ==
    LET best == CHOOSE f \in ToSet(files) : \A g \in ToSet(files) : Rank[f.name] <= Rank[g.name]
    IN  IF files = <<>> THEN <<>> ELSE <<best>>

\* EPN answers for many stations and days at once: one file for each.
PreferredOfEach(files) ==
    LET place(f) == <<f.owner, f.day>>
        places == FirstOfEach(place, files)
    IN  FlattenSeq([k \in DOMAIN places |->
            Preferred(Those(files, {f \in ToSet(files) : place(f) = place(places[k])}))])

(* What a search contributes: an item its preferred file, the batch of EPN *)
(* one per station and day, a product search the tier that ended it, any   *)
(* other search all it was given.                                          *)
Result(j) ==
    LET files == FilesOf(said[j])
        s == search[j]
        tier == s.line[Len(said[j])].tier
    IN  CASE s.kind = "item" -> Preferred(files)
          [] s.kind = "epn" -> PreferredOfEach(files)
          [] s.kind = "product" /\ said[j] # <<>> /\ TierDone(s, said[j], Len(said[j])) ->
                OfTier(files, tier)
          [] OTHER -> files

\* The files of all searches, in order, and for products the bundle of them.
PlanFiles ==
    LET all == Deduplicated(FlattenSeq([j \in DOMAIN search |-> Result(j)]))
        bundle == Bundle(request, all)
    IN  IF request.kind # "product" THEN all
        ELSE Those(all, ToSet(bundle))

\* Mutant of Missing: only what was answered with an error is missing.
MissingFailed(r, files) ==
    UNION {search[j].want : j \in {i \in DOMAIN search : said[i] # <<>>
                                    /\ said[i][Len(said[i])].how \in Errors}}

(* _observation_missing_entries: the stations and days no file covers, a   *)
(* file of a station with the same first four characters included.         *)
Missing(r, files) ==
    LET covered == UNION {f.covers : f \in ToSet(files)}
        names == {<<Short[c[1]], c[2]>> : c \in covered}
    IN  {w \in ToSet(r.stations) \X ToSet(r.days) : <<Short[w[1]], w[2]>> \notin names}

\* ArchiveLayout.destination_for: the station is in the name only.
Destination(f) == <<f.day, f.type, f.name>>

\* destination_for refuses the name of a file: the request ends in an error.
Refused(files) == \E f \in ToSet(files) : f.name \in Unsafe

Finish ==
    /\ phase = "search" /\ \A j \in DOMAIN search : at[j] = "done"
    /\ phase' \in {"planned", "raised"}

\* What is there already is not downloaded, unless it is to be overwritten.
PlanFor(files) ==
    LET there == {f \in ToSet(files) : Destination(f) \in OnDisk /\ ~request.overwrite}
    IN  [files |-> files,
         tasks |-> Those(files, ToSet(files) \ there),
         existing |-> Those(files, there),
         missing |-> IF request.kind = "obs" THEN Missing(request, files) ELSE {},
         unavailable |-> IF request.kind = "product" THEN Unavailable(request, files) ELSE {}]

Build ==
    /\ Finish
    /\ \/ ~Refused(PlanFiles) /\ phase' = "planned" /\ plan' = PlanFor(PlanFiles)
       \/ Refused(PlanFiles) /\ phase' = "raised" /\ UNCHANGED plan
    /\ UNCHANGED <<request, search, at, said, slots, free>>

Idle == phase # "search" /\ UNCHANGED vars

Step(j) == TakeWorker(j) \/ TakeProvider(j) \/ Answered(j)
Next == (\E j \in DOMAIN search : Step(j)) \/ Build \/ Idle

(* The event loop runs what is ready, and a call of a provider ends: its   *)
(* requests have timeouts.  Build is the only step of Next that is a Finish.*)
Fairness == WF_vars(\E j \in DOMAIN search : Step(j)) /\ WF_phase(Finish)
Safety == Init /\ [][Next]_vars
Spec == Safety /\ Fairness

-----------------------------------------------------------------------------
(* Properties *)

Planned == phase = "planned"

TypeOK ==
    /\ phase \in {"search", "planned", "raised"}
    /\ DOMAIN at = DOMAIN search /\ DOMAIN said = DOMAIN search
    /\ slots \in 0..Workers /\ \A p \in Providers : free[p] \in 0..PerProvider
    /\ \A j \in DOMAIN search :
         /\ at[j] \in {"wait", "worker", "call", "done"}
         /\ Len(said[j]) <= Len(search[j].line)

(* The first provider of a line that has files decides: nobody after it is *)
(* asked.  Of a search for one file, or of EPN, one of its files for each  *)
(* station and day is planned; of a search that covers many stations all   *)
(* of them are, since a mirror may hold several files of a station and day *)
(* (_resolve_logical_file, _resolve_observation_passthrough_batch).  A file*)
(* with the same key that another search found may stand for it.           *)
FirstAnswerWins ==
    LET keys(files) == {Key(f) : f \in ToSet(files)}
        place(key) == <<key[1], key[2]>>
    IN  \A j \in DOMAIN search : search[j].kind # "product" =>
            \A k \in DOMAIN said[j] : said[j][k].files # <<>> =>
                /\ k = Len(said[j])
                /\ Planned /\ request.kind # "product" =>
                     LET answered == keys(said[j][k].files)
                         kept == answered \cap keys(plan.files)
                     IN  CASE search[j].kind = "item" -> kept # {}
                           [] search[j].kind = "epn" ->
                                {place(key) : key \in kept} = {place(key) : key \in answered}
                           [] OTHER -> kept = answered

(* A station and day is reported as unavailable only when no provider asked*)
(* had a file that covers it, or one of a station with the same four       *)
(* letters - or when what a search had for it counts as another file of    *)
(* the plan, which does not cover it: two bundles of one name, for two     *)
(* stations (JapanGEONETProvider.search_observations).  What is not        *)
(* reported, some provider had (_observation_missing_entries).             *)
MissesReported ==
    Planned /\ request.kind = "obs" =>
        LET like(f, w) == \E c \in f.covers : c[2] = w[2] /\ Short[c[1]] = Short[w[1]]
            had(j, w) == {f \in ToSet(FilesOf(said[j])) : like(f, w)}
            lost(f, w) == \E g \in ToSet(plan.files) : Key(g) = Key(f) /\ ~like(g, w)
        IN  \A w \in ToSet(request.stations) \X ToSet(request.days) :
                IF w \in plan.missing
                THEN \A j \in DOMAIN search :
                        had(j, w) # {} => \E f \in had(j, w) : lost(f, w)
                ELSE \E j \in DOMAIN search : had(j, w) # {}

\* The product files answered for a tier, and whether they fill a pair.
AnsweredFiles == UNION {ToSet(FilesOf(said[j])) : j \in DOMAIN search}
Fills(q) ==
    \A type \in ToSet(request.types) : \E f \in AnsweredFiles :
        f.type = type /\ f.tier = q.tier /\ f.center = q.center

(* When some tier of some centre had every type among the answers, the     *)
(* plan is the bundle of one such tier and centre, of none that comes      *)
(* later; and a type is unavailable exactly when the plan has no file of it*)
(* (_search_products_with_provider, select_bundle: a complete bundle of one*)
(* centre is preferred over a partial one of a better tier).               *)
BundleBest ==
    Planned /\ request.kind = "product" =>
        LET pairs == Pairs(request)
            filling == {k \in DOMAIN pairs : Fills(pairs[k])}
            of(f) == [tier |-> f.tier, center |-> f.center]
        IN  /\ filling # {} =>
                 /\ plan.unavailable = {}
                 /\ \E k \in filling : /\ \A m \in filling : k <= m
                                       /\ \A f \in ToSet(plan.files) : of(f) = pairs[k]
            /\ \A type \in ToSet(request.types) :
                 /\ type \in plan.unavailable <=> \A f \in ToSet(plan.files) : f.type # type
                 /\ Cardinality({f \in ToSet(plan.files) : f.type = type}) <= 1

(* No two tasks of a plan write the same file for one station: a file found*)
(* at several mirrors, or twice in one listing, is downloaded once.        *)
OneTaskPerFile ==
    \A k, m \in DOMAIN plan.tasks :
        /\ Destination(plan.tasks[k]) = Destination(plan.tasks[m])
        /\ plan.tasks[k].owner = plan.tasks[m].owner
        => k = m

(* A station that a provider of the selected regions publishes is asked of *)
(* such a provider only, and never of a mirror or of its neighbours        *)
(* (_resolve_logical_file: region-owned stations must not fall through).   *)
OwnersAsked ==
    request.kind = "obs" /\ request.from = None /\ ~request.discover /\ request.nets # <<>> =>
        \A j \in DOMAIN search : \A k \in DOMAIN said[j] : \A w \in search[j].want :
            LET claim == Claimants(w[1], request.nets, request.srcs)
            IN  claim = {} \/ search[j].line[k].prov \in claim

(* Planning ends, with a plan or with an error: no search waits for ever   *)
(* for a worker or a provider that another one does not give back.         *)
PlanEnds == <>(phase # "search")

(* A product request over several days: when the plan calls no type        *)
(* unavailable, it has a file of every type and day that a provider had one*)
(* of in the tiers asked for (the command line offers a start and an end). *)
EveryDayPlanned ==
    Planned /\ request.kind = "product" /\ plan.unavailable = {} =>
        \A f \in {h \in AnsweredFiles : h.tier \in ToSet(request.tiers)} : \A c \in f.covers :
            \E g \in ToSet(plan.files) : c \in g.covers
=============================================================================
