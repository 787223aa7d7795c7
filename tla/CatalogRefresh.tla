--------------------------- MODULE CatalogRefresh ---------------------------
(***************************************************************************)
(* The station catalogue in use: CoreService seeds it at start-up, the     *)
(* Observations page refreshes it in a pool of threads, and each thread    *)
(* stores what its providers published through upsert_many.                *)
(*                                                                         *)
(* A connection takes SQLite's write lock at its first INSERT, UPDATE or   *)
(* DELETE and holds it to the commit; the SELECTs before it (the victims   *)
(* of the prune, or the row the first station merges into) run outside the *)
(* transaction and may be stale by then.  A connection that waits longer   *)
(* than the busy timeout fails, and the whole refresh with it.             *)
(***************************************************************************)
EXTENDS StationCatalog

CONSTANTS
    Jobs,           \* keys of _catalog_refreshing
    Main,           \* the GUI thread, as a writer of the catalogue
    Network,        \* job -> the network it refreshes
    Line,           \* job -> the providers it refreshes, in order
    Forced,         \* jobs of force_update_station_provider
    Seeds,          \* what start-up stores: a sequence of Stores
    Live,           \* provider -> the lists its site may publish
    Fallback,       \* provider -> the list it returns when the site fails, or None
    Threads,        \* QThreadPool.maxThreadCount of the page
    Failed,         \* an answer that is not a list of stations
    MaxStarts,      \* bound: refreshes started
    MaxCrashes      \* bound: crashes of the application

Writers == Jobs \cup {Main}
Lists == Seq(Entry)
Answers(p) == Live[p] \cup {<<>>, IF Fallback[p] = None THEN Failed ELSE Fallback[p]}

\* The bundled lists of start-up; the snapshot is of no provider and network.
\* The built-in stations are only stored unless a network has mapped stations.
Seed == [prov : Providers \cup {None}, net : Networks \cup {None},
         unless : Networks \cup {None}, list : Lists \ {<<>>}]

\* Every station of a provider's list says it is of that provider, except the
\* built-in ones: seed_stations names the archives that carry their data.
Signed(p, list) ==
    \A k \in DOMAIN list : /\ Builtin \notin list[k].about.provs
                           /\ p \notin {None, Builtin} => p \in list[k].about.provs

ASSUME JobsAssumption ==
    /\ Main \notin Jobs /\ None \notin Jobs \cup {Main}
    /\ Network \in [Jobs -> Networks]
    /\ Line \in [Jobs -> Seq(Providers)]
    /\ Forced \subseteq Jobs
ASSUME SeedsAssumption ==
    /\ Seeds \in Seq(Seed)
    /\ \A k \in DOMAIN Seeds : Signed(Seeds[k].prov, Seeds[k].list)
ASSUME AnswersAssumption ==
    /\ Failed \notin Lists
    /\ \A p \in Providers : \A a \in Answers(p) :
         a = Failed \/ (a \in Lists /\ Signed(p, a))
ASSUME BoundsAssumption ==
    Threads \in Nat \ {0} /\ MaxStarts \in Nat /\ MaxCrashes \in Nat

VARIABLES
    tables,         \* the committed tables
    lock,           \* the writer in a transaction, or None
    draft,          \* its working copy
    record,         \* provider -> metadata_cache: "none", "fresh", "resting", "due"
    pc,             \* writer -> where it is
    todo,           \* writer -> steps not done yet
    answer,         \* writer -> step -> the list to be stored, or Failed
    at,             \* writer -> the step whose list is being stored, or 0
    seen,           \* writer -> the tables its first SELECT read
    again,          \* writer -> the tables its last SELECT before a write read
    left,           \* writer -> stations still to be stored in the transaction
    stale,          \* some transaction began on tables changed since it looked
    refreshing,     \* _catalog_refreshing
    shown,          \* the rows the page and its map show
    aborted,        \* jobs that failed since the page last read the catalogue
    starts, crashes

db == <<tables, lock, draft, record>>
page == <<refreshing, shown, aborted, starts>>
job == <<todo, answer>>
vars == <<db, pc, job, at, seen, again, left, stale, page, crashes>>

\* The steps of a writer: the bundled lists, or the providers of the job.
Steps(w) == IF w = Main THEN DOMAIN Seeds ELSE DOMAIN Line[w]
ProvOf(w, k) == IF w = Main THEN Seeds[k].prov ELSE Line[w][k]
NetOf(w, k) == IF w = Main THEN Seeds[k].net ELSE Network[w]
Planned(w) == IF w = Main THEN Steps(Main) ELSE {}
Nothing(w) == [k \in Steps(w) |-> IF w = Main THEN Seeds[k].list ELSE <<>>]

Init ==
    /\ tables = NoStations /\ draft = NoStations /\ lock = None
    /\ record = [p \in Providers |-> "none"]
    /\ pc = [w \in Writers |-> IF w = Main THEN "next" ELSE "idle"]
    /\ todo = [w \in Writers |-> Planned(w)]
    /\ answer = [w \in Writers |-> Nothing(w)]
    /\ at = [w \in Writers |-> 0]
    /\ seen = [w \in Writers |-> NoStations] /\ again = [w \in Writers |-> NoStations]
    /\ left = [w \in Writers |-> <<>>]
    /\ stale = FALSE
    /\ refreshing = {} /\ shown = NoStations.rows /\ aborted = {}
    /\ starts = 0 /\ crashes = 0

Goto(w, where) == pc' = [pc EXCEPT ![w] = where]

-----------------------------------------------------------------------------
(* The page *)

\* provider_catalog_needs_refresh: no record, an old one, an older parser's,
\* or a failure whose ten minutes are over.
NeedsRefresh(p) == record[p] \in {"none", "due"}

\* The windows are built once start-up has seeded the catalogue.
Ready == pc[Main] = "page"

BuildPage ==
    /\ pc[Main] = "next" /\ todo[Main] = {}
    /\ Goto(Main, "page")
    /\ shown' = tables.rows
    /\ UNCHANGED <<db, job, at, seen, again, left, stale, refreshing, aborted, starts, crashes>>

(* _start_catalog_worker, from the session's start or a change of scope. *)
Start(j) ==
    /\ Ready
    /\ j \notin refreshing /\ starts < MaxStarts
    /\ j \in Forced \/ \E k \in DOMAIN Line[j] : NeedsRefresh(Line[j][k])
    /\ refreshing' = refreshing \cup {j}
    /\ starts' = starts + 1
    /\ Goto(j, "queued")
    /\ UNCHANGED <<db, job, at, seen, again, left, stale, shown, aborted, crashes>>

\* Mutants: the page does not look again; the key of a failed job stays.
RefreshFinishedUnseen(j) ==
    /\ pc[j] = "done"
    /\ Goto(j, "idle")
    /\ refreshing' = refreshing \ {j}
    /\ UNCHANGED <<db, job, at, seen, again, left, stale, shown, aborted, starts, crashes>>
RefreshFailedForever(j) ==
    /\ pc[j] = "failed"
    /\ Goto(j, "idle")
    /\ aborted' = aborted \cup {j}
    /\ UNCHANGED <<db, job, at, seen, again, left, stale, refreshing, shown, starts, crashes>>

(* A refresh that ended well reads the map's stations again; one that      *)
(* failed only says so.                                                    *)
RefreshFinished(j) ==
    /\ pc[j] = "done"
    /\ Goto(j, "idle")
    /\ refreshing' = refreshing \ {j}
    /\ shown' = tables.rows
    /\ aborted' = {}
    /\ UNCHANGED <<db, job, at, seen, again, left, stale, starts, crashes>>

RefreshFailed(j) ==
    /\ pc[j] = "failed"
    /\ Goto(j, "idle")
    /\ refreshing' = refreshing \ {j}
    /\ aborted' = aborted \cup {j}
    /\ UNCHANGED <<db, job, at, seen, again, left, stale, shown, starts, crashes>>

\* The debounce timer after a change of scope or of the search text.
Redraw ==
    /\ Ready
    /\ shown' = tables.rows
    /\ aborted' = {}
    /\ UNCHANGED <<db, pc, job, at, seen, again, left, stale, refreshing, starts, crashes>>

-----------------------------------------------------------------------------
(* A refresh in its thread *)

Busy == {j \in Jobs : pc[j] \in {"fetch", "next", "look", "domes", "begin", "write"}}

\* The thread pool takes a job, which keeps the providers still due.
Take(j) ==
    /\ pc[j] = "queued" /\ Cardinality(Busy) < Threads
    /\ todo' = [todo EXCEPT ![j] =
            {k \in Steps(j) : j \in Forced \/ NeedsRefresh(ProvOf(j, k))}]
    /\ Goto(j, "fetch")
    /\ UNCHANGED <<db, answer, at, seen, again, left, stale, page, crashes>>

(* fetch_all: every provider has answered before anything is stored; the   *)
(* exception of one is kept as its answer.                                 *)
Fetched(j) ==
    /\ pc[j] = "fetch"
    /\ \E got \in [todo[j] -> UNION {Answers(p) : p \in Providers}] :
         /\ \A k \in todo[j] : got[k] \in Answers(ProvOf(j, k))
         /\ answer' = [answer EXCEPT ![j] =
                [k \in Steps(j) |-> IF k \in todo[j] THEN got[k] ELSE <<>>]]
    /\ Goto(j, "next")
    /\ UNCHANGED <<db, todo, at, seen, again, left, stale, page, crashes>>

\* The lists are stored in the order the providers are listed in.
IsNext(w, k) == k \in todo[w] /\ \A m \in todo[w] : k <= m

Ends(j) ==
    /\ pc[j] = "next" /\ todo[j] = {}
    /\ Goto(j, "done")
    /\ UNCHANGED <<db, job, at, seen, again, left, stale, page, crashes>>

\* Mutant of RecordStatus: the raw status is kept, which nothing understands.
RecordStatusRaw(j) ==
    /\ pc[j] = "next" /\ lock = None
    /\ \E k \in Steps(j) :
         /\ IsNext(j, k) /\ answer[j][k] \in {Failed, <<>>}
         /\ record' = [record EXCEPT ![ProvOf(j, k)] = "timeout"]
         /\ todo' = [todo EXCEPT ![j] = @ \ {k}]
         /\ answer' = [answer EXCEPT ![j][k] = <<>>]
    /\ UNCHANGED <<tables, lock, draft, pc, at, seen, again, left, stale, page, crashes>>

\* record_metadata_status: an error or an empty list touches only the record.
RecordStatus(j) ==
    /\ pc[j] = "next" /\ lock = None
    /\ \E k \in Steps(j) :
         /\ IsNext(j, k) /\ answer[j][k] \in {Failed, <<>>}
         /\ record' = [record EXCEPT ![ProvOf(j, k)] = "resting"]
         /\ todo' = [todo EXCEPT ![j] = @ \ {k}]
         /\ answer' = [answer EXCEPT ![j][k] = <<>>]
    /\ UNCHANGED <<tables, lock, draft, pc, at, seen, again, left, stale, page, crashes>>

-----------------------------------------------------------------------------
(* upsert_many *)

Storing(w) == [prov |-> ProvOf(w, at[w]), net |-> NetOf(w, at[w]),
               list |-> answer[w][at[w]]]
Publishes(list) == {list[k].id : k \in DOMAIN list}

\* The list replaces what its provider had before: both are named.
Replaces(w) == Storing(w).prov # None /\ Storing(w).net # None

\* A network has stations on the map.
Mapped(t, n) == \E i \in Present(t) : n \in t.rows[i].nets /\ t.rows[i].coord # None

\* Start-up leaves the built-in stations out.
Spared(w, k) == w = Main /\ Seeds[k].unless # None /\ Mapped(tables, Seeds[k].unless)

SkipSeed ==
    /\ pc[Main] = "next"
    /\ \E k \in Steps(Main) :
         /\ IsNext(Main, k) /\ Spared(Main, k)
         /\ todo' = [todo EXCEPT ![Main] = @ \ {k}]
         /\ answer' = [answer EXCEPT ![Main][k] = <<>>]
    /\ UNCHANGED <<db, pc, at, seen, again, left, stale, page, crashes>>

\* Mutant of Outdated: nothing is ever pruned.
OutdatedNever(w) == {}

\* The rows the prune withdraws the provider from, by what was seen of them.
Outdated(w) ==
    LET s == Storing(w)
    IN  IF Replaces(w) THEN Victims(seen[w], s.prov, Publishes(s.list)) ELSE {}

(* The SELECTs before the first write are statements of their own, in      *)
(* autocommit.  The first one reads the rows listed under the provider.    *)
Look(w) ==
    /\ pc[w] = "next"
    /\ \E k \in Steps(w) :
         /\ IsNext(w, k) /\ answer[w][k] \notin {Failed, <<>>} /\ ~ Spared(w, k)
         /\ at' = [at EXCEPT ![w] = k]
    /\ seen' = [seen EXCEPT ![w] = tables]
    /\ Goto(w, "look")
    /\ UNCHANGED <<db, job, again, left, stale, page, crashes>>

(* The second one reads the other providers of the first outdated row;     *)
(* when nothing is outdated, the row of the first station's id, and a      *)
(* third one the row of its DOMES number if there is none.                 *)
LookAgain(w) ==
    /\ pc[w] = "look"
    /\ again' = [again EXCEPT ![w] = tables]
    /\ LET e == Head(Storing(w).list)
           found == Outdated(w) # {} \/ e.id \in Present(tables) \/ e.about.domes = None
       IN  Goto(w, IF found THEN "begin" ELSE "domes")
    /\ UNCHANGED <<db, job, at, seen, left, stale, page, crashes>>

\* A row of that id that was stored meanwhile is not looked for any more.
LookByDomes(w) ==
    /\ pc[w] = "domes"
    /\ again' = [again EXCEPT ![w] =
            [tables EXCEPT !.rows[Head(Storing(w).list).id] = None]]
    /\ Goto(w, "begin")
    /\ UNCHANGED <<db, job, at, seen, left, stale, page, crashes>>

\* The first write takes the lock; the tables seen decide what it writes.
BeginWith(w, first, rest) ==
    /\ lock' = w
    /\ draft' = first
    /\ left' = [left EXCEPT ![w] = rest]
    /\ stale' = (stale \/ seen[w] # tables \/ again[w] # tables)
    /\ seen' = [seen EXCEPT ![w] = NoStations] /\ again' = [again EXCEPT ![w] = NoStations]
    /\ Goto(w, "write")
    /\ UNCHANGED <<tables, record, job, at, page, crashes>>

BeginPrune(w) ==
    /\ pc[w] = "begin" /\ lock = None
    /\ \E first \in Outdated(w) :
         LET s == Storing(w)
         IN  BeginWith(w, Prune(tables, seen[w], again[w], s.prov, s.net,
                                Publishes(s.list), first), s.list)

BeginStore(w) ==
    LET s == Storing(w)
        e == Head(s.list)
    IN  /\ pc[w] = "begin" /\ lock = None
        /\ Outdated(w) = {}
        /\ \E i \in Targets(again[w], e) :
             BeginWith(w, Store(tables, i, Merged(again[w], i, e, s.prov), s.prov),
                       Tail(s.list))

StoreNext(w) ==
    /\ pc[w] = "write" /\ left[w] # <<>>
    /\ LET e == Head(left[w])
           p == Storing(w).prov
       IN  \E i \in Targets(draft, e) : draft' = Store(draft, i, Merged(draft, i, e, p), p)
    /\ left' = [left EXCEPT ![w] = Tail(@)]
    /\ UNCHANGED <<tables, lock, record, pc, job, at, seen, again, stale, page, crashes>>

Commit(w) ==
    /\ pc[w] = "write" /\ left[w] = <<>>
    /\ tables' = draft /\ draft' = NoStations /\ lock' = None
    /\ record' = [p \in Providers |-> IF p = Storing(w).prov THEN "fresh" ELSE record[p]]
    /\ todo' = [todo EXCEPT ![w] = @ \ {at[w]}]
    /\ answer' = [answer EXCEPT ![w][at[w]] = <<>>]
    /\ at' = [at EXCEPT ![w] = 0]
    /\ Goto(w, "next")
    /\ UNCHANGED <<seen, again, left, stale, page, crashes>>

\* A write that finds the lock taken and waits longer than the busy timeout.
Waiting(w) ==
    \/ pc[w] = "begin"
    \/ pc[w] = "next" /\ \E k \in Steps(w) :
           IsNext(w, k) /\ answer[w][k] \in {Failed, <<>>}

\* "database is locked": the job ends with the lists it has not stored yet.
LockTimeout(j) ==
    /\ Waiting(j) /\ lock # None
    /\ todo' = [todo EXCEPT ![j] = {}]
    /\ answer' = [answer EXCEPT ![j] = Nothing(j)]
    /\ at' = [at EXCEPT ![j] = 0]
    /\ seen' = [seen EXCEPT ![j] = NoStations] /\ again' = [again EXCEPT ![j] = NoStations]
    /\ Goto(j, "failed")
    /\ UNCHANGED <<db, left, stale, page, crashes>>

-----------------------------------------------------------------------------
(* Time and the process *)

\* Thirty days after a success, ten minutes after a failure; nobody asks for the
\* age of a record that belongs to no job.
Ages(p) ==
    /\ \E j \in Jobs : \E k \in DOMAIN Line[j] : Line[j][k] = p
    /\ record[p] \in {"fresh", "resting"}
    /\ record' = [record EXCEPT ![p] = "due"]
    /\ UNCHANGED <<tables, lock, draft, pc, job, at, seen, again, left, stale, page, crashes>>

(* The process dies and is started again: SQLite rolls the transaction     *)
(* back, start-up seeds the catalogue once more.                           *)
Crash ==
    /\ crashes < MaxCrashes
    /\ crashes' = crashes + 1
    /\ lock' = None /\ draft' = NoStations
    /\ pc' = [w \in Writers |-> IF w = Main THEN "next" ELSE "idle"]
    /\ todo' = [w \in Writers |-> Planned(w)]
    /\ answer' = [w \in Writers |-> Nothing(w)]
    /\ at' = [w \in Writers |-> 0]
    /\ left' = [w \in Writers |-> <<>>]
    /\ seen' = [w \in Writers |-> NoStations] /\ again' = [w \in Writers |-> NoStations]
    /\ refreshing' = {} /\ aborted' = {}
    /\ UNCHANGED <<tables, record, stale, shown, starts>>

-----------------------------------------------------------------------------
Writes(w) ==
    \/ Look(w) \/ LookAgain(w) \/ LookByDomes(w)
    \/ BeginPrune(w) \/ BeginStore(w) \/ StoreNext(w) \/ Commit(w)
Works(j) ==
    \/ Take(j) \/ Fetched(j) \/ Ends(j) \/ RecordStatus(j) \/ Writes(j) \/ LockTimeout(j)

Next ==
    \/ BuildPage \/ Redraw
    \/ SkipSeed \/ Writes(Main)
    \/ \E j \in Jobs : Start(j) \/ Works(j) \/ RefreshFinished(j) \/ RefreshFailed(j)
    \/ \E p \in Providers : Ages(p)
    \/ Crash

(* The GUI thread seeds the catalogue and runs its slots; a thread of the  *)
(* pool keeps running: every request and every wait for the lock has a     *)
(* timeout.  Nobody has to press a button, and nothing has to age.         *)
Fairness ==
    /\ WF_vars(BuildPage) /\ WF_vars(SkipSeed \/ Writes(Main))
    /\ \A j \in Jobs : WF_vars(Works(j))
    /\ \A j \in Jobs : WF_vars(RefreshFinished(j) \/ RefreshFailed(j))

Safety == Init /\ [][Next]_vars
Spec == Safety /\ Fairness

-----------------------------------------------------------------------------
(* Properties *)

TypeOK ==
    /\ tables \in Tables /\ draft \in Tables
    /\ lock \in Writers \cup {None}
    /\ record \in [Providers -> {"none", "fresh", "resting", "due"}]
    /\ pc \in [Writers -> {"idle", "queued", "fetch", "next", "look", "domes", "begin",
                           "write", "done", "failed", "page"}]
    /\ todo \in [Writers -> SUBSET Nat] /\ at \in [Writers -> Nat]
    /\ DOMAIN answer = Writers
    /\ \A w \in Writers :
         /\ todo[w] \subseteq Steps(w)
         /\ answer[w] \in [Steps(w) -> Lists \cup {Failed}]
         /\ at[w] \in Steps(w) \cup {0}
    /\ seen \in [Writers -> Tables] /\ again \in [Writers -> Tables]
    /\ left \in [Writers -> Lists]
    /\ stale \in BOOLEAN
    /\ refreshing \subseteq Jobs /\ aborted \subseteq Jobs
    /\ shown \in [Ids -> Station \cup {None}]
    /\ starts \in 0..MaxStarts /\ crashes \in 0..MaxCrashes

(* No alias and no provider row is left behind by a prune, whatever two    *)
(* writers did in between: the schema has no foreign key to say so.        *)
NoDangling == NoDanglingIn(tables) /\ (lock # None => NoDanglingIn(draft))

(* As long as no transaction began on rows another one has changed, the    *)
(* payload of a station and the tables of providers and names tell the     *)
(* same story, but for the built-in list that no payload names, after any  *)
(* sequence of merges by id and by DOMES, prunes and restarts.             *)
PayloadsAgree == ~ stale => ListedIn(tables) /\ OwnedIn(tables)

(* When no refresh is under way the page shows the committed stations,     *)
(* unless one that failed had stored a part of its lists before.           *)
QuietPageCurrent == Ready /\ refreshing = {} /\ aborted = {} => shown = tables.rows

-----------------------------------------------------------------------------
(* Storing one provider's list takes no other provider off a station and   *)
(* removes no station another provider still lists; the payload names it   *)
(* too, unless it is the built-in list, which no payload names.            *)
OthersUntouched == [][
    \A w \in Writers : Commit(w) /\ ~ stale =>
        \A m \in tables.member : m[2] # Storing(w).prov =>
            /\ m \in tables'.member
            /\ m[2] = Builtin \/ m[2] \in tables'.rows[m[1]].provs]_vars

(* After a provider's list was stored, the rows that list it are rows its  *)
(* stations belong to, by their id or DOMES number: what it stopped        *)
(* publishing is gone.  And every station of the list is a name of one of  *)
(* them, whatever the stations before and after it were merged into.       *)
ListExact == [][
    \A w \in Writers : Commit(w) /\ ~ stale /\ Replaces(w) =>
        LET s == Storing(w)
            listed == {i \in Ids : s.prov \in Holders(tables', i)}
        IN  /\ \A i \in listed : \E k \in DOMAIN s.list :
                    i = s.list[k].id \/ i \in SameDomes(tables', s.list[k])
            /\ \A k \in DOMAIN s.list : \E i \in listed :
                    i \in Present(tables') /\ s.list[k].id \in tables'.rows[i].names]_vars

(* A station that was just stored is found under the id it was published   *)
(* under, on a row that lists its provider, also when it was merged into a *)
(* row with another id; unless a row of others carries that name (an alias *)
(* conflict, which upsert_many records and leaves to the first owner).     *)
PublishedResolves == [][
    \A w \in Writers : Commit(w) /\ ~ stale /\ Replaces(w) =>
        LET p == Storing(w).prov
            rival(id) == \E i \in Present(tables') :
                            id \in tables'.rows[i].names /\ p \notin Holders(tables', i)
        IN  \A k \in DOMAIN Storing(w).list :
                LET id == Storing(w).list[k].id
                IN  rival(id) \/ p \in Holders(tables', Get(tables', id))]_vars

(* Every refresh ends, with an answer or an error, and its key is free for *)
(* the next: however the threads wait for the lock and for each other.     *)
RefreshEnds == \A j \in Jobs : j \in refreshing ~> j \notin refreshing

(* "preserve the established shared identity and only union memberships":  *)
(* a list of one provider takes no other off a station, also when another  *)
(* thread stored its list meanwhile.                                       *)
MembershipKept == [][
    \A w \in Writers : Commit(w) =>
        \A m \in tables.member : m[2] # Storing(w).prov =>
            /\ m \in tables'.member
            /\ m[2] = Builtin \/ m[2] \in tables'.rows[m[1]].provs]_vars
=============================================================================
