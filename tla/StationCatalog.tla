--------------------------- MODULE StationCatalog ---------------------------
(***************************************************************************)
(* The tables of stations/catalog.py as values, and what upsert_many does  *)
(* to them: withdraw a provider from the stations it no longer publishes,  *)
(* merge a published station into the row of the same id or DOMES number,  *)
(* give the names that are free to the row, list its providers.            *)
(* Marker names, old four-letter codes and aliases are all names; country, *)
(* equipment and free metadata are left out.  Every operator is a function *)
(* of the tables, so that a transaction can be a sequence of them.         *)
(***************************************************************************)
EXTENDS Integers, Sequences, FiniteSets

CONSTANTS
    Ids,            \* station ids, upper case
    Codes,          \* other names: marker names, four-letter codes
    Providers, Networks, Sources,
    SourceOf,       \* source -> [provider, network]: RegionalSource
    Domes, Coords,
    Authority,      \* providers whose coordinates win (SIRGAS national lists)
    Builtin,        \* the provider the built-in stations are listed under
    None

ASSUME SourceOfAssumption ==
    SourceOf \in [Sources -> [provider : Providers, network : Networks]]
ASSUME BuiltinAssumption == Builtin \in Providers
Names == Ids \cup Codes

Station == [domes : Domes \cup {None}, coord : Coords \cup {None},
            names : SUBSET Names, nets : SUBSET Networks,
            srcs : SUBSET Sources, provs : SUBSET Providers]

ASSUME NoneAssumption ==
    /\ None \notin UNION {Ids, Codes, Providers, Networks, Domes, Coords}
    /\ None \notin Station

\* A station as a provider publishes it: the id and what is known of it.
Entry == [id : Ids, about : Station]

\* stations, station_aliases (a name has one owner) and station_providers.
Tables == [rows : [Ids -> Station \cup {None}],
           owner : [Names -> Ids \cup {None}],
           member : SUBSET (Ids \X Providers)]

NoStations == [rows |-> [i \in Ids |-> None], owner |-> [a \in Names |-> None],
               member |-> {}]

Present(t) == {i \in Ids : t.rows[i] # None}
Holders(t, i) == {p \in Providers : <<i, p>> \in t.member}

-----------------------------------------------------------------------------
(* Withdrawing a provider *)

(* The rows listed under p that the new list does not name by their id; a  *)
(* station merged under another id by its DOMES number is one of them.     *)
Victims(t, p, keep) == {i \in Present(t) : p \in Holders(t, i)} \ keep

\* Mutant of Withdraw: the payload keeps naming p.
WithdrawKeepsProvider(row, p, n) ==
    LET srcs == {s \in row.srcs : SourceOf[s] # [provider |-> p, network |-> n]}
    IN  [row EXCEPT !.srcs = srcs]

(* A shared row without p: p's sources of network n go, and the network    *)
(* with them when no other source of that network is left.                 *)
Withdraw(row, p, n) ==
    LET srcs == {s \in row.srcs : SourceOf[s] # [provider |-> p, network |-> n]}
    IN  [row EXCEPT
            !.srcs = srcs,
            !.nets = IF \E s \in srcs : SourceOf[s].network = n THEN @ ELSE @ \ {n},
            !.provs = @ \ {p}]

\* Mutants of Prune: the names of a removed row stay; shared rows go too.
PruneKeepsNames(t, seen, again, p, n, keep, first) ==
    LET victims == Victims(seen, p, keep)
        gone == {i \in victims : Holders(t, i) \subseteq {p}}
    IN  [rows |-> [i \in Ids |-> IF i \in gone THEN None
                                 ELSE IF i \in victims \cap Present(t)
                                 THEN Withdraw(seen.rows[i], p, n) ELSE t.rows[i]],
         owner |-> t.owner,
         member |-> {m \in t.member : ~ (m[1] \in victims /\ (m[1] \in gone \/ m[2] = p))}]

PruneShared(t, seen, again, p, n, keep, first) ==
    LET gone == Victims(seen, p, keep)
    IN  [rows |-> [i \in Ids |-> IF i \in gone THEN None ELSE t.rows[i]],
         owner |-> [a \in Names |-> IF t.owner[a] \in gone THEN None ELSE t.owner[a]],
         member |-> {m \in t.member : m[1] \notin gone}]

(* The victims and their payloads come from the tables seen before the     *)
(* write lock; the list of other providers of the first of them is read    *)
(* again, by the statement before the first DELETE or UPDATE.  UPDATE      *)
(* finds nothing when the row is gone.                                     *)
Prune(t, seen, again, p, n, keep, first) ==
    LET victims == Victims(seen, p, keep)
        others(i) == Holders(IF i = first THEN again ELSE t, i) \ {p}
        gone == {i \in victims : others(i) = {}}
        shared == (victims \ gone) \cap Present(t)
    IN  [rows |-> [i \in Ids |-> IF i \in gone THEN None
                                 ELSE IF i \in shared THEN Withdraw(seen.rows[i], p, n)
                                 ELSE t.rows[i]],
         owner |-> [a \in Names |-> IF t.owner[a] \in gone THEN None ELSE t.owner[a]],
         member |-> {m \in t.member : ~ (m[1] \in gone \/ (m[1] \in victims /\ m[2] = p))}]

-----------------------------------------------------------------------------
(* Storing a published station *)

(* The row a published station belongs to: the one with its id, else any   *)
(* one with its DOMES number, else a new one.                              *)
SameDomes(t, e) == {i \in Present(t) : e.about.domes # None
                                       /\ t.rows[i].domes = e.about.domes}
Targets(t, e) ==
    IF e.id \in Present(t) \/ SameDomes(t, e) = {} THEN {e.id} ELSE SameDomes(t, e)

Filled(old, new, overwrite) ==
    IF new # None /\ (old = None \/ overwrite) THEN new ELSE old

(* A list read by p repairs a row only p contributes to; otherwise what is *)
(* known stays and the sets are united.                                    *)
Merge(row, e, p) ==
    LET sole == p # None /\ row.provs \subseteq {p}
        new == e.about
    IN  [domes |-> Filled(row.domes, new.domes, sole),
         coord |-> Filled(row.coord, new.coord, sole \/ p \in Authority),
         names |-> row.names \cup new.names \cup {e.id},
         nets |-> row.nets \cup new.nets,
         srcs |-> row.srcs \cup new.srcs,
         provs |-> row.provs \cup new.provs]

Merged(t, i, e, p) ==
    IF i \in Present(t) THEN Merge(t.rows[i], e, p)
                        ELSE [e.about EXCEPT !.names = @ \cup {e.id}]

\* Mutant of Store: only a new row registers its names.
StoreNamesOnce(t, i, row, p) ==
    [rows |-> [t.rows EXCEPT ![i] = row],
     owner |-> [a \in Names |-> IF a \in row.names /\ t.owner[a] = None /\ i \notin Present(t)
                                THEN i ELSE t.owner[a]],
     member |-> t.member \cup ({i} \X (row.provs \cup ({p} \ {None})))]

(* INSERT or UPDATE of the row, its names unless another row owns them     *)
(* (a conflict is recorded and nothing else), its providers and p.         *)
Store(t, i, row, p) ==
    [rows |-> [t.rows EXCEPT ![i] = row],
     owner |-> [a \in Names |-> IF a \in row.names /\ t.owner[a] = None
                                THEN i ELSE t.owner[a]],
     member |-> t.member \cup ({i} \X (row.provs \cup ({p} \ {None})))]

\* StationCatalog.get: by id, else through the alias table.
Get(t, a) == IF a \in Present(t) THEN a ELSE t.owner[a]

-----------------------------------------------------------------------------
(* What the tables owe each other; the schema declares no foreign key. *)

\* A name's owner and a listed provider's station are rows of the catalogue.
NoDanglingIn(t) ==
    /\ \A a \in Names : t.owner[a] # None => t.owner[a] \in Present(t)
    /\ \A m \in t.member : m[1] \in Present(t)

\* The providers in a row's payload are those the provider table lists; only the
\* built-in stations are listed under a provider their payloads do not name.
ListedIn(t) == \A i \in Present(t) : t.rows[i].provs = Holders(t, i) \ {Builtin}

\* A name belongs to a row whose payload carries it.
OwnedIn(t) ==
    \A a \in Names : t.owner[a] \in Present(t) => a \in t.rows[t.owner[a]].names
=============================================================================
