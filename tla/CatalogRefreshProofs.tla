------------------------ MODULE CatalogRefreshProofs ------------------------
(***************************************************************************)
(* Proofs about CatalogRefresh, for any stations, providers, jobs, lists   *)
(* and number of threads.  The first part is about one upsert: pruning and *)
(* storing keep the tables' debts to each other.  The second lifts it to   *)
(* the interleaved transactions: the draft of the lock's holder obeys the  *)
(* same rules as the committed tables.                                     *)
(***************************************************************************)
EXTENDS CatalogRefresh, TLAPS

-----------------------------------------------------------------------------
(* One upsert *)

LEMMA WithdrawType ==
    ASSUME NEW row \in Station, NEW p, NEW n
    PROVE  Withdraw(row, p, n) \in Station
BY DEF Withdraw, Station

LEMMA PruneType ==
    ASSUME NEW t \in Tables, NEW seen0 \in Tables, NEW again0 \in Tables,
           NEW p, NEW n, NEW keep, NEW first
    PROVE  Prune(t, seen0, again0, p, n, keep, first) \in Tables
<1> DEFINE victims == Victims(seen0, p, keep)
           others(i) == Holders(IF i = first THEN again0 ELSE t, i) \ {p}
           gone == {i \in victims : others(i) = {}}
           shared == (victims \ gone) \cap Present(t)
           rows == [i \in Ids |-> IF i \in gone THEN None
                                  ELSE IF i \in shared THEN Withdraw(seen0.rows[i], p, n)
                                  ELSE t.rows[i]]
           owner == [a \in Names |-> IF t.owner[a] \in gone THEN None ELSE t.owner[a]]
           member == {m \in t.member : ~ (m[1] \in gone \/ (m[1] \in victims /\ m[2] = p))}
<1>1. \A i \in victims : i \in Ids /\ seen0.rows[i] \in Station
  BY DEF Victims, Present, Tables
<1>2. rows \in [Ids -> Station \cup {None}]
  BY <1>1, WithdrawType DEF Tables
<1>3. owner \in [Names -> Ids \cup {None}]
  BY DEF Tables
<1>4. member \subseteq Ids \X Providers
  BY DEF Tables
<1>5. Prune(t, seen0, again0, p, n, keep, first) = [rows |-> rows, owner |-> owner, member |-> member]
  BY DEF Prune
<1> HIDE DEF rows, owner, member
<1>6. QED
  BY <1>2, <1>3, <1>4, <1>5 DEF Tables

LEMMA TargetsType ==
    ASSUME NEW t \in Tables, NEW e \in Entry
    PROVE  Targets(t, e) \subseteq Ids
BY DEF Targets, SameDomes, Present, Entry

LEMMA FilledType ==
    ASSUME NEW S, NEW old \in S, NEW new \in S, NEW overwrite
    PROVE  Filled(old, new, overwrite) \in S
BY DEF Filled

LEMMA MergedType ==
    ASSUME NEW t \in Tables, NEW i \in Ids, NEW e \in Entry, NEW p
    PROVE  Merged(t, i, e, p) \in Station
<1>0. e.id \in Ids /\ e.about \in Station /\ e.id \in Names
  BY DEF Entry, Names
<1>1. CASE i \in Present(t)
  <2>1. t.rows[i] \in Station
    BY <1>1 DEF Present, Tables
  <2>2. Merge(t.rows[i], e, p) \in Station
    BY <2>1, <1>0, FilledType DEF Merge, Station
  <2>3. QED
    BY <2>2, <1>1 DEF Merged
<1>2. CASE i \notin Present(t)
  BY <1>0, <1>2 DEF Merged, Station
<1>3. QED
  BY <1>1, <1>2

LEMMA StoreType ==
    ASSUME NEW t \in Tables, NEW i \in Ids, NEW row \in Station,
           NEW p \in Providers \cup {None}
    PROVE  Store(t, i, row, p) \in Tables
<1>1. row.provs \subseteq Providers
  BY DEF Station
<1>2. [t.rows EXCEPT ![i] = row] \in [Ids -> Station \cup {None}]
  BY DEF Tables
<1>3. {i} \X (row.provs \cup ({p} \ {None})) \subseteq Ids \X Providers
  BY <1>1
<1>4. [a \in Names |-> IF a \in row.names /\ t.owner[a] = None THEN i ELSE t.owner[a]]
        \in [Names -> Ids \cup {None}]
  BY DEF Tables
<1>5. QED
  BY <1>2, <1>3, <1>4 DEF Store, Tables

(* A prune deletes the names and the provider rows of what it deletes.     *)
LEMMA PruneNoDangling ==
    ASSUME NEW t \in Tables, NEW seen0 \in Tables, NEW again0 \in Tables,
           NEW p, NEW n, NEW keep, NEW first, NoDanglingIn(t)
    PROVE  NoDanglingIn(Prune(t, seen0, again0, p, n, keep, first))
<1> DEFINE victims == Victims(seen0, p, keep)
           others(i) == Holders(IF i = first THEN again0 ELSE t, i) \ {p}
           gone == {i \in victims : others(i) = {}}
           shared == (victims \ gone) \cap Present(t)
           t2 == Prune(t, seen0, again0, p, n, keep, first)
<1>1. \A i \in victims : i \in Ids /\ Withdraw(seen0.rows[i], p, n) # None
  BY WithdrawType, NoneAssumption DEF Victims, Present, Tables
<1>2. t2.rows = [i \in Ids |-> IF i \in gone THEN None
                                ELSE IF i \in shared THEN Withdraw(seen0.rows[i], p, n)
                                ELSE t.rows[i]]
  BY DEF Prune
<1>3. \A i \in Present(t) : i \notin gone => i \in Present(t2)
  BY <1>1, <1>2 DEF Present
<1>4. ASSUME NEW a \in Names, t2.owner[a] # None
      PROVE  t2.owner[a] \in Present(t2)
  <2>1. t2.owner[a] = t.owner[a] /\ t.owner[a] \notin gone
    BY <1>4 DEF Prune
  <2>2. QED
    BY <1>3, <1>4, <2>1 DEF NoDanglingIn
<1>5. ASSUME NEW m \in t2.member
      PROVE  m[1] \in Present(t2)
  <2>1. m \in t.member /\ m[1] \notin gone
    BY <1>5 DEF Prune
  <2>2. QED
    BY <1>3, <2>1 DEF NoDanglingIn
<1>6. QED
  BY <1>4, <1>5 DEF NoDanglingIn

LEMMA StorePresent ==
    ASSUME NEW t \in Tables, NEW i \in Ids, NEW row \in Station, NEW p
    PROVE  Present(Store(t, i, row, p)) = Present(t) \cup {i}
BY NoneAssumption DEF Present, Store, Tables

LEMMA StoreNoDangling ==
    ASSUME NEW t \in Tables, NEW i \in Ids, NEW row \in Station, NEW p, NoDanglingIn(t)
    PROVE  NoDanglingIn(Store(t, i, row, p))
<1>1. Present(Store(t, i, row, p)) = Present(t) \cup {i}
  BY StorePresent
<1>2. \A a \in Names : Store(t, i, row, p).owner[a] \in {i, t.owner[a]}
  BY DEF Store
<1>3. \A m \in Store(t, i, row, p).member : m \in t.member \/ m[1] = i
  BY DEF Store
<1>4. QED
  BY <1>1, <1>2, <1>3 DEF NoDanglingIn

(* A prune from rows that are still the committed ones takes p off the     *)
(* payloads and off the table alike.                                       *)
LEMMA PruneAgrees ==
    ASSUME NEW t \in Tables, NEW p \in Providers, NEW n, NEW keep, NEW first,
           NoDanglingIn(t), ListedIn(t), OwnedIn(t)
    PROVE  /\ ListedIn(Prune(t, t, t, p, n, keep, first))
           /\ OwnedIn(Prune(t, t, t, p, n, keep, first))
           /\ \A m \in t.member : m[2] # p => m \in Prune(t, t, t, p, n, keep, first).member
<1> DEFINE victims == Victims(t, p, keep)
           gone == {i \in victims : Holders(t, i) \ {p} = {}}
           shared == victims \ gone
           t2 == Prune(t, t, t, p, n, keep, first)
<1>0. \A i \in victims : i \in Ids /\ i \in Present(t) /\ t.rows[i] \in Station
                           /\ Withdraw(t.rows[i], p, n) # None
  BY WithdrawType, NoneAssumption DEF Victims, Present, Tables
<1>1. t2 = [rows |-> [i \in Ids |-> IF i \in gone THEN None
                                     ELSE IF i \in shared THEN Withdraw(t.rows[i], p, n)
                                     ELSE t.rows[i]],
            owner |-> [a \in Names |-> IF t.owner[a] \in gone THEN None ELSE t.owner[a]],
            member |-> {m \in t.member :
                            ~ (m[1] \in gone \/ (m[1] \in victims /\ m[2] = p))}]
  <2>1. \A i : Holders(IF i = first THEN t ELSE t, i) = Holders(t, i)
    OBVIOUS
  <2>2. (victims \ gone) \cap Present(t) = shared
    BY <1>0
  <2>3. QED
    BY <2>1, <2>2 DEF Prune
<1> HIDE DEF t2
<1>2. ASSUME NEW i \in Present(t2)
      PROVE  t2.rows[i].provs = Holders(t2, i) \ {Builtin}
  <2>1. i \in Ids /\ i \notin gone /\ i \in Present(t)
    BY <1>0, <1>1 DEF Present
  <2>2. t.rows[i].provs = Holders(t, i) \ {Builtin}
    BY <2>1 DEF ListedIn
  <2>3. CASE i \in shared
    <3>1. t2.rows[i] = Withdraw(t.rows[i], p, n)
      BY <1>1, <2>1, <2>3
    <3>2. t2.rows[i].provs = t.rows[i].provs \ {p}
      BY <3>1, <1>0, <2>3 DEF Withdraw, Station
    <3>3. Holders(t2, i) = Holders(t, i) \ {p}
      BY <1>1, <2>1, <2>3 DEF Holders
    <3>4. QED
      BY <2>2, <3>2, <3>3
  <2>4. CASE i \notin shared
    <3>1. t2.rows[i] = t.rows[i]
      BY <1>1, <2>1, <2>4
    <3>2. Holders(t2, i) = Holders(t, i)
      BY <1>1, <2>1, <2>4 DEF Holders
    <3>3. QED
      BY <2>2, <3>1, <3>2
  <2>5. QED
    BY <2>3, <2>4
<1>3. ASSUME NEW a \in Names, t2.owner[a] \in Present(t2)
      PROVE  a \in t2.rows[t2.owner[a]].names
  <2> DEFINE i == t2.owner[a]
  <2>1. i \in Ids /\ i \notin gone /\ i \in Present(t)
    BY <1>0, <1>1, <1>3 DEF Present
  <2>2. i = t.owner[a]
    BY <1>1, <2>1, NoneAssumption
  <2>3. a \in t.rows[i].names
    BY <2>1, <2>2 DEF OwnedIn
  <2>4. t2.rows[i] = t.rows[i] \/ (i \in shared /\ t2.rows[i] = Withdraw(t.rows[i], p, n))
    BY <1>1, <2>1
  <2>5. i \in shared => Withdraw(t.rows[i], p, n).names = t.rows[i].names
    BY <1>0 DEF Withdraw, Station
  <2>6. QED
    BY <2>3, <2>4, <2>5
<1>4. ASSUME NEW m \in t.member, m[2] # p
      PROVE  m \in t2.member
  <2>1. m[1] \in Ids /\ m[2] \in Providers /\ m = <<m[1], m[2]>>
    BY DEF Tables
  <2>2. m[2] \in Holders(t, m[1]) \ {p}
    BY <1>4, <2>1 DEF Holders
  <2>3. m[1] \notin gone
    BY <2>2
  <2>4. QED
    BY <1>1, <1>4, <2>3
<1>5. QED
  BY <1>2, <1>3, <1>4 DEF ListedIn, OwnedIn, t2

LEMMA MergedSets ==
    ASSUME NEW t \in Tables, NEW i \in Ids, NEW e \in Entry, NEW p
    PROVE  /\ i \in Present(t) =>
                /\ Merged(t, i, e, p).provs = t.rows[i].provs \cup e.about.provs
                /\ t.rows[i].names \subseteq Merged(t, i, e, p).names
           /\ i \notin Present(t) => Merged(t, i, e, p).provs = e.about.provs
BY DEF Merged, Merge, Entry, Station

LEMMA StoreAgrees ==
    ASSUME NEW t \in Tables, NEW i \in Ids, NEW e \in Entry,
           NEW p \in Providers \cup {None}, Signed(p, <<e>>),
           NoDanglingIn(t), ListedIn(t), OwnedIn(t)
    PROVE  /\ ListedIn(Store(t, i, Merged(t, i, e, p), p))
           /\ OwnedIn(Store(t, i, Merged(t, i, e, p), p))
<1> DEFINE row == Merged(t, i, e, p)
           t2 == Store(t, i, row, p)
<1>1. row \in Station
  BY MergedType
<1>2. Present(t2) = Present(t) \cup {i}
  BY <1>1, StorePresent
<1>3. /\ t2.rows = [t.rows EXCEPT ![i] = row]
      /\ t2.owner = [a \in Names |-> IF a \in row.names /\ t.owner[a] = None
                                      THEN i ELSE t.owner[a]]
      /\ t2.member = t.member \cup ({i} \X (row.provs \cup ({p} \ {None})))
  BY DEF Store
<1>4. t.rows \in [Ids -> Station \cup {None}]
  BY DEF Tables
<1>5. /\ (row.provs \cup ({p} \ {None})) \ {Builtin} = row.provs \ {Builtin}
      /\ row.provs \subseteq Providers /\ Builtin \notin e.about.provs
  <2>1. e.about.provs \subseteq row.provs
    BY MergedSets
  <2>2. Builtin \notin e.about.provs /\ (p \notin {None, Builtin} => p \in e.about.provs)
    BY DEF Signed
  <2>3. QED
    BY <1>1, <2>1, <2>2 DEF Station
<1>6. i \in Present(t) => /\ t.rows[i].provs = Holders(t, i) \ {Builtin}
                         /\ row.provs = t.rows[i].provs \cup e.about.provs
  BY MergedSets DEF ListedIn
<1>7. i \notin Present(t) => Holders(t, i) = {} /\ row.provs = e.about.provs
  BY MergedSets DEF NoDanglingIn, Holders
<1> HIDE DEF row, t2
<1>8. Holders(t2, i) \ {Builtin} = row.provs
  <2>1. Holders(t2, i) = Holders(t, i) \cup row.provs \cup ({p} \ {None})
    <3>1. row.provs \cup ({p} \ {None}) \subseteq Providers
      BY <1>5
    <3>2. QED
      BY <1>3, <3>1 DEF Holders
  <2>2. Builtin \notin row.provs
    BY <1>5, <1>6, <1>7
  <2>3. QED
    BY <2>1, <2>2, <1>5, <1>6, <1>7
<1>9. \A k \in Present(t) : k # i => Holders(t2, k) = Holders(t, k)
  BY <1>3 DEF Holders
<1>10. ListedIn(t2)
  <2>1. ASSUME NEW k \in Present(t2)
        PROVE  t2.rows[k].provs = Holders(t2, k) \ {Builtin}
    <3>1. CASE k = i
      BY <3>1, <1>3, <1>4, <1>8
    <3>2. CASE k # i
      <4>1. k \in Present(t) /\ k \in Ids
        BY <3>2, <1>2 DEF Present
      <4>2. t2.rows[k] = t.rows[k]
        BY <3>2, <4>1, <1>3, <1>4
      <4>3. QED
        BY <3>2, <4>1, <4>2, <1>9 DEF ListedIn
    <3>3. QED
      BY <3>1, <3>2
  <2>2. QED
    BY <2>1 DEF ListedIn
<1>11. OwnedIn(t2)
  <2>1. ASSUME NEW a \in Names, t2.owner[a] \in Present(t2)
        PROVE  a \in t2.rows[t2.owner[a]].names
    <3>1. CASE t.owner[a] = None /\ a \in row.names
      BY <3>1, <1>3, <1>4
    <3>2. CASE ~ (t.owner[a] = None /\ a \in row.names)
      <4>1. t2.owner[a] = t.owner[a]
        BY <3>2, <1>3
      <4>2. t.owner[a] # None
        BY <4>1, <2>1, NoneAssumption DEF Present
      <4>3. t.owner[a] \in Present(t) /\ t.owner[a] \in Ids
        BY <4>2 DEF NoDanglingIn, Present
      <4>4. a \in t.rows[t.owner[a]].names
        BY <4>3 DEF OwnedIn
      <4>5. t.owner[a] = i => t.rows[i].names \subseteq row.names
        BY <4>3, MergedSets DEF row
      <4>6. QED
        BY <4>1, <4>3, <4>4, <4>5, <1>3, <1>4
    <3>3. QED
      BY <3>1, <3>2
  <2>2. QED
    BY <2>1 DEF OwnedIn
<1>12. QED
  BY <1>10, <1>11 DEF t2, row

-----------------------------------------------------------------------------
(* The state is well-typed *)

\* What a writer may find at a step, and what it is storing.
GoodAnswer(w, k, a) == a = Failed \/ (a \in Lists /\ Signed(ProvOf(w, k), a))
Holding(w) == pc[w] = "write" <=> lock = w
Upserting(w) ==
    /\ at[w] \in Steps(w)
    /\ answer[w][at[w]] \in Lists \ {<<>>} /\ answer[w][at[w]] # Failed
ControlOf(w) ==
    /\ Holding(w)
    /\ \A k \in Steps(w) : GoodAnswer(w, k, answer[w][k])
    /\ pc[w] \in {"look", "domes", "begin", "write"} => Upserting(w)
    /\ pc[w] = "write" => Signed(ProvOf(w, at[w]), left[w])
    /\ w \in Jobs /\ w \notin refreshing => pc[w] = "idle"
Control == \A w \in Writers : ControlOf(w)
Typed == TypeOK /\ Control

LEMMA ConstantTypes ==
    /\ \A w \in Writers : \A k \in Steps(w) :
          /\ ProvOf(w, k) \in Providers \cup {None}
          /\ k \in Nat \ {0}
    /\ \A j \in Jobs : j # Main /\ \A k \in Steps(j) : ProvOf(j, k) \in Providers
    /\ None \notin Writers
    /\ \A w \in Writers : Nothing(w) \in [Steps(w) -> Lists \cup {Failed}]
    /\ \A w \in Writers : \A k \in Steps(w) : GoodAnswer(w, k, Nothing(w)[k])
    /\ \A w \in Writers : Planned(w) \subseteq Steps(w)
<1>1. /\ Seeds \in Seq(Seed) /\ Main \notin Jobs /\ None \notin Writers
      /\ Line \in [Jobs -> Seq(Providers)]
      /\ \A k \in DOMAIN Seeds : Seeds[k] \in Seed /\ Signed(Seeds[k].prov, Seeds[k].list)
  BY SeedsAssumption, JobsAssumption DEF Writers
<1>2. \A j \in Jobs : \A k \in DOMAIN Line[j] : Line[j][k] \in Providers /\ k \in Nat \ {0}
  BY <1>1
<1>3. \A k \in DOMAIN Seeds : k \in Nat \ {0} /\ Seeds[k].prov \in Providers \cup {None}
                                /\ Seeds[k].list \in Lists
  BY <1>1 DEF Seed
<1>4. <<>> \in Lists /\ \A p : Signed(p, <<>>)
  BY DEF Lists, Signed
<1>5. \A w \in Writers : \A k \in Steps(w) :
        Nothing(w)[k] = (IF w = Main THEN Seeds[k].list ELSE <<>>)
  BY DEF Nothing
<1>6. \A w \in Writers : \A k \in Steps(w) :
        Nothing(w)[k] \in Lists /\ Signed(ProvOf(w, k), Nothing(w)[k])
  BY <1>1, <1>3, <1>4, <1>5 DEF Steps, ProvOf
<1>7. \A w \in Writers : Nothing(w) \in [Steps(w) -> Lists \cup {Failed}]
  BY <1>5, <1>6 DEF Nothing
<1>8. \A w \in Writers : \A k \in Steps(w) :
        ProvOf(w, k) \in Providers \cup {None} /\ k \in Nat \ {0}
  BY <1>1, <1>2, <1>3 DEF Writers, Steps, ProvOf
<1>9. \A j \in Jobs : j # Main /\ \A k \in Steps(j) : ProvOf(j, k) \in Providers
  BY <1>1, <1>2 DEF Steps, ProvOf
<1>10. \A w \in Writers : \A k \in Steps(w) : GoodAnswer(w, k, Nothing(w)[k])
  BY <1>6 DEF GoodAnswer
<1>11. \A w \in Writers : Planned(w) \subseteq Steps(w)
  BY DEF Planned
<1>12. QED
  BY <1>1, <1>7, <1>8, <1>9, <1>10, <1>11

LEMMA NoStationsType == NoStations \in Tables
BY DEF NoStations, Tables

LEMMA InitTyped == Init => Typed
<1> SUFFICES ASSUME Init PROVE Typed
  OBVIOUS
<1>1. TypeOK
  <2>1. /\ tables \in Tables /\ draft \in Tables /\ seen \in [Writers -> Tables]
        /\ again \in [Writers -> Tables]
        /\ shown \in [Ids -> Station \cup {None}]
    BY NoStationsType DEF Init, Tables
  <2>2. /\ \A w \in Writers :
             /\ todo[w] \subseteq Steps(w)
             /\ answer[w] \in [Steps(w) -> Lists \cup {Failed}]
             /\ at[w] \in Steps(w) \cup {0}
        /\ todo \in [Writers -> SUBSET Nat] /\ at \in [Writers -> Nat]
        /\ DOMAIN answer = Writers
    BY ConstantTypes DEF Init
  <2>3. /\ left \in [Writers -> Lists]
        /\ pc \in [Writers -> {"idle", "queued", "fetch", "next", "look", "domes", "begin",
                               "write", "done", "failed", "page"}]
    BY DEF Init, Lists
  <2>4. /\ starts \in 0..MaxStarts /\ crashes \in 0..MaxCrashes
    BY BoundsAssumption DEF Init
  <2>5. QED
    BY <2>1, <2>2, <2>3, <2>4 DEF Init, TypeOK
<1>2. Control
  BY ConstantTypes DEF Init, Control, ControlOf, Holding, Upserting, Writers
<1>3. QED
  BY <1>1, <1>2 DEF Typed

(* A step of one writer leaves what is said of the others alone.           *)
LEMMA OtherWriters ==
    ASSUME Control, NEW v \in Writers, ControlOf(v)',
           \A w \in Writers \ {v} :
               /\ pc'[w] = pc[w] /\ at'[w] = at[w]
               /\ answer'[w] = answer[w] /\ left'[w] = left[w]
               /\ lock' = w <=> lock = w
               /\ w \in refreshing' <=> w \in refreshing
    PROVE  Control'
BY DEF Control, ControlOf, Holding, Upserting, GoodAnswer, Signed

LEMMA SignedTail ==
    ASSUME NEW p, NEW list \in Seq(Entry), list # <<>>, Signed(p, list)
    PROVE  Signed(p, Tail(list))
BY DEF Signed

(* The first write of a transaction, whatever it writes.                   *)
LEMMA BeginTyped ==
    ASSUME TypeOK, Control, NEW w \in Writers, NEW t \in Tables, NEW rest \in Lists,
           BeginWith(w, t, rest), pc[w] = "begin", lock = None,
           Signed(ProvOf(w, at[w]), rest)
    PROVE  Typed'
<1>1. /\ pc' = [pc EXCEPT ![w] = "write"] /\ lock' = w /\ draft' = t
      /\ left' = [left EXCEPT ![w] = rest] /\ seen' = [seen EXCEPT ![w] = NoStations]
      /\ again' = [again EXCEPT ![w] = NoStations]
      /\ stale' = (stale \/ seen[w] # tables \/ again[w] # tables)
      /\ UNCHANGED <<tables, record, job, at, page, crashes>>
  BY DEF BeginWith, Goto
<1>2. TypeOK'
  BY <1>1, NoStationsType DEF TypeOK, job, page
<1>3. ControlOf(w)'
  BY <1>1 DEF TypeOK, Control, ControlOf, Holding, Upserting, GoodAnswer, Signed, job, page
<1>4. \A v \in Writers : lock' = v <=> (v = w)
  BY <1>1
<1>5. \A v \in Writers : lock # v
  BY ConstantTypes
<1>6. QED
  BY <1>1, <1>2, <1>3, <1>4, <1>5, OtherWriters DEF TypeOK, Typed, job, page

LEMMA StepTyped == Typed /\ [Next]_vars => Typed'
<1> SUFFICES ASSUME Typed, [Next]_vars PROVE Typed'
  OBVIOUS
<1> USE DEF Goto
<1>0. TypeOK /\ Control
  BY DEF Typed
<1>1. CASE BuildPage
  <2>1. Main \in Writers /\ pc[Main] = "next" /\ pc' = [pc EXCEPT ![Main] = "page"]
        /\ Main \notin Jobs
    BY <1>1, JobsAssumption DEF BuildPage, Writers
  <2>2. TypeOK'
    BY <1>0, <1>1, <2>1 DEF BuildPage, TypeOK, Tables, db, job
  <2>3. ControlOf(Main)'
    BY <1>0, <1>1, <2>1
    DEF BuildPage, TypeOK, Control, ControlOf, Holding, Upserting, GoodAnswer, db, job
  <2>4. QED
    BY <1>0, <1>1, <2>1, <2>2, <2>3, OtherWriters DEF BuildPage, TypeOK, Typed, db, job
<1>2. CASE Redraw
  <2>1. TypeOK'
    BY <1>0, <1>2 DEF Redraw, TypeOK, Tables, db, job
  <2>2. Control'
    BY <1>0, <1>2
    DEF Redraw, Control, ControlOf, Holding, Upserting, GoodAnswer, Signed, db, job
  <2>3. QED
    BY <2>1, <2>2 DEF Typed
<1>3. ASSUME NEW j \in Jobs, Start(j) \/ RefreshFinished(j) \/ RefreshFailed(j) \/ Ends(j)
      PROVE  Typed'
  <2>1. j \in Writers
    BY DEF Writers
  <2>2. /\ pc[j] # "write" /\ UNCHANGED <<db, job, at, seen, again, left, stale, crashes>>
        /\ \/ pc' = [pc EXCEPT ![j] = "queued"] /\ refreshing' = refreshing \cup {j}
           \/ pc' = [pc EXCEPT ![j] = "idle"] /\ refreshing' = refreshing \ {j}
           \/ pc' = [pc EXCEPT ![j] = "done"] /\ refreshing' = refreshing /\ pc[j] = "next"
    BY <1>0, <1>3, <2>1
    DEF Start, RefreshFinished, RefreshFailed, Ends, Control, ControlOf, page
  <2>3. TypeOK'
    <3>1. /\ shown' \in [Ids -> Station \cup {None}] /\ aborted' \subseteq Jobs
          /\ starts' \in 0..MaxStarts
      BY <1>0, <1>3, BoundsAssumption
      DEF Start, RefreshFinished, RefreshFailed, Ends, TypeOK, Tables, page
    <3>2. QED
      BY <1>0, <2>1, <2>2, <3>1 DEF TypeOK, db, job
  <2>4. ControlOf(j)'
    BY <1>0, <2>1, <2>2
    DEF TypeOK, Control, ControlOf, Holding, Upserting, GoodAnswer, db, job
  <2>5. QED
    BY <1>0, <2>1, <2>2, <2>3, <2>4, OtherWriters DEF TypeOK, Typed, db, job
<1>4. ASSUME NEW j \in Jobs, Take(j) PROVE Typed'
  <2>1. /\ j \in Writers /\ Steps(j) \subseteq Nat
        /\ pc[j] = "queued" /\ pc' = [pc EXCEPT ![j] = "fetch"]
    BY <1>4, ConstantTypes DEF Take, Writers
  <2>2. TypeOK'
    BY <1>0, <1>4, <2>1 DEF Take, TypeOK, db, page
  <2>3. ControlOf(j)'
    BY <1>0, <1>4, <2>1
    DEF Take, TypeOK, Control, ControlOf, Holding, Upserting, GoodAnswer, db, page
  <2>4. QED
    BY <1>0, <1>4, <2>1, <2>2, <2>3, OtherWriters DEF Take, TypeOK, Typed, db, page
<1>5. ASSUME NEW j \in Jobs, Fetched(j) PROVE Typed'
  <2>1. j \in Writers /\ pc[j] = "fetch" /\ pc' = [pc EXCEPT ![j] = "next"]
    BY <1>5 DEF Fetched, Writers
  <2>2. PICK got \in [todo[j] -> UNION {Answers(p) : p \in Providers}] :
          /\ \A k \in todo[j] : got[k] \in Answers(ProvOf(j, k))
          /\ answer' = [answer EXCEPT ![j] =
                [k \in Steps(j) |-> IF k \in todo[j] THEN got[k] ELSE <<>>]]
    BY <1>5 DEF Fetched
  <2>3. \A k \in Steps(j) : GoodAnswer(j, k, <<>>)
    BY DEF GoodAnswer, Lists, Signed
  <2>4. \A k \in todo[j] : k \in Steps(j) => GoodAnswer(j, k, got[k])
    BY <2>1, <2>2, ConstantTypes, AnswersAssumption DEF GoodAnswer
  <2>5. answer'[j] = [k \in Steps(j) |-> IF k \in todo[j] THEN got[k] ELSE <<>>]
    BY <1>0, <2>1, <2>2 DEF TypeOK
  <2>6. \A k \in Steps(j) : GoodAnswer(j, k, answer'[j][k])
    BY <2>3, <2>4, <2>5
  <2>7. answer'[j] \in [Steps(j) -> Lists \cup {Failed}]
    BY <2>5, <2>6 DEF GoodAnswer
  <2>8. TypeOK'
    BY <1>0, <1>5, <2>1, <2>2, <2>5, <2>7 DEF Fetched, TypeOK, db, page
  <2>9. ControlOf(j)'
    <3>1. (\A k \in Steps(j) : GoodAnswer(j, k, answer[j][k]))'
      BY <2>6 DEF GoodAnswer
    <3>2. QED
      BY <1>0, <1>5, <2>1, <3>1
      DEF Fetched, TypeOK, Control, ControlOf, Holding, db, page
  <2>10. QED
    BY <1>0, <1>5, <2>1, <2>2, <2>8, <2>9, OtherWriters DEF Fetched, TypeOK, Typed, db, page
<1>6. ASSUME NEW j \in Jobs, RecordStatus(j) PROVE Typed'
  <2>1. /\ j \in Writers /\ pc[j] = "next" /\ pc' = pc /\ lock = None /\ lock' = lock
        /\ UNCHANGED <<tables, draft, at, seen, again, left, stale, page, crashes>>
    BY <1>6 DEF RecordStatus, Writers
  <2>2. PICK k \in Steps(j) :
          /\ record' = [record EXCEPT ![ProvOf(j, k)] = "resting"]
          /\ todo' = [todo EXCEPT ![j] = @ \ {k}]
          /\ answer' = [answer EXCEPT ![j][k] = <<>>]
    BY <1>6 DEF RecordStatus
  <2>3. GoodAnswer(j, k, <<>>) /\ <<>> \in Lists
    BY DEF GoodAnswer, Lists, Signed
  <2>4. answer'[j] = [answer[j] EXCEPT ![k] = <<>>]
    BY <1>0, <2>1, <2>2 DEF TypeOK
  <2>5. answer[j] \in [Steps(j) -> Lists \cup {Failed}]
    BY <1>0, <2>1 DEF TypeOK
  <2>6. TypeOK'
    <3>1. answer'[j] \in [Steps(j) -> Lists \cup {Failed}]
      BY <2>3, <2>4, <2>5
    <3>2. record' \in [Providers -> {"none", "fresh", "resting", "due"}]
      BY <1>0, <2>2 DEF TypeOK
    <3>3. QED
      BY <1>0, <2>1, <2>2, <2>4, <3>1, <3>2 DEF TypeOK, page
  <2>7. ControlOf(j)'
    <3>1. \A m \in Steps(j) : GoodAnswer(j, m, answer'[j][m])
      BY <1>0, <2>1, <2>3, <2>4, <2>5 DEF Control, ControlOf
    <3>2. (\A m \in Steps(j) : GoodAnswer(j, m, answer[j][m]))'
      BY <3>1 DEF GoodAnswer
    <3>3. QED
      BY <1>0, <2>1, <3>2 DEF TypeOK, Control, ControlOf, Holding, page
  <2>8. QED
    BY <1>0, <2>1, <2>2, <2>6, <2>7, OtherWriters DEF TypeOK, Typed, page
<1>7. ASSUME NEW w \in Writers, Look(w) PROVE Typed'
  <2>1. /\ pc[w] = "next" /\ pc' = [pc EXCEPT ![w] = "look"]
        /\ seen' = [seen EXCEPT ![w] = tables]
        /\ UNCHANGED <<db, job, again, left, stale, page, crashes>>
    BY <1>7 DEF Look
  <2>2. PICK k \in Steps(w) : /\ answer[w][k] \notin {Failed, <<>>}
                              /\ at' = [at EXCEPT ![w] = k]
    BY <1>7 DEF Look
  <2>3. GoodAnswer(w, k, answer[w][k]) /\ k \in Nat /\ pc[w] \in {"idle", "next"}
    BY <1>0, <2>1, ConstantTypes DEF Control, ControlOf
  <2>4. TypeOK'
    BY <1>0, <2>1, <2>2, <2>3 DEF TypeOK, db, job, page
  <2>5. ControlOf(w)'
    BY <1>0, <2>1, <2>2, <2>3
    DEF TypeOK, Control, ControlOf, Holding, Upserting, GoodAnswer, Signed, db, job, page
  <2>6. QED
    BY <1>0, <2>1, <2>2, <2>4, <2>5, OtherWriters DEF TypeOK, Typed, db, job, page
<1>7a. ASSUME NEW w \in Writers, LookAgain(w) \/ LookByDomes(w) PROVE Typed'
  <2>1. PICK where \in {"domes", "begin"} : pc' = [pc EXCEPT ![w] = where]
    BY <1>7a DEF LookAgain, LookByDomes
  <2>2. /\ pc[w] \in {"look", "domes"}
        /\ UNCHANGED <<db, job, at, seen, left, stale, page, crashes>>
    BY <1>7a DEF LookAgain, LookByDomes
  <2>3. again' \in [Writers -> Tables]
    <3>1. tables \in Tables
      BY <1>0 DEF TypeOK
    <3>2. \A i : [tables.rows EXCEPT ![i] = None] \in [Ids -> Station \cup {None}]
      BY <3>1 DEF Tables
    <3>3. \A i : [tables EXCEPT !.rows[i] = None] =
              [rows |-> [tables.rows EXCEPT ![i] = None], owner |-> tables.owner,
               member |-> tables.member]
      BY <3>1 DEF Tables
    <3>4. \A i : [tables EXCEPT !.rows[i] = None] \in Tables
      BY <3>1, <3>2, <3>3 DEF Tables
    <3>5. CASE LookAgain(w)
      BY <1>0, <3>1, <3>5 DEF LookAgain, TypeOK
    <3>6. CASE LookByDomes(w)
      <4> DEFINE masked == [tables EXCEPT !.rows[Head(Storing(w).list).id] = None]
      <4>1. masked \in Tables
        BY <3>4
      <4>2. again' = [again EXCEPT ![w] = masked]
        BY <3>6 DEF LookByDomes
      <4> HIDE DEF masked
      <4>3. QED
        BY <1>0, <4>1, <4>2 DEF TypeOK
    <3>7. QED
      BY <1>7a, <3>5, <3>6
  <2>4. TypeOK'
    BY <1>0, <2>1, <2>2, <2>3 DEF TypeOK, db, job, page
  <2>5. ControlOf(w)'
    BY <1>0, <2>1, <2>2
    DEF TypeOK, Control, ControlOf, Holding, Upserting, GoodAnswer, Signed, db, job, page
  <2>6. QED
    BY <1>0, <2>1, <2>2, <2>4, <2>5, OtherWriters DEF TypeOK, Typed, db, job, page
<1>7b. CASE SkipSeed
  <2>1. PICK k \in Steps(Main) :
          /\ todo' = [todo EXCEPT ![Main] = @ \ {k}]
          /\ answer' = [answer EXCEPT ![Main][k] = <<>>]
    BY <1>7b DEF SkipSeed
  <2>2. /\ Main \in Writers /\ pc[Main] = "next"
        /\ UNCHANGED <<db, pc, at, seen, again, left, stale, page, crashes>>
    BY <1>7b DEF SkipSeed, Writers
  <2>3. GoodAnswer(Main, k, <<>>) /\ <<>> \in Lists
    BY DEF GoodAnswer, Lists, Signed
  <2>4. /\ answer'[Main] = [answer[Main] EXCEPT ![k] = <<>>]
        /\ answer[Main] \in [Steps(Main) -> Lists \cup {Failed}]
    BY <1>0, <2>1, <2>2 DEF TypeOK
  <2>5. TypeOK'
    <3>1. answer'[Main] \in [Steps(Main) -> Lists \cup {Failed}]
      BY <2>3, <2>4
    <3>2. QED
      BY <1>0, <2>1, <2>2, <2>4, <3>1 DEF TypeOK, db, page
  <2>6. ControlOf(Main)'
    <3>1. \A m \in Steps(Main) : GoodAnswer(Main, m, answer'[Main][m])
      BY <1>0, <2>2, <2>3, <2>4 DEF Control, ControlOf
    <3>2. (\A m \in Steps(Main) : GoodAnswer(Main, m, answer[Main][m]))'
      BY <3>1 DEF GoodAnswer
    <3>3. QED
      BY <1>0, <2>2, <3>2 DEF TypeOK, Control, ControlOf, Holding, db, page
  <2>7. QED
    BY <1>0, <2>1, <2>2, <2>5, <2>6, OtherWriters DEF TypeOK, Typed, db, page
<1>8. ASSUME NEW w \in Writers, BeginPrune(w) PROVE Typed'
  <2>1. PICK first \in Outdated(w) :
          BeginWith(w, Prune(tables, seen[w], again[w], Storing(w).prov, Storing(w).net,
                             Publishes(Storing(w).list), first), Storing(w).list)
    BY <1>8 DEF BeginPrune
  <2>2. Prune(tables, seen[w], again[w], Storing(w).prov, Storing(w).net,
              Publishes(Storing(w).list), first) \in Tables
    BY <1>0, PruneType DEF TypeOK
  <2>3. pc[w] = "begin" /\ lock = None /\ Upserting(w)
    BY <1>0, <1>8 DEF BeginPrune, Control, ControlOf
  <2>4. Storing(w).list \in Lists /\ Signed(ProvOf(w, at[w]), Storing(w).list)
    BY <1>0, <2>3 DEF Upserting, Storing, Control, ControlOf, GoodAnswer
  <2>5. QED
    BY <1>0, <2>1, <2>2, <2>3, <2>4, BeginTyped
<1>9. ASSUME NEW w \in Writers, BeginStore(w) PROVE Typed'
  <2> DEFINE s == Storing(w)
             e == Head(s.list)
  <2>1. PICK i \in Targets(again[w], e) :
          BeginWith(w, Store(tables, i, Merged(again[w], i, e, s.prov), s.prov), Tail(s.list))
    BY <1>9 DEF BeginStore
  <2>2. pc[w] = "begin" /\ lock = None /\ Upserting(w)
    BY <1>0, <1>9 DEF BeginStore, Control, ControlOf
  <2>3. s.list \in Seq(Entry) /\ s.list # <<>> /\ Signed(ProvOf(w, at[w]), s.list)
    BY <1>0, <2>2 DEF Upserting, Storing, Control, ControlOf, GoodAnswer, Lists
  <2>4. e \in Entry /\ Tail(s.list) \in Lists /\ s.prov \in Providers \cup {None}
    BY <2>2, <2>3, ConstantTypes DEF Lists, Upserting, Storing
  <2>5. again[w] \in Tables /\ i \in Ids /\ tables \in Tables
    BY <1>0, <2>1, <2>4, TargetsType DEF TypeOK
  <2>6. Store(tables, i, Merged(again[w], i, e, s.prov), s.prov) \in Tables
    BY <2>4, <2>5, MergedType, StoreType
  <2>7. Signed(ProvOf(w, at[w]), Tail(s.list))
    BY <2>3, SignedTail
  <2>8. QED
    BY <1>0, <2>1, <2>2, <2>4, <2>6, <2>7, BeginTyped
<1>10. ASSUME NEW w \in Writers, StoreNext(w) PROVE Typed'
  <2> DEFINE e == Head(left[w])
             p == Storing(w).prov
  <2>1. PICK i \in Targets(draft, e) : draft' = Store(draft, i, Merged(draft, i, e, p), p)
    BY <1>10 DEF StoreNext
  <2>2. /\ pc[w] = "write" /\ left[w] # <<>> /\ left' = [left EXCEPT ![w] = Tail(@)]
        /\ UNCHANGED <<tables, lock, record, pc, job, at, seen, again, stale, page, crashes>>
    BY <1>10 DEF StoreNext
  <2>3. left[w] \in Seq(Entry) /\ Upserting(w) /\ Signed(ProvOf(w, at[w]), left[w])
    BY <1>0, <2>2 DEF TypeOK, Control, ControlOf, Lists
  <2>4. e \in Entry /\ Tail(left[w]) \in Lists /\ p \in Providers \cup {None}
    BY <2>2, <2>3, ConstantTypes DEF Lists, Upserting, Storing
  <2>5. draft' \in Tables
    BY <1>0, <2>1, <2>4, TargetsType, MergedType, StoreType DEF TypeOK
  <2>6. Signed(ProvOf(w, at[w]), Tail(left[w]))
    BY <2>2, <2>3, SignedTail
  <2>7. TypeOK'
    BY <1>0, <2>2, <2>4, <2>5 DEF TypeOK, job, page
  <2>8. ControlOf(w)'
    BY <1>0, <2>2, <2>3, <2>6
    DEF TypeOK, Control, ControlOf, Holding, Upserting, GoodAnswer, Signed, job, page
  <2>9. QED
    BY <1>0, <2>2, <2>7, <2>8, OtherWriters DEF TypeOK, Typed, job, page
<1>11. ASSUME NEW w \in Writers, Commit(w) PROVE Typed'
  <2>1. /\ pc[w] = "write" /\ pc' = [pc EXCEPT ![w] = "next"] /\ at' = [at EXCEPT ![w] = 0]
        /\ tables' = draft /\ draft' = NoStations /\ lock' = None
        /\ record' = [p \in Providers |-> IF p = Storing(w).prov THEN "fresh" ELSE record[p]]
        /\ todo' = [todo EXCEPT ![w] = @ \ {at[w]}]
        /\ answer' = [answer EXCEPT ![w][at[w]] = <<>>]
        /\ UNCHANGED <<seen, again, left, stale, page, crashes>>
    BY <1>11 DEF Commit
  <2>2. lock = w /\ Upserting(w) /\ w \notin {None}
    BY <1>0, <2>1, ConstantTypes DEF Control, ControlOf, Holding
  <2>3. GoodAnswer(w, at[w], <<>>) /\ <<>> \in Lists
    BY DEF GoodAnswer, Lists, Signed
  <2>4. answer'[w] = [answer[w] EXCEPT ![at[w]] = <<>>]
        /\ answer[w] \in [Steps(w) -> Lists \cup {Failed}]
    BY <1>0, <2>1 DEF TypeOK
  <2>5. TypeOK'
    <3>1. answer'[w] \in [Steps(w) -> Lists \cup {Failed}]
      BY <2>3, <2>4
    <3>2. record' \in [Providers -> {"none", "fresh", "resting", "due"}]
      BY <1>0, <2>1 DEF TypeOK
    <3>3. DOMAIN answer' = Writers
      BY <1>0, <2>1, <2>4, <3>1 DEF TypeOK
    <3>4. \A v \in Writers : answer'[v] \in [Steps(v) -> Lists \cup {Failed}]
      BY <1>0, <2>1, <2>4, <3>1 DEF TypeOK
    <3>5. QED
      BY <1>0, <2>1, <3>2, <3>3, <3>4, NoStationsType DEF TypeOK, page
  <2>6. ControlOf(w)'
    <3>1. \A m \in Steps(w) : GoodAnswer(w, m, answer'[w][m])
      BY <1>0, <2>3, <2>4 DEF Control, ControlOf
    <3>2. (\A m \in Steps(w) : GoodAnswer(w, m, answer[w][m]))'
      BY <3>1 DEF GoodAnswer
    <3>3. QED
      BY <1>0, <2>1, <2>2, <3>2 DEF TypeOK, Control, ControlOf, Holding, page
  <2>7. QED
    <3>1. \A v \in Writers : v # None
      BY ConstantTypes
    <3>2. QED
      BY <1>0, <2>1, <2>2, <2>5, <2>6, <3>1, OtherWriters DEF TypeOK, Typed, page
<1>12. ASSUME NEW j \in Jobs, LockTimeout(j) PROVE Typed'
  <2>1. /\ j \in Writers /\ pc[j] \in {"begin", "next"}
        /\ pc' = [pc EXCEPT ![j] = "failed"] /\ at' = [at EXCEPT ![j] = 0]
        /\ todo' = [todo EXCEPT ![j] = {}] /\ answer' = [answer EXCEPT ![j] = Nothing(j)]
        /\ seen' = [seen EXCEPT ![j] = NoStations] /\ again' = [again EXCEPT ![j] = NoStations]
        /\ UNCHANGED <<db, left, stale, page, crashes>>
    BY <1>12 DEF LockTimeout, Waiting, Writers
  <2>2. TypeOK'
    BY <1>0, <2>1, ConstantTypes, NoStationsType DEF TypeOK, db, page
  <2>3. ControlOf(j)'
    <3>1. answer'[j] = Nothing(j)
      BY <1>0, <2>1 DEF TypeOK
    <3>2. (\A m \in Steps(j) : GoodAnswer(j, m, answer[j][m]))'
      BY <2>1, <3>1, ConstantTypes DEF GoodAnswer
    <3>3. QED
      BY <1>0, <2>1, <3>2 DEF TypeOK, Control, ControlOf, Holding, db, page
  <2>4. QED
    BY <1>0, <2>1, <2>2, <2>3, OtherWriters DEF TypeOK, Typed, db, page
<1>13. ASSUME NEW p \in Providers, Ages(p) PROVE Typed'
  <2>1. /\ record' = [record EXCEPT ![p] = "due"]
        /\ UNCHANGED <<tables, lock, draft, pc, job, at, seen, again, left, stale, page, crashes>>
    BY <1>13 DEF Ages
  <2>2. TypeOK'
    BY <1>0, <2>1 DEF TypeOK, job, page
  <2>3. Control'
    BY <1>0, <2>1
    DEF Control, ControlOf, Holding, Upserting, GoodAnswer, Signed, job, page
  <2>4. QED
    BY <2>2, <2>3 DEF Typed
<1>14. CASE Crash
  <2>1. TypeOK'
    <3>1. /\ todo' \in [Writers -> SUBSET Nat] /\ at' \in [Writers -> Nat]
          /\ DOMAIN answer' = Writers
          /\ \A w \in Writers :
               /\ todo'[w] \subseteq Steps(w)
               /\ answer'[w] \in [Steps(w) -> Lists \cup {Failed}]
               /\ at'[w] \in Steps(w) \cup {0}
      BY <1>14, ConstantTypes DEF Crash
    <3>2. /\ left' \in [Writers -> Lists] /\ draft' \in Tables
          /\ seen' \in [Writers -> Tables] /\ again' \in [Writers -> Tables]
      BY <1>14, NoStationsType DEF Crash, Lists
    <3>3. crashes' \in 0..MaxCrashes
      BY <1>0, <1>14, BoundsAssumption DEF Crash, TypeOK
    <3>4. QED
      BY <1>0, <1>14, <3>1, <3>2, <3>3 DEF Crash, TypeOK
  <2>2. ASSUME NEW w \in Writers PROVE ControlOf(w)'
    <3>1. (\A m \in Steps(w) : GoodAnswer(w, m, answer[w][m]))'
      BY <1>14, ConstantTypes DEF Crash, GoodAnswer
    <3>2. /\ pc'[w] = (IF w = Main THEN "next" ELSE "idle") /\ lock' = None
          /\ Main \notin Jobs /\ w # None
      BY <1>14, ConstantTypes DEF Crash, Writers
    <3>3. QED
      BY <3>1, <3>2 DEF ControlOf, Holding
  <2>3. QED
    BY <2>1, <2>2 DEF Control, Typed
<1>15. CASE UNCHANGED vars
  <2>1. TypeOK'
    BY <1>0, <1>15 DEF TypeOK, vars, db, job, page
  <2>2. Control'
    BY <1>0, <1>15
    DEF Control, ControlOf, Holding, Upserting, GoodAnswer, Signed, vars, db, job, page
  <2>3. QED
    BY <2>1, <2>2 DEF Typed
<1>16. QED
  BY <1>1, <1>2, <1>3, <1>4, <1>5, <1>6, <1>7, <1>7a, <1>7b, <1>8, <1>9, <1>10, <1>11, <1>12,
     <1>13, <1>14, <1>15 DEF Next, Works, Writes, Writers

(* For any catalogue, jobs and lists, the tables, what a thread has read   *)
(* of them and what it still has to store are well-typed.                  *)
THEOREM TypeCorrect == Safety => []TypeOK
<1>1. Typed => TypeOK
  BY DEF Typed
<1>2. QED
  BY <1>1, InitTyped, StepTyped, PTL DEF Safety

-----------------------------------------------------------------------------
(* The tables keep their debts to each other *)

\* What is said of the committed tables holds of the draft that will replace
\* them, which still has the other providers' memberships.
DraftAgrees == ~ stale /\ lock # None => ListedIn(draft) /\ OwnedIn(draft)
DraftKeeps ==
    \A w \in Writers : pc[w] = "write" /\ ~ stale =>
        \A m \in tables.member : m[2] # ProvOf(w, at[w]) => m \in draft.member
Sound == NoDangling /\ PayloadsAgree /\ DraftAgrees /\ DraftKeeps

LEMMA InitSound == Init => Sound
BY ConstantTypes
DEF Init, Sound, NoDangling, PayloadsAgree, DraftAgrees, DraftKeeps, NoStations, NoDanglingIn,
    ListedIn, OwnedIn, Present, Writers

(* What the upsert under way works from.                                   *)
LEMMA Upsert ==
    ASSUME Typed, NEW w \in Writers, pc[w] \in {"begin", "write"}
    PROVE  LET s == Storing(w) IN
           /\ s.list \in Seq(Entry) /\ s.list # <<>> /\ Signed(s.prov, s.list)
           /\ s.prov = ProvOf(w, at[w]) /\ s.prov \in Providers \cup {None}
           /\ Head(s.list) \in Entry /\ Signed(s.prov, <<Head(s.list)>>)
<1>1. Upserting(w) /\ GoodAnswer(w, at[w], answer[w][at[w]])
  BY DEF Typed, Control, ControlOf, Upserting
<1>2. /\ Storing(w).list = answer[w][at[w]] /\ Storing(w).prov = ProvOf(w, at[w])
      /\ ProvOf(w, at[w]) \in Providers \cup {None}
  BY <1>1, ConstantTypes DEF Storing, Upserting
<1>3. QED
  BY <1>1, <1>2 DEF Upserting, GoodAnswer, Lists, Signed

(* A step that writes no table and takes no lock, of a writer that is not  *)
(* in a transaction.                                                       *)
LEMMA Aside ==
    ASSUME Typed, Sound, NEW v, UNCHANGED <<tables, lock, draft, stale>>,
           pc[v] # "write" \/ v \notin Writers, pc'[v] # "write" \/ v \notin Writers,
           \A w \in Writers \ {v} : pc'[w] = pc[w] /\ at'[w] = at[w]
    PROVE  Sound'
BY DEF Sound, NoDangling, PayloadsAgree, DraftAgrees, DraftKeeps, ProvOf

LEMMA BeginSound ==
    ASSUME Typed, Sound, NEW w \in Writers, NEW t \in Tables, NEW rest,
           BeginWith(w, t, rest), pc[w] = "begin", lock = None,
           NoDanglingIn(t),
           seen[w] = tables /\ again[w] = tables /\ ~ stale =>
               /\ ListedIn(t) /\ OwnedIn(t)
               /\ \A m \in tables.member : m[2] # ProvOf(w, at[w]) => m \in t.member
    PROVE  Sound'
<1>1. /\ draft' = t /\ lock' = w /\ tables' = tables /\ at' = at
      /\ stale' = (stale \/ seen[w] # tables \/ again[w] # tables) /\ pc' = [pc EXCEPT ![w] = "write"]
  BY DEF BeginWith, Goto
<1>2. \A v \in Writers : v # w => pc'[v] # "write"
  BY <1>1, ConstantTypes DEF Typed, TypeOK, Control, ControlOf, Holding
<1>3. QED
  BY <1>1, <1>2 DEF Sound, NoDangling, PayloadsAgree, DraftAgrees, DraftKeeps, ProvOf

LEMMA StepSound == Typed /\ Sound /\ [Next]_vars => Sound'
<1> SUFFICES ASSUME Typed, Sound, [Next]_vars PROVE Sound'
  OBVIOUS
<1> USE DEF Goto
<1>0. TypeOK /\ Control
  BY DEF Typed
<1>1. CASE BuildPage
  <2>1. Main \in Writers /\ pc[Main] # "write" /\ pc'[Main] # "write"
    BY <1>0, <1>1 DEF BuildPage, TypeOK, Writers
  <2>2. \A w \in Writers \ {Main} : pc'[w] = pc[w] /\ at'[w] = at[w]
    BY <1>0, <1>1 DEF BuildPage, TypeOK
  <2>3. QED
    BY <1>1, <2>1, <2>2, Aside DEF BuildPage, db
<1>2. CASE Redraw \/ SkipSeed
  <2>1. UNCHANGED <<tables, lock, draft, stale, pc, at>>
    BY <1>2 DEF Redraw, SkipSeed, db
  <2>2. QED
    BY <2>1 DEF Sound, NoDangling, PayloadsAgree, DraftAgrees, DraftKeeps, ProvOf
<1>3. ASSUME NEW j \in Jobs,
             \/ Start(j) \/ RefreshFinished(j) \/ RefreshFailed(j)
             \/ Take(j) \/ Fetched(j) \/ Ends(j) \/ RecordStatus(j) \/ LockTimeout(j)
      PROVE  Sound'
  <2>1. j \in Writers
    BY DEF Writers
  <2>2. pc[j] # "write" /\ UNCHANGED <<tables, lock, draft, stale>>
    BY <1>0, <1>3, <2>1
    DEF Start, RefreshFinished, RefreshFailed, Take, Fetched, Ends, RecordStatus, LockTimeout,
        Waiting, Control, ControlOf, db, page
  <2>3. pc'[j] # "write" /\ \A w \in Writers \ {j} : pc'[w] = pc[w] /\ at'[w] = at[w]
    BY <1>0, <1>3, <2>1, <2>2
    DEF Start, RefreshFinished, RefreshFailed, Take, Fetched, Ends, RecordStatus, LockTimeout,
        TypeOK, db, page
  <2>4. QED
    BY <2>1, <2>2, <2>3, Aside
<1>4. ASSUME NEW w \in Writers, Look(w) \/ LookAgain(w) \/ LookByDomes(w) PROVE Sound'
  <2>1. pc[w] # "write" /\ UNCHANGED <<tables, lock, draft, stale>>
    BY <1>4 DEF Look, LookAgain, LookByDomes, db
  <2>2. pc'[w] # "write" /\ \A v \in Writers \ {w} : pc'[v] = pc[v] /\ at'[v] = at[v]
    BY <1>0, <1>4 DEF Look, LookAgain, LookByDomes, TypeOK
  <2>3. QED
    BY <2>1, <2>2, Aside
<1>5. ASSUME NEW w \in Writers, BeginPrune(w) PROVE Sound'
  <2> DEFINE s == Storing(w)
  <2>1. PICK first \in Outdated(w) :
          BeginWith(w, Prune(tables, seen[w], again[w], s.prov, s.net, Publishes(s.list), first), s.list)
    BY <1>5 DEF BeginPrune
  <2> DEFINE t == Prune(tables, seen[w], again[w], s.prov, s.net, Publishes(s.list), first)
  <2>2. /\ pc[w] = "begin" /\ lock = None
        /\ tables \in Tables /\ seen[w] \in Tables /\ again[w] \in Tables
    BY <1>0, <1>5 DEF BeginPrune, TypeOK
  <2>3. s.prov \in Providers /\ s.prov = ProvOf(w, at[w])
    <3>1. s.prov # None
      BY <2>1 DEF Outdated, Replaces
    <3>2. QED
      BY <2>2, <3>1, Upsert
  <2>4. t \in Tables /\ NoDanglingIn(t)
    BY <2>2, PruneType, PruneNoDangling DEF Sound, NoDangling
  <2>5. seen[w] = tables /\ again[w] = tables /\ ~ stale =>
          /\ ListedIn(t) /\ OwnedIn(t)
          /\ \A m \in tables.member : m[2] # ProvOf(w, at[w]) => m \in t.member
    BY <2>2, <2>3, PruneAgrees DEF Sound, NoDangling, PayloadsAgree
  <2>6. QED
    BY <2>1, <2>2, <2>4, <2>5, BeginSound
<1>6. ASSUME NEW w \in Writers, BeginStore(w) PROVE Sound'
  <2> DEFINE s == Storing(w)
             e == Head(s.list)
  <2>1. PICK i \in Targets(again[w], e) :
          BeginWith(w, Store(tables, i, Merged(again[w], i, e, s.prov), s.prov), Tail(s.list))
    BY <1>6 DEF BeginStore
  <2> DEFINE row == Merged(again[w], i, e, s.prov)
             t == Store(tables, i, row, s.prov)
  <2>2. /\ pc[w] = "begin" /\ lock = None
        /\ tables \in Tables /\ seen[w] \in Tables /\ again[w] \in Tables
    BY <1>0, <1>6 DEF BeginStore, TypeOK
  <2>3. /\ e \in Entry /\ s.prov \in Providers \cup {None}
        /\ Signed(s.prov, <<e>>)
    BY <2>2, Upsert
  <2>4. i \in Ids /\ row \in Station
    BY <2>1, <2>2, <2>3, TargetsType, MergedType
  <2>5. t \in Tables /\ NoDanglingIn(t)
    BY <2>2, <2>3, <2>4, StoreType, StoreNoDangling DEF Sound, NoDangling
  <2>6. again[w] = tables /\ ~ stale => ListedIn(t) /\ OwnedIn(t)
    BY <2>2, <2>3, <2>4, StoreAgrees DEF Sound, NoDangling, PayloadsAgree
  <2>7. \A m \in tables.member : m \in t.member
    BY DEF Store
  <2>8. QED
    BY <2>1, <2>2, <2>5, <2>6, <2>7, BeginSound
<1>7. ASSUME NEW w \in Writers, StoreNext(w) PROVE Sound'
  <2> DEFINE e == Head(left[w])
             p == Storing(w).prov
  <2>1. PICK i \in Targets(draft, e) : draft' = Store(draft, i, Merged(draft, i, e, p), p)
    BY <1>7 DEF StoreNext
  <2>2. /\ pc[w] = "write" /\ left[w] # <<>> /\ UNCHANGED <<tables, lock, pc, at, stale>>
        /\ left[w] \in Seq(Entry) /\ draft \in Tables /\ lock # None
    BY <1>0, <1>7, ConstantTypes DEF StoreNext, TypeOK, Lists, Control, ControlOf, Holding
  <2>3. p \in Providers \cup {None} /\ p = ProvOf(w, at[w]) /\ Signed(p, left[w])
    BY <1>0, <2>2, Upsert DEF Control, ControlOf
  <2>4. e \in Entry /\ Signed(p, <<e>>)
    BY <2>2, <2>3 DEF Signed
  <2>5. i \in Ids /\ Merged(draft, i, e, p) \in Station
    BY <2>1, <2>2, <2>4, TargetsType, MergedType
  <2>6. NoDanglingIn(draft')
    BY <2>1, <2>2, <2>5, StoreNoDangling DEF Sound, NoDangling
  <2>7. ~ stale => ListedIn(draft') /\ OwnedIn(draft')
    BY <2>1, <2>2, <2>3, <2>4, <2>5, StoreAgrees DEF Sound, NoDangling, DraftAgrees
  <2>8. \A m \in draft.member : m \in draft'.member
    BY <2>1 DEF Store
  <2>9. QED
    BY <2>2, <2>6, <2>7, <2>8
    DEF Sound, NoDangling, PayloadsAgree, DraftAgrees, DraftKeeps, ProvOf
<1>8. ASSUME NEW w \in Writers, Commit(w) PROVE Sound'
  <2>1. /\ pc[w] = "write" /\ pc' = [pc EXCEPT ![w] = "next"]
        /\ tables' = draft /\ lock' = None /\ stale' = stale
    BY <1>8 DEF Commit
  <2>2. lock = w /\ w # None /\ \A v \in Writers : pc'[v] # "write"
    BY <1>0, <2>1, ConstantTypes DEF TypeOK, Control, ControlOf, Holding
  <2>3. QED
    BY <2>1, <2>2 DEF Sound, NoDangling, PayloadsAgree, DraftAgrees, DraftKeeps
<1>9. ASSUME NEW p \in Providers, Ages(p) PROVE Sound'
  <2>1. UNCHANGED <<tables, lock, draft, stale, pc, at>>
    BY <1>9 DEF Ages
  <2>2. QED
    BY <2>1 DEF Sound, NoDangling, PayloadsAgree, DraftAgrees, DraftKeeps, ProvOf
<1>10. CASE Crash
  <2>1. /\ tables' = tables /\ stale' = stale /\ lock' = None
        /\ \A w \in Writers : pc'[w] # "write"
    BY <1>10 DEF Crash
  <2>2. QED
    BY <2>1 DEF Sound, NoDangling, PayloadsAgree, DraftAgrees, DraftKeeps
<1>11. CASE UNCHANGED vars
  <2>1. UNCHANGED <<tables, lock, draft, stale, pc, at>>
    BY <1>11 DEF vars, db
  <2>2. QED
    BY <2>1 DEF Sound, NoDangling, PayloadsAgree, DraftAgrees, DraftKeeps, ProvOf
<1>12. QED
  BY <1>1, <1>2, <1>3, <1>4, <1>5, <1>6, <1>7, <1>8, <1>9, <1>10, <1>11
  DEF Next, Works, Writes, Writers

(* Whatever threads refresh what, wherever they are interrupted and        *)
(* however stale what they read was, every name and every listed provider  *)
(* belongs to a station of the catalogue.                                  *)
THEOREM NothingDangles == Safety => []NoDangling
<1>1. Typed /\ Sound => NoDangling
  BY DEF Sound
<1>2. QED
  BY <1>1, InitTyped, StepTyped, InitSound, StepSound, PTL DEF Safety

(* Without a stale read, the payloads, the provider table and the names    *)
(* agree after any sequence of refreshes, merges, prunes and restarts; the *)
(* built-in list, which no payload names, is in the table alone.           *)
THEOREM PayloadsAlwaysAgree == Safety => []PayloadsAgree
<1>1. Typed /\ Sound => PayloadsAgree
  BY DEF Sound
<1>2. QED
  BY <1>1, InitTyped, StepTyped, InitSound, StepSound, PTL DEF Safety

(* Without a stale read, storing a list of one provider leaves every other *)
(* provider on every station it is listed on, in the table and (but for    *)
(* the built-in list) in the payload.                                      *)
THEOREM OthersAlwaysUntouched == Safety => OthersUntouched
<1> DEFINE Untouched(w) ==
        Commit(w) /\ ~ stale =>
            \A m \in tables.member : m[2] # Storing(w).prov =>
                /\ m \in tables'.member
                /\ m[2] = Builtin \/ m[2] \in tables'.rows[m[1]].provs
<1>1. ASSUME Typed, Sound, NEW w \in Writers PROVE Untouched(w)
  <2> SUFFICES ASSUME Commit(w), ~ stale, NEW m \in tables.member, m[2] # Storing(w).prov
               PROVE  /\ m \in tables'.member
                      /\ m[2] = Builtin \/ m[2] \in tables'.rows[m[1]].provs
    OBVIOUS
  <2>1. pc[w] = "write" /\ tables' = draft /\ lock = w /\ lock # None
    BY <1>1, ConstantTypes DEF Commit, Typed, Control, ControlOf, Holding
  <2>2. Storing(w).prov = ProvOf(w, at[w])
    BY <1>1, <2>1, Upsert
  <2>3. m \in draft.member
    BY <1>1, <2>1, <2>2 DEF Sound, DraftKeeps
  <2>4. m = <<m[1], m[2]>> /\ m[2] \in Providers /\ m[1] \in Present(draft)
    BY <1>1, <2>1, <2>3 DEF Typed, TypeOK, Tables, Sound, NoDangling, NoDanglingIn
  <2>5. draft.rows[m[1]].provs = Holders(draft, m[1]) \ {Builtin}
    BY <1>1, <2>1, <2>4 DEF Sound, DraftAgrees, ListedIn
  <2>6. QED
    BY <2>1, <2>3, <2>4, <2>5 DEF Holders
<1>2. Typed /\ Sound => \A w \in Writers : Untouched(w)
  BY <1>1
<1>3. Typed /\ Sound => [\A w \in Writers : Untouched(w)]_vars
  BY <1>2
<1>4. QED
  BY <1>3, InitTyped, StepTyped, InitSound, StepSound, PTL DEF Safety, OthersUntouched


-----------------------------------------------------------------------------
(* The page shows what is committed *)

(* Whenever no refresh is under way and none has failed since the page     *)
(* last read the catalogue, its rows are the committed ones: whatever is   *)
(* committed later than start-up is committed by a job whose key is still  *)
(* in _catalog_refreshing, and the slot that drops the key reads again.    *)
LEMMA InitQuiet == Init => QuietPageCurrent
BY DEF Init, QuietPageCurrent, NoStations

LEMMA StepQuiet == Typed /\ QuietPageCurrent /\ [Next]_vars => QuietPageCurrent'
<1> SUFFICES ASSUME Typed, QuietPageCurrent, [Next]_vars PROVE QuietPageCurrent'
  OBVIOUS
<1> USE DEF Goto
<1>0. TypeOK /\ Control /\ Main \notin Jobs
  BY JobsAssumption DEF Typed
<1>1. CASE BuildPage \/ Redraw
  BY <1>1 DEF BuildPage, Redraw, QuietPageCurrent, db
<1>2. ASSUME NEW j \in Jobs, Start(j) PROVE QuietPageCurrent'
  BY <1>2 DEF Start, QuietPageCurrent
<1>3. ASSUME NEW j \in Jobs, RefreshFinished(j) PROVE QuietPageCurrent'
  BY <1>3 DEF RefreshFinished, QuietPageCurrent, db
<1>4. ASSUME NEW j \in Jobs, RefreshFailed(j) PROVE QuietPageCurrent'
  BY <1>4 DEF RefreshFailed, QuietPageCurrent
<1>5. ASSUME NEW j \in Jobs,
             Take(j) \/ Fetched(j) \/ Ends(j) \/ RecordStatus(j) \/ LockTimeout(j)
      PROVE  QuietPageCurrent'
  <2>1. pc'[Main] = pc[Main]
    BY <1>0, <1>5 DEF TypeOK, Writers, Take, Fetched, Ends, RecordStatus, LockTimeout
  <2>2. UNCHANGED <<tables, refreshing, shown, aborted>>
    BY <1>5 DEF Take, Fetched, Ends, RecordStatus, LockTimeout, db, page
  <2>3. QED
    BY <2>1, <2>2 DEF QuietPageCurrent, Ready
<1>6. ASSUME NEW w \in Writers,
             \/ Look(w) \/ LookAgain(w) \/ LookByDomes(w)
             \/ BeginPrune(w) \/ BeginStore(w) \/ StoreNext(w)
      PROVE  QuietPageCurrent'
  <2>1. UNCHANGED <<tables, refreshing, shown, aborted>>
    BY <1>6 DEF Look, LookAgain, LookByDomes, BeginPrune, BeginStore, BeginWith, StoreNext,
                db, page
  <2>2. \/ pc' = pc
        \/ \E where \in {"look", "domes", "begin", "write"} : pc' = [pc EXCEPT ![w] = where]
    BY <1>6 DEF Look, LookAgain, LookByDomes, BeginPrune, BeginStore, BeginWith, StoreNext
  <2>3. Ready' => Ready
    BY <1>0, <2>2 DEF Ready, TypeOK, Writers
  <2>4. QED
    BY <2>1, <2>3 DEF QuietPageCurrent
<1>7. ASSUME NEW w \in Writers, Commit(w) PROVE QuietPageCurrent'
  <2>1. pc[w] = "write" /\ pc' = [pc EXCEPT ![w] = "next"] /\ UNCHANGED <<refreshing, aborted>>
    BY <1>7 DEF Commit, page
  <2>2. CASE w = Main
    BY <1>0, <2>1, <2>2 DEF QuietPageCurrent, Ready, TypeOK, Writers
  <2>3. CASE w # Main
    <3>1. w \in refreshing
      BY <1>0, <2>1, <2>3 DEF Writers, Control, ControlOf
    <3>2. QED
      BY <2>1, <3>1 DEF QuietPageCurrent
  <2>4. QED
    BY <2>2, <2>3
<1>8. ASSUME NEW p \in Providers, Ages(p) PROVE QuietPageCurrent'
  BY <1>8 DEF Ages, QuietPageCurrent, Ready, page
<1>8a. CASE SkipSeed
  BY <1>8a DEF SkipSeed, QuietPageCurrent, Ready, db, page
<1>9. CASE Crash
  BY <1>9 DEF Crash, QuietPageCurrent, Ready, Writers
<1>10. CASE UNCHANGED vars
  BY <1>10 DEF vars, db, page, QuietPageCurrent, Ready
<1>11. QED
  BY <1>1, <1>2, <1>3, <1>4, <1>5, <1>6, <1>7, <1>8, <1>8a, <1>9, <1>10
  DEF Next, Works, Writes, Writers

(* With any number of refreshes, threads, failures and restarts: when none *)
(* is under way and none has failed unseen, the page and its map show the  *)
(* committed stations.                                                     *)
THEOREM PageIsCurrent == Safety => []QuietPageCurrent
<1>1. QED
  BY InitTyped, StepTyped, InitQuiet, StepQuiet, PTL DEF Safety


-----------------------------------------------------------------------------
(* A provider's list is stored exactly *)

LEMMA TailMembers ==
    ASSUME NEW S, NEW s \in Seq(S), s # <<>>
    PROVE  /\ \E k \in DOMAIN s : s[k] = Head(s)
           /\ \A k \in DOMAIN s :
                  s[k] = Head(s) \/ \E m \in DOMAIN Tail(s) : Tail(s)[m] = s[k]
           /\ \A m \in DOMAIN Tail(s) : \E k \in DOMAIN s : Tail(s)[m] = s[k]
<1>1. Len(s) \in Nat \ {0} /\ DOMAIN s = 1..Len(s) /\ Head(s) = s[1]
  OBVIOUS
<1>2. /\ DOMAIN Tail(s) = 1..(Len(s) - 1)
      /\ \A m \in DOMAIN Tail(s) : Tail(s)[m] = s[m + 1]
  BY <1>1
<1>3. 1 \in DOMAIN s
  BY <1>1
<1>4. ASSUME NEW k \in DOMAIN s, k # 1
      PROVE  \E m \in DOMAIN Tail(s) : Tail(s)[m] = s[k]
  <2>1. k - 1 \in DOMAIN Tail(s) /\ (k - 1) + 1 = k
    BY <1>1, <1>2, <1>4
  <2>2. QED
    BY <1>2, <2>1
<1>5. ASSUME NEW m \in DOMAIN Tail(s)
      PROVE  \E k \in DOMAIN s : Tail(s)[m] = s[k]
  <2>1. m + 1 \in DOMAIN s
    BY <1>1, <1>2, <1>5
  <2>2. QED
    BY <1>2, <2>1
<1>6. QED
  BY <1>1, <1>3, <1>4, <1>5

\* The rows that list p are rows the stations of the list belong to.
ListedOnly(t, p, list) ==
    \A i \in Ids : p \in Holders(t, i) =>
        \E k \in DOMAIN list : i = list[k].id \/ i \in SameDomes(t, list[k])

\* A station of the list is stored: a row of p carries its id, which is an
\* alias, and the row of that very id, if there is one, lists p.
Stored(t, p, e) ==
    /\ \E i \in Present(t) : p \in Holders(t, i) /\ e.id \in t.rows[i].names
    /\ t.owner[e.id] # None
    /\ e.id \in Present(t) => p \in Holders(t, e.id)

\* How far a transaction has come that still has to store rest.
Progress(t, p, list, rest) ==
    /\ ListedOnly(t, p, list)
    /\ \A m \in DOMAIN rest : \E k \in DOMAIN list : rest[m] = list[k]
    /\ \A k \in DOMAIN list :
           (\E m \in DOMAIN rest : rest[m] = list[k]) \/ Stored(t, p, list[k])

\* The SELECTs found the rows of p: after the prune only the list's are left.
LEMMA PrunedOnly ==
    ASSUME NEW t \in Tables, NEW p \in Providers, NEW n, NEW first, NoDanglingIn(t),
           NEW list
    PROVE  ListedOnly(Prune(t, t, t, p, n, Publishes(list), first), p, list)
<1> DEFINE keep == Publishes(list)
           t2 == Prune(t, t, t, p, n, keep, first)
<1>1. ASSUME NEW i \in Ids, p \in Holders(t2, i)
      PROVE  \E k \in DOMAIN list : i = list[k].id
  <2>1. <<i, p>> \in t.member /\ i \notin Victims(t, p, keep)
    BY <1>1 DEF Prune, Holders
  <2>2. i \in Present(t) /\ p \in Holders(t, i)
    BY <2>1 DEF NoDanglingIn, Holders
  <2>3. i \in keep
    BY <2>1, <2>2 DEF Victims
  <2>4. QED
    BY <2>3 DEF Publishes
<1>2. QED
  BY <1>1 DEF ListedOnly

LEMMA NothingToPrune ==
    ASSUME NEW t \in Tables, NEW p \in Providers, NoDanglingIn(t), NEW list,
           Victims(t, p, Publishes(list)) = {}
    PROVE  ListedOnly(t, p, list)
<1>1. ASSUME NEW i \in Ids, p \in Holders(t, i)
      PROVE  \E k \in DOMAIN list : i = list[k].id
  <2>1. i \in Present(t)
    BY <1>1 DEF NoDanglingIn, Holders
  <2>2. i \in Publishes(list)
    BY <1>1, <2>1 DEF Victims
  <2>3. QED
    BY <2>2 DEF Publishes
<1>2. QED
  BY <1>1 DEF ListedOnly

\* What storing e writes, beside the rows and names it leaves alone.
LEMMA StoreWrites ==
    ASSUME NEW t \in Tables, NEW i \in Ids, NEW e \in Entry, NEW p \in Providers
    PROVE  LET row == Merged(t, i, e, p)
               t2 == Store(t, i, row, p)
           IN  /\ Present(t2) = Present(t) \cup {i}
               /\ p \in Holders(t2, i)
               /\ \A j \in Ids : Holders(t, j) \subseteq Holders(t2, j)
               /\ \A j \in Ids : j # i => t2.rows[j] = t.rows[j] /\ Holders(t2, j) = Holders(t, j)
               /\ t2.rows[i] = row /\ e.id \in row.names
               /\ i \in Present(t) => t.rows[i].names \subseteq row.names
               /\ \A a \in Names : t.owner[a] # None => t2.owner[a] # None
               /\ t2.owner[e.id] # None
<1> DEFINE row == Merged(t, i, e, p)
           t2 == Store(t, i, row, p)
<1>1. row \in Station /\ e.id \in Ids /\ e.id \in Names /\ i # None
  BY MergedType, NoneAssumption DEF Entry, Names
<1>2. Present(t2) = Present(t) \cup {i}
  BY <1>1, StorePresent
<1>3. /\ t2.rows = [t.rows EXCEPT ![i] = row]
      /\ t2.owner = [a \in Names |-> IF a \in row.names /\ t.owner[a] = None
                                      THEN i ELSE t.owner[a]]
      /\ t2.member = t.member \cup ({i} \X (row.provs \cup ({p} \ {None})))
      /\ t.rows \in [Ids -> Station \cup {None}]
  BY DEF Store, Tables
<1>4. e.id \in row.names /\ (i \in Present(t) => t.rows[i].names \subseteq row.names)
  BY DEF Merged, Merge, Entry, Station
<1>5. p # None
  BY NoneAssumption
<1> HIDE DEF row, t2
<1>6. p \in Holders(t2, i)
  BY <1>3, <1>5 DEF Holders
<1>7. \A j \in Ids : Holders(t, j) \subseteq Holders(t2, j)
  BY <1>3 DEF Holders
<1>8. \A j \in Ids : j # i => t2.rows[j] = t.rows[j] /\ Holders(t2, j) = Holders(t, j)
  BY <1>3 DEF Holders
<1>9. t2.rows[i] = row
  BY <1>3
<1>10. \A a \in Names : t.owner[a] # None => t2.owner[a] # None
  BY <1>1, <1>3
<1>11. t2.owner[e.id] # None
  BY <1>1, <1>3, <1>4
<1>12. QED
  BY <1>2, <1>4, <1>6, <1>7, <1>8, <1>9, <1>10, <1>11 DEF row, t2

\* A row that is found by the DOMES number of a station keeps that number.
LEMMA SameDomesStays ==
    ASSUME NEW t \in Tables, NEW e \in Entry, NEW i \in SameDomes(t, e), NEW p
    PROVE  Merged(t, i, e, p).domes = e.about.domes
BY DEF SameDomes, Merged, Merge, Filled, Entry, Station

LEMMA StoreKeepsListed ==
    ASSUME NEW t \in Tables, NEW e \in Entry, NEW i \in Targets(t, e), NEW p \in Providers,
           NEW list, ListedOnly(t, p, list), NEW c \in DOMAIN list, list[c] = e
    PROVE  ListedOnly(Store(t, i, Merged(t, i, e, p), p), p, list)
<1> DEFINE row == Merged(t, i, e, p)
           t2 == Store(t, i, row, p)
<1>0. i \in Ids
  BY TargetsType
<1>1. /\ Present(t2) = Present(t) \cup {i} /\ t2.rows[i] = row
      /\ \A j \in Ids : j # i => t2.rows[j] = t.rows[j] /\ Holders(t2, j) = Holders(t, j)
  BY <1>0, StoreWrites
<1>2. i = e.id \/ i \in SameDomes(t, e)
  BY DEF Targets
<1>3. i \in SameDomes(t, e) => row.domes = e.about.domes
  BY SameDomesStays
<1> HIDE DEF row, t2
<1>4. i = e.id \/ i \in SameDomes(t2, e)
  BY <1>0, <1>1, <1>2, <1>3 DEF SameDomes
<1>5. ASSUME NEW j \in Ids, p \in Holders(t2, j), j # i
      PROVE  \E k \in DOMAIN list : j = list[k].id \/ j \in SameDomes(t2, list[k])
  <2>1. PICK k \in DOMAIN list : j = list[k].id \/ j \in SameDomes(t, list[k])
    BY <1>1, <1>5 DEF ListedOnly
  <2>2. j \in SameDomes(t, list[k]) => j \in SameDomes(t2, list[k])
    BY <1>1, <1>5 DEF SameDomes
  <2>3. QED
    BY <2>1, <2>2
<1>6. QED
  BY <1>4, <1>5 DEF ListedOnly, t2, row

LEMMA StoreKeepsStored ==
    ASSUME NEW t \in Tables, NEW e \in Entry, NEW i \in Ids, NEW p \in Providers,
           NEW f \in Entry, Stored(t, p, f)
    PROVE  Stored(Store(t, i, Merged(t, i, e, p), p), p, f)
<1> DEFINE row == Merged(t, i, e, p)
           t2 == Store(t, i, row, p)
<1>1. /\ Present(t2) = Present(t) \cup {i} /\ p \in Holders(t2, i) /\ t2.rows[i] = row
      /\ \A j \in Ids : Holders(t, j) \subseteq Holders(t2, j)
      /\ \A j \in Ids : j # i => t2.rows[j] = t.rows[j]
      /\ i \in Present(t) => t.rows[i].names \subseteq row.names
      /\ \A a \in Names : t.owner[a] # None => t2.owner[a] # None
  BY StoreWrites
<1> HIDE DEF row, t2
<1>2. f.id \in Ids /\ f.id \in Names
  BY DEF Entry, Names
<1>3. PICK j \in Present(t) : p \in Holders(t, j) /\ f.id \in t.rows[j].names
  BY DEF Stored
<1>4. j \in Ids /\ j \in Present(t2) /\ p \in Holders(t2, j) /\ f.id \in t2.rows[j].names
  BY <1>1, <1>3 DEF Present
<1>5. f.id \in Present(t2) => p \in Holders(t2, f.id)
  BY <1>1, <1>2 DEF Stored
<1>6. QED
  BY <1>1, <1>2, <1>4, <1>5 DEF Stored, t2, row

LEMMA StoreStores ==
    ASSUME NEW t \in Tables, NEW e \in Entry, NEW i \in Targets(t, e), NEW p \in Providers
    PROVE  Stored(Store(t, i, Merged(t, i, e, p), p), p, e)
<1> DEFINE row == Merged(t, i, e, p)
           t2 == Store(t, i, row, p)
<1>0. i \in Ids
  BY TargetsType
<1>1. /\ Present(t2) = Present(t) \cup {i} /\ p \in Holders(t2, i)
      /\ t2.rows[i] = row /\ e.id \in row.names /\ t2.owner[e.id] # None
  BY <1>0, StoreWrites
<1>2. e.id \in Present(t) => i = e.id
  BY DEF Targets
<1> HIDE DEF row, t2
<1>3. e.id \in Present(t2) => p \in Holders(t2, e.id)
  BY <1>1, <1>2
<1>4. QED
  BY <1>0, <1>1, <1>3 DEF Stored, t2, row

\* One station of the list stored: the head of what is left.
LEMMA StoreProgress ==
    ASSUME NEW t \in Tables, NEW p \in Providers, NEW list \in Seq(Entry),
           NEW rest \in Seq(Entry), rest # <<>>, Progress(t, p, list, rest),
           NEW i \in Targets(t, Head(rest))
    PROVE  Progress(Store(t, i, Merged(t, i, Head(rest), p), p), p, list, Tail(rest))
<1> DEFINE e == Head(rest)
           t2 == Store(t, i, Merged(t, i, e, p), p)
<1>1. /\ \E m \in DOMAIN rest : rest[m] = e
      /\ \A m \in DOMAIN rest : rest[m] = e \/ \E l \in DOMAIN Tail(rest) : Tail(rest)[l] = rest[m]
      /\ \A m \in DOMAIN Tail(rest) : \E l \in DOMAIN rest : Tail(rest)[m] = rest[l]
  BY TailMembers
<1>2. e \in Entry /\ i \in Ids
  <2>1. e \in Entry
    OBVIOUS
  <2>2. QED
    BY <2>1, TargetsType
<1>3. PICK c \in DOMAIN list : list[c] = e
  BY <1>1 DEF Progress
<1>4. ListedOnly(t2, p, list)
  BY <1>2, <1>3, StoreKeepsListed DEF Progress
<1>5. Stored(t2, p, e)
  BY <1>2, StoreStores
<1>6. \A f \in Entry : Stored(t, p, f) => Stored(t2, p, f)
  BY <1>2, StoreKeepsStored
<1> HIDE DEF t2, e
<1>7. ASSUME NEW k \in DOMAIN list
      PROVE  (\E m \in DOMAIN Tail(rest) : Tail(rest)[m] = list[k]) \/ Stored(t2, p, list[k])
  <2>1. list[k] \in Entry
    OBVIOUS
  <2>2. CASE Stored(t, p, list[k])
    BY <2>1, <2>2, <1>6
  <2>3. CASE \E m \in DOMAIN rest : rest[m] = list[k]
    BY <2>3, <1>1, <1>5
  <2>4. QED
    BY <2>2, <2>3 DEF Progress
<1>8. \A m \in DOMAIN Tail(rest) : \E k \in DOMAIN list : Tail(rest)[m] = list[k]
  BY <1>1 DEF Progress
<1>9. QED
  BY <1>4, <1>7, <1>8 DEF Progress, t2, e


\* The transaction of a list that replaces what its provider had.
ListingOf(w) ==
    pc[w] = "write" /\ ~ stale /\ Replaces(w) =>
        Progress(draft, Storing(w).prov, Storing(w).list, left[w])
Listing == \A w \in Writers : ListingOf(w)

LEMMA InitListing == Init => Listing
BY DEF Init, Listing, ListingOf

(* A step that leaves the transactions under way alone.                    *)
LEMMA ListingAside ==
    ASSUME Listing, UNCHANGED <<draft, stale, left>>,
           \A w \in Writers : pc'[w] = "write" =>
               pc[w] = "write" /\ at'[w] = at[w] /\ answer'[w] = answer[w]
    PROVE  Listing'
<1>1. ASSUME NEW w \in Writers, pc'[w] = "write"
      PROVE  Storing(w)' = Storing(w)
  BY <1>1 DEF Storing, ProvOf, NetOf
<1>2. ASSUME NEW w \in Writers PROVE ListingOf(w)'
  BY <1>1, <1>2 DEF Listing, ListingOf, Replaces
<1>3. QED
  BY <1>2 DEF Listing

(* The first write of a transaction; nobody else is in one.                *)
LEMMA BeginListing ==
    ASSUME Typed, NEW w \in Writers, NEW t, NEW rest,
           BeginWith(w, t, rest), pc[w] = "begin", lock = None,
           seen[w] = tables /\ again[w] = tables /\ ~ stale /\ Replaces(w) =>
               Progress(t, Storing(w).prov, Storing(w).list, rest)
    PROVE  Listing'
<1>1. /\ draft' = t /\ left' = [left EXCEPT ![w] = rest] /\ pc' = [pc EXCEPT ![w] = "write"]
      /\ stale' = (stale \/ seen[w] # tables \/ again[w] # tables) /\ at' = at /\ answer' = answer
  BY DEF BeginWith, Goto, job
<1>2. \A v \in Writers : v # w => pc'[v] # "write"
  BY <1>1, ConstantTypes DEF Typed, TypeOK, Control, ControlOf, Holding
<1>3. left'[w] = rest
  BY <1>1 DEF Typed, TypeOK
<1>4. Storing(w)' = Storing(w)
  BY <1>1 DEF Storing, ProvOf, NetOf
<1>5. ListingOf(w)'
  BY <1>1, <1>3, <1>4 DEF ListingOf, Replaces
<1>6. QED
  BY <1>2, <1>5 DEF Listing, ListingOf

LEMMA StepListing == Typed /\ Sound /\ Listing /\ [Next]_vars => Listing'
<1> SUFFICES ASSUME Typed, Sound, Listing, [Next]_vars PROVE Listing'
  OBVIOUS
<1> USE DEF Goto
<1>0. TypeOK /\ Control /\ Main \in Writers
  BY DEF Typed, Writers
<1>1. CASE BuildPage \/ Redraw
  <2>1. UNCHANGED <<draft, stale, left, at, answer>>
    BY <1>1 DEF BuildPage, Redraw, db, job
  <2>2. \A w \in Writers : pc'[w] = "write" => pc[w] = "write"
    BY <1>0, <1>1 DEF BuildPage, Redraw, TypeOK
  <2>3. QED
    BY <2>1, <2>2, ListingAside
<1>2. ASSUME NEW j \in Jobs,
             \/ Start(j) \/ RefreshFinished(j) \/ RefreshFailed(j)
             \/ Take(j) \/ Fetched(j) \/ Ends(j) \/ RecordStatus(j) \/ LockTimeout(j)
      PROVE  Listing'
  <2>1. j \in Writers
    BY DEF Writers
  <2>2. UNCHANGED <<draft, stale, left>>
    BY <1>2
    DEF Start, RefreshFinished, RefreshFailed, Take, Fetched, Ends, RecordStatus, LockTimeout, db
  <2>3. pc[j] # "write" /\ pc'[j] # "write" /\ \A w \in Writers \ {j} : pc'[w] = pc[w]
    <3>1. pc[j] # "write"
      BY <1>0, <1>2, <2>1
      DEF Start, RefreshFinished, RefreshFailed, Take, Fetched, Ends, RecordStatus, LockTimeout,
          Waiting, Control, ControlOf
    <3>2. QED
      BY <1>0, <1>2, <2>1, <3>1
      DEF Start, RefreshFinished, RefreshFailed, Take, Fetched, Ends, RecordStatus, LockTimeout,
          TypeOK
  <2>4. \A w \in Writers \ {j} : at'[w] = at[w] /\ answer'[w] = answer[w]
    BY <1>0, <1>2, <2>1
    DEF Start, RefreshFinished, RefreshFailed, Take, Fetched, Ends, RecordStatus, LockTimeout,
        TypeOK, job
  <2>5. QED
    BY <2>2, <2>3, <2>4, ListingAside
<1>3. ASSUME NEW w \in Writers, Look(w) \/ LookAgain(w) \/ LookByDomes(w) PROVE Listing'
  <2>1. UNCHANGED <<draft, stale, left, answer>>
    BY <1>3 DEF Look, LookAgain, LookByDomes, db, job
  <2>2. pc'[w] # "write" /\ \A v \in Writers \ {w} : pc'[v] = pc[v] /\ at'[v] = at[v]
    BY <1>0, <1>3 DEF Look, LookAgain, LookByDomes, TypeOK
  <2>3. QED
    BY <2>1, <2>2, ListingAside
<1>4. ASSUME NEW w \in Writers, BeginPrune(w) PROVE Listing'
  <2> DEFINE s == Storing(w)
  <2>1. PICK first \in Outdated(w) :
          BeginWith(w, Prune(tables, seen[w], again[w], s.prov, s.net, Publishes(s.list), first), s.list)
    BY <1>4 DEF BeginPrune
  <2> DEFINE t == Prune(tables, seen[w], again[w], s.prov, s.net, Publishes(s.list), first)
  <2>2. pc[w] = "begin" /\ lock = None /\ tables \in Tables
    BY <1>0, <1>4 DEF BeginPrune, TypeOK
  <2>3. s.prov \in Providers
    <3>1. s.prov # None
      BY <2>1 DEF Outdated, Replaces
    <3>2. QED
      BY <2>2, <3>1, Upsert
  <2>4. seen[w] = tables /\ again[w] = tables => ListedOnly(t, s.prov, s.list)
    BY <2>2, <2>3, PrunedOnly DEF Sound, NoDangling
  <2>5. seen[w] = tables /\ again[w] = tables => Progress(t, s.prov, s.list, s.list)
    BY <2>4 DEF Progress
  <2>6. QED
    BY <2>1, <2>2, <2>5, BeginListing
<1>5. ASSUME NEW w \in Writers, BeginStore(w) PROVE Listing'
  <2> DEFINE s == Storing(w)
             e == Head(s.list)
  <2>1. PICK i \in Targets(again[w], e) :
          BeginWith(w, Store(tables, i, Merged(again[w], i, e, s.prov), s.prov), Tail(s.list))
    BY <1>5 DEF BeginStore
  <2>2. pc[w] = "begin" /\ lock = None /\ tables \in Tables /\ Outdated(w) = {}
    BY <1>0, <1>5 DEF BeginStore, TypeOK
  <2>3. /\ s.list \in Seq(Entry) /\ s.list # <<>> /\ s.prov \in Providers \cup {None}
    BY <2>2, Upsert
  <2>4. ASSUME seen[w] = tables, again[w] = tables, Replaces(w)
        PROVE  Progress(Store(tables, i, Merged(tables, i, e, s.prov), s.prov),
                        s.prov, s.list, Tail(s.list))
    <3>1. s.prov \in Providers /\ Victims(tables, s.prov, Publishes(s.list)) = {}
      BY <2>2, <2>3, <2>4 DEF Outdated, Replaces
    <3>2. ListedOnly(tables, s.prov, s.list)
      BY <2>2, <3>1, NothingToPrune DEF Sound, NoDangling
    <3>3. Progress(tables, s.prov, s.list, s.list)
      BY <3>2 DEF Progress
    <3>4. i \in Targets(tables, Head(s.list))
      BY <2>1, <2>4
    <3>5. QED
      BY <2>2, <2>3, <3>1, <3>3, <3>4, StoreProgress
  <2>5. QED
    BY <2>1, <2>2, <2>4, BeginListing
<1>6. ASSUME NEW w \in Writers, StoreNext(w) PROVE Listing'
  <2> DEFINE e == Head(left[w])
             p == Storing(w).prov
  <2>1. PICK i \in Targets(draft, e) : draft' = Store(draft, i, Merged(draft, i, e, p), p)
    BY <1>6 DEF StoreNext
  <2>2. /\ pc[w] = "write" /\ left[w] # <<>> /\ UNCHANGED <<pc, at, answer, stale>>
        /\ left' = [left EXCEPT ![w] = Tail(@)]
        /\ left[w] \in Seq(Entry) /\ draft \in Tables
    BY <1>0, <1>6 DEF StoreNext, TypeOK, Lists, job
  <2>3. left'[w] = Tail(left[w]) /\ \A v \in Writers \ {w} : pc'[v] # "write"
    BY <1>0, <2>2, ConstantTypes DEF TypeOK, Control, ControlOf, Holding
  <2>4. Storing(w)' = Storing(w)
    BY <2>2 DEF Storing, ProvOf, NetOf
  <2>5. p \in Providers \cup {None} /\ Storing(w).list \in Seq(Entry)
    BY <2>2, Upsert
  <2>6. ASSUME ~ stale, Replaces(w)
        PROVE  Progress(draft', p, Storing(w).list, Tail(left[w]))
    <3>1. p \in Providers /\ Progress(draft, p, Storing(w).list, left[w])
      BY <2>2, <2>5, <2>6 DEF Replaces, Listing, ListingOf
    <3>2. QED
      BY <2>1, <2>2, <2>5, <3>1, StoreProgress
  <2>7. ListingOf(w)'
    BY <2>2, <2>3, <2>4, <2>6 DEF ListingOf, Replaces
  <2>8. QED
    BY <2>3, <2>7 DEF Listing, ListingOf
<1>7. ASSUME NEW w \in Writers, Commit(w) PROVE Listing'
  <2>1. pc[w] = "write" /\ pc' = [pc EXCEPT ![w] = "next"]
    BY <1>7 DEF Commit
  <2>2. \A v \in Writers : pc'[v] # "write"
    BY <1>0, <2>1, ConstantTypes DEF TypeOK, Control, ControlOf, Holding
  <2>3. QED
    BY <2>2 DEF Listing, ListingOf
<1>8. ASSUME NEW p \in Providers, Ages(p) PROVE Listing'
  BY <1>8, ListingAside DEF Ages, job
<1>8a. CASE SkipSeed
  <2>1. UNCHANGED <<draft, stale, left, at, pc>> /\ pc[Main] # "write"
    BY <1>8a DEF SkipSeed, db
  <2>2. \A w \in Writers \ {Main} : answer'[w] = answer[w]
    BY <1>0, <1>8a DEF SkipSeed, TypeOK
  <2>3. QED
    BY <2>1, <2>2, ListingAside
<1>9. CASE Crash
  <2>1. \A w \in Writers : pc'[w] # "write"
    BY <1>9 DEF Crash
  <2>2. QED
    BY <2>1 DEF Listing, ListingOf
<1>10. CASE UNCHANGED vars
  BY <1>10, ListingAside DEF vars, db, job
<1>11. QED
  BY <1>1, <1>2, <1>3, <1>4, <1>5, <1>6, <1>7, <1>8, <1>8a, <1>9, <1>10
  DEF Next, Works, Writes, Writers

LEMMA ListingInvariant == Safety => [](Typed /\ Sound /\ Listing)
<1>1. QED
  BY InitTyped, StepTyped, InitSound, StepSound, InitListing, StepListing, PTL DEF Safety

(* What a commit without stale reads has stored.                           *)
LEMMA CommitStored ==
    ASSUME Typed, Listing, NEW w \in Writers, Commit(w), ~ stale, Replaces(w)
    PROVE  LET s == Storing(w) IN
           /\ tables' = draft /\ lock = w /\ lock # None
           /\ ListedOnly(tables', s.prov, s.list)
           /\ \A k \in DOMAIN s.list : Stored(tables', s.prov, s.list[k])
           /\ s.prov \in Providers /\ \A k \in DOMAIN s.list : s.list[k] \in Entry
<1>1. pc[w] = "write" /\ left[w] = <<>> /\ tables' = draft
  BY DEF Commit
<1>2. lock = w /\ lock # None
  BY <1>1, ConstantTypes DEF Typed, Control, ControlOf, Holding
<1>3. Progress(draft, Storing(w).prov, Storing(w).list, <<>>)
  BY <1>1 DEF Listing, ListingOf
<1>4. Storing(w).prov \in Providers /\ Storing(w).list \in Seq(Entry)
  BY <1>1, Upsert DEF Replaces
<1>5. QED
  BY <1>1, <1>2, <1>3, <1>4 DEF Progress

(* Without a stale read, a list that replaces its provider's is stored     *)
(* exactly: the rows of the provider belong to stations of the list, and   *)
(* every station of the list is a name of one of them.                     *)
THEOREM ListsAreExact == Safety => ListExact
<1> DEFINE Exact(w) ==
        Commit(w) /\ ~ stale /\ Replaces(w) =>
        LET s == Storing(w)
            listed == {i \in Ids : s.prov \in Holders(tables', i)}
        IN  /\ \A i \in listed : \E k \in DOMAIN s.list :
                    i = s.list[k].id \/ i \in SameDomes(tables', s.list[k])
            /\ \A k \in DOMAIN s.list : \E i \in listed :
                    i \in Present(tables') /\ s.list[k].id \in tables'.rows[i].names
<1>1. ASSUME Typed, Sound, Listing, NEW w \in Writers PROVE Exact(w)
  <2> SUFFICES ASSUME Commit(w), ~ stale, Replaces(w) PROVE Exact(w)
    OBVIOUS
  <2>1. /\ ListedOnly(tables', Storing(w).prov, Storing(w).list)
        /\ \A k \in DOMAIN Storing(w).list :
               Stored(tables', Storing(w).prov, Storing(w).list[k])
    BY <1>1, CommitStored
  <2>2. \A i \in Present(tables') : i \in Ids
    BY DEF Present
  <2>3. QED
    BY <2>1, <2>2 DEF ListedOnly, Stored
<1>2. Typed /\ Sound /\ Listing => [\A w \in Writers : Exact(w)]_vars
  BY <1>1
<1>3. QED
  BY <1>2, ListingInvariant, PTL DEF ListExact

(* Without a stale read, a station just stored is found under the id it    *)
(* was published under, on a row of its provider, unless a row of others   *)
(* carries that id as a name.                                              *)
THEOREM PublishedAlwaysResolves == Safety => PublishedResolves
<1> DEFINE Resolves(w) ==
        Commit(w) /\ ~ stale /\ Replaces(w) =>
        LET p == Storing(w).prov
            rival(id) == \E i \in Present(tables') :
                            id \in tables'.rows[i].names /\ p \notin Holders(tables', i)
        IN  \A k \in DOMAIN Storing(w).list :
                LET id == Storing(w).list[k].id
                IN  rival(id) \/ p \in Holders(tables', Get(tables', id))
<1>1. ASSUME Typed, Sound, Listing, NEW w \in Writers PROVE Resolves(w)
  <2> DEFINE p == Storing(w).prov
             list == Storing(w).list
  <2> SUFFICES ASSUME Commit(w), ~ stale, Replaces(w), NEW k \in DOMAIN list,
                      \A i \in Present(tables') :
                          list[k].id \in tables'.rows[i].names => p \in Holders(tables', i)
               PROVE  p \in Holders(tables', Get(tables', list[k].id))
    OBVIOUS
  <2>1. /\ tables' = draft /\ lock # None /\ Stored(tables', p, list[k])
        /\ list[k].id \in Names
    BY <1>1, CommitStored DEF Entry, Names
  <2>2. CASE list[k].id \in Present(tables')
    BY <2>1, <2>2 DEF Get, Stored
  <2>3. CASE list[k].id \notin Present(tables')
    <3> DEFINE o == tables'.owner[list[k].id]
    <3>1. o \in Present(tables')
      BY <1>1, <2>1 DEF Stored, Sound, NoDangling, NoDanglingIn
    <3>2. list[k].id \in tables'.rows[o].names
      BY <1>1, <2>1, <3>1 DEF Sound, DraftAgrees, OwnedIn
    <3>3. QED
      BY <2>3, <3>1, <3>2 DEF Get
  <2>4. QED
    BY <2>2, <2>3
<1>2. Typed /\ Sound /\ Listing => [\A w \in Writers : Resolves(w)]_vars
  BY <1>1
<1>3. QED
  BY <1>2, ListingInvariant, PTL DEF PublishedResolves

=============================================================================
