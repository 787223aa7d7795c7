---------------------------- MODULE PlannerProofs ----------------------------
(***************************************************************************)
(* What is proved of Planner for every request, every offer of files and   *)
(* every number of workers.                                                *)
(***************************************************************************)
EXTENDS Planner, SublistProofs, FiniteSetTheorems, SequenceTheorems

-----------------------------------------------------------------------------
(* Routes: which providers are asked for a station.                        *)

LEMMA ProvidersForIs ==
    ASSUME NEW nets \in Seq(Regions)
    PROVE  ProvidersFor(nets) \in Seq(Providers)
<1> DEFINE ss == [k \in DOMAIN nets |-> Members[nets[k]]]
<1>1. \A k \in DOMAIN nets : Members[nets[k]] \in Seq(Providers)
    BY RouteAssumption
<1>2. DOMAIN nets = 1..Len(nets) /\ Len(nets) \in Nat
    OBVIOUS
<1>3. ss \in Seq(Seq(Providers))
    BY <1>1, <1>2
<1> HIDE DEF ss
<1>4. FlattenSeq(ss) \in Seq(Providers)
    BY <1>3, FlattenToSet
<1> QED BY <1>4, DistinctIs DEF ProvidersFor, ss

\* What is wanted and there is found.
LEMMA FirstInPriorityIs ==
    ASSUME NEW S, NEW order \in Seq(S), NEW wanted, wanted \cap ToSet(order) # {}
    PROVE  FirstInPriority(wanted, order) \in wanted \cap ToSet(order)
<1> DEFINE I == {i \in 1..Len(order) : order[i] \in wanted}
<1>1. I \in SUBSET Nat /\ I # {}
    BY DEF ToSet
<1>2. Min(I) \in I
    BY <1>1, MinIsLeast
<1>3. FirstInPriority(wanted, order) = order[Min(I)]
    BY <1>1 DEF FirstInPriority, SelectInSeq
<1> HIDE DEF I
<1>4. Min(I) \in DOMAIN order /\ order[Min(I)] \in wanted
    BY <1>2 DEF I
<1> QED BY <1>3, <1>4 DEF ToSet

(* A route is a list of providers, and the owners of a station, when it    *)
(* has some, are all of it.                                                *)
LEMMA RouteIs ==
    ASSUME NEW s \in Stations, NEW nets \in Seq(Regions), NEW wanted
    PROVE  /\ Route(s, nets, wanted) \in Seq(Providers)
           /\ nets # <<>> /\ Claimants(s, nets, wanted) # {} =>
                 ToSet(Route(s, nets, wanted)) \subseteq Claimants(s, nets, wanted)
<1> DEFINE order == ProvidersFor(nets)
           row == CHOOSE x \in Known[s] : TRUE
           owners == Owners(row, nets, wanted)
           provenance == ToSet(row.provs) \cap ToSet(order)
           primary == IF order # <<>> THEN <<Head(order)>> ELSE Priority
           claim == Claimants(s, nets, wanted)
<1>1. order \in Seq(Providers) /\ Priority \in Seq(Providers)
    BY ProvidersForIs, RouteAssumption
<1>2. Route(s, nets, wanted) =
        IF nets = <<>> THEN Priority
        ELSE IF Known[s] = {} THEN primary
        ELSE IF owners # {} THEN <<FirstInPriority(owners, order)>>
        ELSE IF provenance # {} THEN <<FirstInPriority(provenance, order)>>
        ELSE IF row.igs THEN Priority
        ELSE primary
    BY DEF Route
<1>3. owners \subseteq ToSet(order) /\ provenance \subseteq ToSet(order)
    BY DEF Owners
<1>4. Known[s] # {} => row \in Known[s] /\ \A x \in Known[s] : x = row
    BY RouteAssumption
<1>5. claim # {} => Known[s] # {} /\ claim = owners \cup provenance
    BY <1>4 DEF Claimants
<1> HIDE DEF order, row, owners, provenance, claim
<1>6. ToSet(order) \subseteq Providers /\ primary \in Seq(Providers)
  <2>1. order # <<>> => Head(order) \in Providers
      BY <1>1
  <2> QED BY <1>1, <2>1, ListIn
<1>7. owners # {} => FirstInPriority(owners, order) \in owners \cap ToSet(order)
    BY <1>1, <1>3, FirstInPriorityIs
<1>8. provenance # {} => FirstInPriority(provenance, order) \in provenance \cap ToSet(order)
    BY <1>1, <1>3, FirstInPriorityIs
<1>9. \A p \in Providers : <<p>> \in Seq(Providers) /\ ToSet(<<p>>) = {p}
    BY DEF ToSet
<1>10. Route(s, nets, wanted) \in Seq(Providers)
    BY <1>1, <1>2, <1>6, <1>7, <1>8, <1>9
<1>11. ASSUME nets # <<>>, claim # {}
       PROVE  ToSet(Route(s, nets, wanted)) \subseteq claim
  <2>1. CASE owners # {}
      BY <2>1, <1>2, <1>5, <1>6, <1>7, <1>9, <1>11
  <2>2. CASE owners = {}
      BY <2>2, <1>2, <1>5, <1>6, <1>8, <1>9, <1>11
  <2> QED BY <2>1, <2>2
<1> QED BY <1>10, <1>11 DEF claim

-----------------------------------------------------------------------------
(* The searches of a request.                                              *)

Tiers == {None} \cup UNION {ToSet(r.tiers) : r \in Requests}
Calls == [prov : Providers, tier : Tiers]
Kinds == {"explicit", "product", "discover", "batch", "epn", "item"}

(* What is true of each search: who is asked for what.                     *)
SearchOK(r, s) ==
    /\ s.kind \in Kinds
    /\ s.line \in Seq(Calls)
    /\ s.kind # "product" => \A k \in DOMAIN s.line : s.line[k].tier = None
    /\ s.kind = "product" => /\ r.kind = "product"
                             /\ \A k \in DOMAIN s.line : s.line[k].tier # None
    /\ r.kind = "product" => s.kind \in {"product", "explicit"}
    /\ s.kind = "item" => \E w : s.want = {w}
    /\ s.kind = "epn" => \A k \in DOMAIN s.line : s.line[k].prov = Epn
    /\ r.kind = "obs" /\ r.from = None /\ ~r.discover =>
         \A k \in DOMAIN s.line : \A w \in s.want :
            w[1] \in Stations /\ s.line[k].prov \in ToSet(RouteOf(r, w[1]))

LEMMA RouteOfIs ==
    ASSUME NEW r \in Requests, NEW s \in Stations
    PROVE  RouteOf(r, s) \in Seq(Providers)
BY RequestAssumption, RouteIs DEF IsRequest, RouteOf

LEMMA AsksIs ==
    ASSUME NEW line \in Seq(Providers), NEW tier \in Tiers
    PROVE  /\ Asks(line, tier) \in Seq(Calls)
           /\ DOMAIN Asks(line, tier) = DOMAIN line
           /\ \A k \in DOMAIN line : /\ Asks(line, tier)[k].prov = line[k]
                                     /\ Asks(line, tier)[k].tier = tier
<1>1. DOMAIN line = 1..Len(line) /\ Len(line) \in Nat
    OBVIOUS
<1>2. \A k \in DOMAIN line : [prov |-> line[k], tier |-> tier] \in Calls
    BY DEF Calls
<1> QED BY <1>1, <1>2 DEF Asks

LEMMA AskOne ==
    ASSUME NEW p \in Providers
    PROVE  /\ Asks(<<p>>, None) \in Seq(Calls) /\ DOMAIN Asks(<<p>>, None) = {1}
           /\ Asks(<<p>>, None)[1].prov = p /\ Asks(<<p>>, None)[1].tier = None
<1>1. <<p>> \in Seq(Providers) /\ DOMAIN <<p>> = {1} /\ <<p>>[1] = p
    OBVIOUS
<1>2. None \in Tiers
    BY DEF Tiers
<1>3. /\ Asks(<<p>>, None) \in Seq(Calls) /\ DOMAIN Asks(<<p>>, None) = DOMAIN <<p>>
      /\ \A k \in DOMAIN <<p>> : /\ Asks(<<p>>, None)[k].prov = <<p>>[k]
                                 /\ Asks(<<p>>, None)[k].tier = None
    BY <1>1, <1>2, AsksIs
<1> QED BY <1>1, <1>3

\* A list of searches with all that is proved of it.
SearchList(r, ss) ==
    /\ ss \in Seq(ToSet(ss))
    /\ \A j \in DOMAIN ss : SearchOK(r, ss[j])
    /\ \A i, j \in DOMAIN ss : ss[i].want \cap ss[j].want # {} => i = j

LEMMA ThoseOf ==
    ASSUME NEW S, NEW s \in Seq(S), NEW T
    PROVE  Those(s, T) \in Seq(S \cap T)
<1>1. Those(s, T) \in Seq(S) /\ ToSet(Those(s, T)) \subseteq S \cap T
    BY ThoseIs, ListIn
<1>2. Those(s, T) \in Seq(ToSet(Those(s, T)))
    BY <1>1, ListIn
<1> QED BY <1>1, <1>2, SeqMonotonic

\* Batches go to different providers, and each has the stations that are only his.
LEMMA BatchedApart ==
    ASSUME NEW r, NEW p, NEW q, NEW s, s \in Batched(r, p), s \in Batched(r, q)
    PROVE  p = q /\ s \in ToSet(r.stations) /\ RouteOf(r, s) = <<p>>
BY DEF Batched

LEMMA BatchesAre ==
    ASSUME NEW r \in Requests, r.kind = "obs"
    PROVE  /\ SearchList(r, Batches(r))
           /\ \A j \in DOMAIN Batches(r) : \A w \in Batches(r)[j].want :
                \E p \in Providers : w[1] \in Batched(r, p)
<1> DEFINE owner(s) == IF Len(RouteOf(r, s)) = 1 THEN Head(RouteOf(r, s)) ELSE None
           own == [k \in DOMAIN r.stations |-> owner(r.stations[k])]
           line == Distinct(own)
           one == Those(line, Passthrough \ {Epn})
           two == Those(line, {Epn})
           all == one \o two
           batch(p) == Search(IF p = Epn THEN "epn" ELSE "batch", Asks(<<p>>, None),
                              Batched(r, p) \X ToSet(r.days))
           ss == [k \in DOMAIN all |-> batch(all[k])]
<1>1. Batches(r) = ss
    BY DEF Batches
<1>2. r.stations \in Seq(Stations)
    BY RequestAssumption DEF IsRequest
<1>3. own \in Seq({owner(r.stations[k]) : k \in DOMAIN r.stations})
    BY <1>2
<1> HIDE DEF own
<1>4. PICK S : line \in Seq(S) /\ \A i, j \in DOMAIN line : line[i] = line[j] => i = j
    BY <1>3, DistinctIs
<1> HIDE DEF line
<1>5. one \in Seq(Passthrough \ {Epn}) /\ two \in Seq({Epn})
  <2>1. one \in Seq(S \cap (Passthrough \ {Epn})) /\ two \in Seq(S \cap {Epn})
      BY <1>4, ThoseOf
  <2> QED BY <2>1, SeqMonotonic
<1>6. /\ \A i, j \in DOMAIN one : one[i] = one[j] => i = j
      /\ \A i, j \in DOMAIN two : two[i] = two[j] => i = j
    BY <1>4, ThoseInjective
<1> HIDE DEF one, two
<1>7. all \in Seq(Providers) /\ \A i, j \in DOMAIN all : all[i] = all[j] => i = j
  <2>1. one \in Seq(Providers) /\ two \in Seq(Providers)
      BY <1>5, PlannerAssumption, SeqMonotonic
  <2>2. all \in Seq(Providers) /\ Len(all) = Len(one) + Len(two)
      BY <2>1
  <2>3. \A i \in 1..Len(all) : all[i] = IF i <= Len(one) THEN one[i] ELSE two[i - Len(one)]
      BY <2>1
  <2>4. /\ DOMAIN all = 1..Len(all) /\ DOMAIN one = 1..Len(one) /\ DOMAIN two = 1..Len(two)
        /\ Len(one) \in Nat /\ Len(two) \in Nat
      BY <2>1, <2>2
  <2>5. (\A i \in DOMAIN one : one[i] # Epn) /\ (\A i \in DOMAIN two : two[i] = Epn)
      BY <1>5
  <2> HIDE DEF all
  <2> SUFFICES ASSUME NEW i \in DOMAIN all, NEW j \in DOMAIN all, all[i] = all[j] PROVE i = j
      BY <2>2, <2>1 DEF all
  <2>6. \A k \in DOMAIN all : /\ k <= Len(one) => k \in DOMAIN one /\ all[k] = one[k]
                              /\ ~(k <= Len(one)) => /\ k - Len(one) \in DOMAIN two
                                                     /\ all[k] = two[k - Len(one)]
      BY <2>2, <2>3, <2>4
  <2>7. CASE i <= Len(one) /\ j <= Len(one)
      BY <2>6, <2>7, <1>6
  <2>8. CASE ~(i <= Len(one)) /\ ~(j <= Len(one))
    <3>1. i - Len(one) = j - Len(one)
        BY <2>6, <2>8, <1>6
    <3> QED BY <3>1, <2>2, <2>4
  <2>9. CASE (i <= Len(one)) # (j <= Len(one))
      BY <2>5, <2>6, <2>9
  <2> QED BY <2>7, <2>8, <2>9
<1> HIDE DEF all
<1>8. DOMAIN ss = DOMAIN all /\ DOMAIN all = 1..Len(all) /\ Len(all) \in Nat
    BY <1>7
<1>9. ss \in Seq(ToSet(ss))
    BY <1>8, FunctionIsList
<1>10. ASSUME NEW p \in Providers PROVE SearchOK(r, batch(p))
  <2>2. /\ Asks(<<p>>, None) \in Seq(Calls) /\ DOMAIN Asks(<<p>>, None) = {1}
        /\ Asks(<<p>>, None)[1].prov = p /\ Asks(<<p>>, None)[1].tier = None
      BY AskOne
  <2>3. /\ batch(p).kind = IF p = Epn THEN "epn" ELSE "batch"
        /\ batch(p).line = Asks(<<p>>, None)
        /\ batch(p).want = Batched(r, p) \X ToSet(r.days)
      BY DEF Search
  <2>4. \A w \in batch(p).want : w[1] \in Batched(r, p)
      BY <2>3
  <2>5. \A w \in batch(p).want : w[1] \in Stations /\ p \in ToSet(RouteOf(r, w[1]))
    <3>1. \A s \in Batched(r, p) : s \in Stations /\ p \in ToSet(RouteOf(r, s))
        BY <1>2, ListIn DEF Batched, ToSet
    <3> QED BY <2>4, <3>1
  <2> HIDE DEF batch
  <2> QED BY <2>2, <2>3, <2>5 DEF SearchOK, Kinds
<1>11. \A j \in DOMAIN ss : SearchOK(r, ss[j])
  <2> HIDE DEF batch
  <2> QED BY <1>7, <1>8, <1>10
<1>12. \A j \in DOMAIN ss : \A w \in ss[j].want : w[1] \in Batched(r, all[j]) /\ all[j] \in Providers
    BY <1>7, <1>8 DEF Search
<1>13. \A i, j \in DOMAIN ss : ss[i].want \cap ss[j].want # {} => i = j
  <2> SUFFICES ASSUME NEW i \in DOMAIN ss, NEW j \in DOMAIN ss,
                      NEW w \in ss[i].want \cap ss[j].want
               PROVE  i = j
      OBVIOUS
  <2>1. w[1] \in Batched(r, all[i]) /\ w[1] \in Batched(r, all[j])
      BY <1>12
  <2>2. all[i] = all[j]
      BY <2>1, BatchedApart
  <2> QED BY <1>7, <1>8, <2>2
<1> HIDE DEF ss
<1> QED BY <1>1, <1>9, <1>11, <1>12, <1>13 DEF SearchList

LEMMA OrderedIs ==
    ASSUME NEW priority \in Seq(Providers)
    PROVE  Ordered(priority) \in Seq(Providers)
<1>1. Those(Registered, Providers \ ToSet(priority)) \in Seq(Providers)
    BY PlannerAssumption, ThoseIs
<1> QED BY <1>1 DEF Ordered

\* The search for one file.
LEMMA ItemOK ==
    ASSUME NEW r \in Requests, r.kind \in {"obs", "nav"},
           NEW w, NEW line \in Seq(Providers),
           r.kind = "obs" => w[1] \in Stations /\ ToSet(line) \subseteq ToSet(RouteOf(r, w[1]))
    PROVE  SearchOK(r, Search("item", Asks(line, None), {w}))
<1> DEFINE s == Search("item", Asks(line, None), {w})
<1>1. s.kind = "item" /\ s.line = Asks(line, None) /\ s.want = {w}
    BY DEF Search
<1> HIDE DEF s
<1>2. None \in Tiers
    BY DEF Tiers
<1>3. /\ s.line \in Seq(Calls) /\ DOMAIN s.line = DOMAIN line
      /\ \A k \in DOMAIN line : s.line[k].prov = line[k] /\ s.line[k].tier = None
    BY <1>1, <1>2, AsksIs
<1>4. \A k \in DOMAIN line : line[k] \in ToSet(line)
    BY ListIn
<1>5. SearchOK(r, s)
    BY <1>1, <1>3, <1>4 DEF SearchOK, Kinds
<1> QED BY <1>5 DEF s

LEMMA NavItemsAre ==
    ASSUME NEW r \in Requests, r.kind = "nav"
    PROVE  SearchList(r, Items(r))
<1> DEFINE line == Able(Ordered(Priority), "nav")
           item(d) == Search("item", Asks(line, None), {<<"nav", d>>})
           ss == [k \in DOMAIN r.days |-> item(r.days[k])]
<1>1. Items(r) = ss
    BY DEF Items
<1>2. /\ DOMAIN r.days = 1..Len(r.days) /\ Len(r.days) \in Nat
      /\ \A k, m \in DOMAIN r.days : r.days[k] = r.days[m] => k = m
    BY RequestAssumption, ListIn DEF IsRequest, IsInjective
<1>3. line \in Seq(Providers)
    BY OrderedIs, RouteAssumption, ThoseIs DEF Able
<1> HIDE DEF line
<1>4. ss \in Seq(ToSet(ss)) /\ DOMAIN ss = DOMAIN r.days
    BY <1>2, FunctionIsList
<1>5. \A j \in DOMAIN ss : SearchOK(r, ss[j])
    BY <1>3, <1>4, ItemOK
<1>6. \A j \in DOMAIN ss : ss[j].want = {<<"nav", r.days[j]>>}
    BY <1>4 DEF Search
<1> HIDE DEF ss
<1>7. \A i, j \in DOMAIN ss : ss[i].want \cap ss[j].want # {} => i = j
    BY <1>2, <1>4, <1>6
<1> QED BY <1>1, <1>4, <1>5, <1>7 DEF SearchList

LEMMA ObsItemsAre ==
    ASSUME NEW r \in Requests, r.kind = "obs"
    PROVE  /\ SearchList(r, Items(r))
           /\ \A j \in DOMAIN Items(r) : \A w \in Items(r)[j].want :
                \A p \in Providers : w[1] \notin Batched(r, p)
<1> DEFINE batched == UNION {Batched(r, p) : p \in Providers}
           lone == Those(r.stations, Stations \ batched)
           line(s) == Able(RouteOf(r, s), "obs")
           item(s, d) == Search("item", Asks(line(s), None), {<<s, d>>})
           ofStation(s) == [m \in DOMAIN r.days |-> item(s, r.days[m])]
           tt == [k \in DOMAIN lone |-> ofStation(lone[k])]
           S == {item(s, d) : s \in Stations \ batched, d \in ToSet(r.days)}
           ss == FlattenSeq(tt)
<1>1. Items(r) = ss
    BY DEF Items
<1>2. /\ r.days \in Seq(ToSet(r.days))
      /\ DOMAIN r.days = 1..Len(r.days) /\ Len(r.days) \in Nat
      /\ \A k, m \in DOMAIN r.days : r.days[k] = r.days[m] => k = m
      /\ \A k \in DOMAIN r.days : r.days[k] \in ToSet(r.days)
    BY RequestAssumption, ListIn DEF IsRequest, IsInjective
<1>3. /\ lone \in Seq(Stations \ batched)
      /\ \A k, m \in DOMAIN lone : lone[k] = lone[m] => k = m
  <2>1. /\ r.stations \in Seq(Stations)
        /\ \A k, m \in DOMAIN r.stations : r.stations[k] = r.stations[m] => k = m
      BY RequestAssumption DEF IsRequest, IsInjective
  <2>2. lone \in Seq(Stations \cap (Stations \ batched))
      BY <2>1, ThoseOf
  <2>3. Stations \cap (Stations \ batched) \subseteq Stations \ batched
      OBVIOUS
  <2>4. \A k, m \in DOMAIN lone : lone[k] = lone[m] => k = m
      BY <2>1, ThoseInjective
  <2> QED BY <2>2, <2>3, <2>4, SeqMonotonic
<1>4. /\ DOMAIN lone = 1..Len(lone) /\ Len(lone) \in Nat
      /\ \A k \in DOMAIN lone : lone[k] \in Stations \ batched
  <2> HIDE DEF batched, lone
  <2> QED BY <1>3, ListIn
<1> HIDE DEF lone
<1>5. \A s \in Stations : line(s) \in Seq(Providers) /\ ToSet(line(s)) \subseteq ToSet(RouteOf(r, s))
    BY RouteOfIs, ThoseIs DEF Able
<1> HIDE DEF line
<1>6. \A s \in Stations, d \in ToSet(r.days) :
        SearchOK(r, item(s, d)) /\ item(s, d).want = {<<s, d>>}
  <2> TAKE s \in Stations, d \in ToSet(r.days)
  <2>1. <<s, d>>[1] = s
      OBVIOUS
  <2>2. SearchOK(r, item(s, d))
      BY <1>5, <2>1, ItemOK
  <2> QED BY <2>2 DEF Search
<1> HIDE DEF item
<1>7. \A s \in Stations \ batched : /\ ofStation(s) \in Seq(S) /\ Len(ofStation(s)) = Len(r.days)
                                    /\ \A m \in DOMAIN r.days : ofStation(s)[m] = item(s, r.days[m])
  <2> TAKE s \in Stations \ batched
  <2>1. \A m \in 1..Len(r.days) : item(s, r.days[m]) \in S
      BY <1>2
  <2> HIDE DEF S
  <2> QED BY <1>2, <2>1
<1>8. tt \in Seq(Seq(S)) /\ Len(tt) = Len(lone) /\ \A k \in DOMAIN lone : tt[k] = ofStation(lone[k])
  <2> HIDE DEF S, ofStation
  <2> QED BY <1>4, <1>7
<1> HIDE DEF tt
<1>9. ss \in Seq(S) /\ \E blk, off : Placed(ss, tt, Len(tt), blk, off)
    BY <1>8, FlattenPlaces
<1>10. PICK blk, off : Placed(ss, tt, Len(tt), blk, off)
    BY <1>9
<1>11. DOMAIN ss = 1..Len(ss) /\ ss \in Seq(ToSet(ss)) /\ \A i \in DOMAIN ss : ss[i] \in S
    BY <1>9, ListIn
<1> HIDE DEF ss
<1>12. ASSUME NEW i \in DOMAIN ss
       PROVE  /\ blk[i] \in DOMAIN lone /\ off[i] \in DOMAIN r.days
              /\ ss[i] = item(lone[blk[i]], r.days[off[i]])
              /\ ss[i].want = {<<lone[blk[i]], r.days[off[i]]>>}
  <2>1. blk[i] \in DOMAIN lone
      BY <1>4, <1>8, <1>10, <1>11 DEF Placed
  <2>2. off[i] \in 1..Len(tt[blk[i]]) /\ ss[i] = tt[blk[i]][off[i]]
      BY <1>10, <1>11 DEF Placed
  <2>3. tt[blk[i]] = ofStation(lone[blk[i]]) /\ lone[blk[i]] \in Stations \ batched
      BY <1>4, <1>8, <2>1
  <2>4. Len(tt[blk[i]]) = Len(r.days)
      BY <1>7, <2>3
  <2>5. off[i] \in DOMAIN r.days
      BY <1>2, <2>2, <2>4
  <2>6. ss[i] = item(lone[blk[i]], r.days[off[i]])
      BY <1>7, <2>2, <2>3, <2>5
  <2> QED BY <1>2, <1>6, <2>1, <2>3, <2>5, <2>6
<1>13. \A i \in DOMAIN ss : SearchOK(r, ss[i])
    BY <1>2, <1>4, <1>6, <1>12
<1>14. \A i \in DOMAIN ss : \A w \in ss[i].want : \A p \in Providers : w[1] \notin Batched(r, p)
    BY <1>4, <1>12
<1>15. \A i, j \in DOMAIN ss : ss[i].want \cap ss[j].want # {} => i = j
  <2> SUFFICES ASSUME NEW i \in DOMAIN ss, NEW j \in DOMAIN ss, ss[i].want \cap ss[j].want # {}
               PROVE  i = j
      OBVIOUS
  <2>1. <<lone[blk[i]], r.days[off[i]]>> = <<lone[blk[j]], r.days[off[j]]>>
      BY <1>12
  <2>2. blk[i] = blk[j] /\ off[i] = off[j]
      BY <1>2, <1>3, <1>12, <2>1
  <2> QED BY <1>10, <1>11, <2>2 DEF Placed
<1> QED BY <1>1, <1>11, <1>13, <1>14, <1>15 DEF SearchList

LEMMA OneSearch ==
    ASSUME NEW r, NEW s, SearchOK(r, s)
    PROVE  SearchList(r, <<s>>)
<1>1. <<s>> \in Seq(ToSet(<<s>>)) /\ DOMAIN <<s>> = {1} /\ <<s>>[1] = s
    BY DEF ToSet
<1> QED BY <1>1 DEF SearchList

LEMMA NoSearch == \A r : SearchList(r, <<>>)
<1>1. <<>> \in Seq(ToSet(<<>>)) /\ DOMAIN <<>> = {}
    BY DEF ToSet
<1> QED BY <1>1 DEF SearchList

LEMMA DiscoveriesAre ==
    ASSUME NEW r \in Requests, r.kind = "obs", r.discover
    PROVE  SearchList(r, Discoveries(r))
<1> DEFINE sources == {SourceOf[s].provider : s \in r.srcs \cap DOMAIN SourceOf}
           scope == IF sources = {} THEN ToSet(ProvidersFor(r.nets)) ELSE sources
           with == scope \cap Directory
           p == CHOOSE q \in Providers : with = {q}
           s == Search("discover", Asks(<<p>>, None), Stations \X ToSet(r.days))
<1>1. Discoveries(r) = IF \E q \in Providers : with = {q} THEN <<s>> ELSE <<>>
    BY DEF Discoveries
<1> HIDE DEF with
<1>2. ASSUME \E q \in Providers : with = {q} PROVE SearchOK(r, s)
  <2>1. p \in Providers
      BY <1>2
  <2> HIDE DEF p
  <2>2. /\ Asks(<<p>>, None) \in Seq(Calls) /\ DOMAIN Asks(<<p>>, None) = {1}
        /\ Asks(<<p>>, None)[1].prov = p /\ Asks(<<p>>, None)[1].tier = None
      BY <2>1, AskOne
  <2>3. s.kind = "discover" /\ s.line = Asks(<<p>>, None)
      BY DEF Search
  <2> HIDE DEF s
  <2> QED BY <2>2, <2>3 DEF SearchOK, Kinds
<1> HIDE DEF s
<1> QED BY <1>1, <1>2, OneSearch, NoSearch

LEMMA ExplicitIs ==
    ASSUME NEW r \in Requests, r.from # None, NEW want
    PROVE  SearchList(r, <<Search("explicit", Asks(<<r.from>>, None), want)>>)
<1> DEFINE p == r.from
           s == Search("explicit", Asks(<<p>>, None), want)
<1>1. p \in Providers /\ r.kind \in {"obs", "nav", "product"}
    BY RequestAssumption DEF IsRequest
<1> HIDE DEF p
<1>2. /\ Asks(<<p>>, None) \in Seq(Calls) /\ DOMAIN Asks(<<p>>, None) = {1}
      /\ Asks(<<p>>, None)[1].prov = p /\ Asks(<<p>>, None)[1].tier = None
    BY <1>1, AskOne
<1>3. s.kind = "explicit" /\ s.line = Asks(<<p>>, None)
    BY DEF Search
<1> HIDE DEF s
<1>4. SearchOK(r, s)
  <2>1. r.from = None => FALSE
      OBVIOUS
  <2> QED BY <1>1, <1>2, <1>3, <2>1 DEF SearchOK, Kinds
<1> QED BY <1>4, OneSearch DEF s, p

LEMMA TieredIs ==
    ASSUME NEW r \in Requests
    PROVE  /\ Tiered(r) \in Seq(Calls)
           /\ \A k \in DOMAIN Tiered(r) : Tiered(r)[k].tier # None
<1> DEFINE S == [prov : Providers, tier : ToSet(r.tiers)]
           ss == [t \in DOMAIN r.tiers |-> Asks(Ordered(ProductPriority), r.tiers[t])]
<1>1. /\ DOMAIN r.tiers = 1..Len(r.tiers) /\ Len(r.tiers) \in Nat
      /\ \A t \in DOMAIN r.tiers : r.tiers[t] \in ToSet(r.tiers)
      /\ ToSet(r.tiers) \subseteq Tiers /\ None \notin ToSet(r.tiers)
    BY RequestAssumption, ListIn DEF IsRequest, Tiers
<1>2. Ordered(ProductPriority) \in Seq(Providers)
    BY PlannerAssumption, OrderedIs
<1>3. \A tier \in ToSet(r.tiers) : Asks(Ordered(ProductPriority), tier) \in Seq(S)
  <2> TAKE tier \in ToSet(r.tiers)
  <2> DEFINE line == Ordered(ProductPriority)
  <2>1. DOMAIN line = 1..Len(line) /\ Len(line) \in Nat /\ \A k \in DOMAIN line : line[k] \in Providers
      BY <1>2, ListIn
  <2> HIDE DEF line
  <2>2. \A k \in DOMAIN line : [prov |-> line[k], tier |-> tier] \in S
      BY <2>1
  <2>3. [k \in DOMAIN line |-> [prov |-> line[k], tier |-> tier]] \in Seq(S)
    <3> HIDE DEF S
    <3> QED BY <2>1, <2>2
  <2> QED BY <2>3 DEF Asks, line
<1>4. ss \in Seq(Seq(S))
  <2> HIDE DEF S
  <2> QED BY <1>1, <1>3
<1> HIDE DEF ss
<1>5. FlattenSeq(ss) \in Seq(S)
    BY <1>4, FlattenToSet
<1>6. S \subseteq Calls
    BY <1>1 DEF Calls
<1>7. Tiered(r) \in Seq(S)
    BY <1>5 DEF Tiered, ss
<1> HIDE DEF S
<1>8. Tiered(r) \in Seq(Calls) /\ \A k \in DOMAIN Tiered(r) : Tiered(r)[k] \in S
    BY <1>6, <1>7, SeqMonotonic, ListIn
<1>9. \A x \in S : x.tier # None
    BY <1>1 DEF S
<1> QED BY <1>8, <1>9

LEMMA ProductSearchIs ==
    ASSUME NEW r \in Requests, r.kind = "product", NEW want
    PROVE  SearchList(r, <<Search("product", Tiered(r), want)>>)
<1> DEFINE s == Search("product", Tiered(r), want)
<1>1. s.kind = "product" /\ s.line = Tiered(r)
    BY DEF Search
<1>2. s.line \in Seq(Calls) /\ \A k \in DOMAIN s.line : s.line[k].tier # None
    BY <1>1, TieredIs
<1> HIDE DEF s
<1>3. SearchOK(r, s)
    BY <1>1, <1>2 DEF SearchOK, Kinds
<1> QED BY <1>3, OneSearch DEF s

\* Two lists of searches that want different things make one.
LEMMA JoinedSearches ==
    ASSUME NEW r, NEW ss, NEW tt, SearchList(r, ss), SearchList(r, tt),
           \A i \in DOMAIN ss, j \in DOMAIN tt : ss[i].want \cap tt[j].want = {}
    PROVE  SearchList(r, ss \o tt)
<1> DEFINE u == ss \o tt
           S == ToSet(ss) \cup ToSet(tt)
<1>1. ss \in Seq(S) /\ tt \in Seq(S)
    BY SeqMonotonic DEF SearchList
<1> HIDE DEF S
<1>2. u \in Seq(S) /\ Len(u) = Len(ss) + Len(tt) /\ DOMAIN u = 1..Len(u)
    BY <1>1
<1>3. \A i \in 1..Len(u) : u[i] = IF i <= Len(ss) THEN ss[i] ELSE tt[i - Len(ss)]
    BY <1>1
<1>4. /\ DOMAIN ss = 1..Len(ss) /\ DOMAIN tt = 1..Len(tt)
      /\ Len(ss) \in Nat /\ Len(tt) \in Nat
    BY <1>1
<1> HIDE DEF u
<1>5. \A k \in DOMAIN u : /\ k <= Len(ss) => k \in DOMAIN ss /\ u[k] = ss[k]
                          /\ ~(k <= Len(ss)) => /\ k - Len(ss) \in DOMAIN tt
                                                /\ u[k] = tt[k - Len(ss)]
    BY <1>2, <1>3, <1>4
<1>6. u \in Seq(ToSet(u))
    BY <1>2, ListIn
<1>7. \A k \in DOMAIN u : SearchOK(r, u[k])
    BY <1>5 DEF SearchList
<1>8. \A i, j \in DOMAIN u : u[i].want \cap u[j].want # {} => i = j
  <2> SUFFICES ASSUME NEW i \in DOMAIN u, NEW j \in DOMAIN u, u[i].want \cap u[j].want # {}
               PROVE  i = j
      OBVIOUS
  <2>1. CASE i <= Len(ss) /\ j <= Len(ss)
      BY <2>1, <1>5 DEF SearchList
  <2>2. CASE ~(i <= Len(ss)) /\ ~(j <= Len(ss))
    <3>1. i - Len(ss) = j - Len(ss)
        BY <1>5, <2>2 DEF SearchList
    <3> QED BY <3>1, <1>2, <1>4
  <2>3. CASE (i <= Len(ss)) # (j <= Len(ss))
      BY <1>5, <2>3
  <2> QED BY <2>1, <2>2, <2>3
<1> QED BY <1>6, <1>7, <1>8 DEF SearchList, u

(* The searches of a request: who is asked for what, and no two searches   *)
(* want the same station and day.                                          *)
LEMMA SearchesAre ==
    ASSUME NEW r \in Requests
    PROVE  /\ SearchList(r, Searches(r))
           /\ r.kind = "product" => DOMAIN Searches(r) = {1}
<1> DEFINE want == Subjects(r) \X ToSet(r.days)
<1> HIDE DEF want
<1>1. Searches(r) =
        IF r.from # None THEN <<Search("explicit", Asks(<<r.from>>, None), want)>>
        ELSE IF r.kind = "product" THEN <<Search("product", Tiered(r), want)>>
        ELSE IF r.kind = "obs" /\ r.discover THEN Discoveries(r)
        ELSE IF r.kind = "obs" THEN Batches(r) \o Items(r)
        ELSE Items(r)
    BY DEF Searches, want
<1>2. r.kind \in {"obs", "nav", "product"}
    BY RequestAssumption DEF IsRequest
<1>3. \A s : DOMAIN <<s>> = {1}
    OBVIOUS
<1>4. r.kind = "product" => DOMAIN Searches(r) = {1}
    BY <1>1, <1>3
<1>5. CASE r.from # None
    BY <1>1, <1>5, ExplicitIs
<1>6. CASE r.from = None /\ r.kind = "product"
    BY <1>1, <1>6, ProductSearchIs
<1>7. CASE r.from = None /\ r.kind = "obs" /\ r.discover
    BY <1>1, <1>7, DiscoveriesAre
<1>8. CASE r.from = None /\ r.kind = "obs" /\ ~r.discover
  <2>1. SearchList(r, Batches(r)) /\ SearchList(r, Items(r))
      BY <1>8, BatchesAre, ObsItemsAre
  <2>2. \A i \in DOMAIN Batches(r), j \in DOMAIN Items(r) :
          Batches(r)[i].want \cap Items(r)[j].want = {}
      BY <1>8, BatchesAre, ObsItemsAre
  <2> QED BY <1>1, <1>8, <2>1, <2>2, JoinedSearches
<1>9. CASE r.from = None /\ r.kind = "nav"
    BY <1>1, <1>9, NavItemsAre
<1>10. SearchList(r, Searches(r))
    BY <1>2, <1>5, <1>6, <1>7, <1>8, <1>9
<1> QED BY <1>4, <1>10

-----------------------------------------------------------------------------
(* The inductive invariant: what was answered, and when a search goes on.  *)

Answer == [how : {"files"} \cup Errors, files : Seq(Files)]

\* TierDone of a request.
TierFull(r, s, answers, k) ==
    /\ k = Len(s.line) \/ s.line[k + 1].tier # s.line[k].tier
    /\ IsInjective(r.types)
    /\ \A type \in ToSet(r.types) : \E m \in 1..k : \E f \in ToSet(answers[m].files) :
         f.type = type /\ f.tier = s.line[k].tier /\ f.center \in ToSet(r.centers)

LEMMA TierFullIs ==
    ASSUME NEW s, NEW answers, NEW k
    PROVE  TierDone(s, answers, k) <=> TierFull(request, s, answers, k)
BY DEF TierDone, TierFull

Typed ==
    /\ request \in Requests /\ search = Searches(request)
    /\ phase \in {"search", "planned", "raised"}
    /\ at \in [DOMAIN search -> {"wait", "worker", "call", "done"}]
    /\ said \in [DOMAIN search -> Seq(Answer)]
    /\ \A j \in DOMAIN search :
         /\ Len(said[j]) <= Len(search[j].line)
         /\ at[j] # "done" => Len(said[j]) < Len(search[j].line)
         /\ search[j].kind \in Unlimited => at[j] \in {"call", "done"}

\* Every file that was answered is one of the provider asked, and matches.
Matches(s, k, f) ==
    /\ f \in ToSet(Offer[s.line[k].prov])
    /\ f.covers # {} /\ f.covers \subseteq s.want
    /\ s.line[k].tier \in {None, f.tier}
Offered ==
    \A j \in DOMAIN search : \A k \in DOMAIN said[j] : \A f \in ToSet(said[j][k].files) :
        Matches(search[j], k, f)

\* An answer that was not the last of its search was not enough.
Enough(r, s, answers, k) ==
    IF s.kind = "product" THEN TierFull(r, s, answers, k) ELSE answers[k].files # <<>>
Needed ==
    \A j \in DOMAIN search : \A k \in DOMAIN said[j] :
        k < Len(said[j]) \/ at[j] # "done" => ~Enough(request, search[j], said[j], k)

PlanBuilt == plan = IF phase = "planned" THEN PlanFor(PlanFiles) ELSE NoPlan

IInv == Typed /\ Offered /\ Needed /\ PlanBuilt

LEMMA SearchIs ==
    ASSUME Typed
    PROVE  /\ SearchList(request, search) /\ request \in Requests
           /\ request.kind = "product" => DOMAIN search = {1}
           /\ \A j \in DOMAIN search : SearchOK(request, search[j])
           /\ \A i, j \in DOMAIN search : search[i].want \cap search[j].want # {} => i = j
           /\ DOMAIN search = 1..Len(search) /\ Len(search) \in Nat
<1>1. SearchList(request, search) /\ (request.kind = "product" => DOMAIN search = {1})
    BY SearchesAre DEF Typed
<1> QED BY <1>1, ListIn DEF SearchList, Typed

LEMMA SaidIs ==
    ASSUME Typed, NEW j \in DOMAIN search
    PROVE  /\ said[j] \in Seq(Answer) /\ DOMAIN said[j] = 1..Len(said[j]) /\ Len(said[j]) \in Nat
           /\ search[j].line \in Seq(Calls)
           /\ DOMAIN search[j].line = 1..Len(search[j].line) /\ Len(search[j].line) \in Nat
           /\ \A k \in 1..Len(search[j].line) : search[j].line[k] \in Calls
           /\ \A k \in DOMAIN said[j] : k \in DOMAIN search[j].line /\ said[j][k] \in Answer
<1>1. said[j] \in Seq(Answer)
    BY DEF Typed
<1>2. DOMAIN said[j] = 1..Len(said[j]) /\ Len(said[j]) \in Nat
      /\ \A k \in DOMAIN said[j] : said[j][k] \in Answer
    BY <1>1, ListIn
<1>3. search[j].line \in Seq(Calls)
    BY SearchIs DEF SearchOK
<1>4. /\ DOMAIN search[j].line = 1..Len(search[j].line) /\ Len(search[j].line) \in Nat
      /\ \A k \in DOMAIN search[j].line : search[j].line[k] \in Calls
    BY <1>3, ListIn
<1>5. Len(said[j]) <= Len(search[j].line)
    BY DEF Typed
<1>6. \A k \in 1..Len(said[j]) : k \in 1..Len(search[j].line)
    BY <1>2, <1>4, <1>5
<1> QED BY <1>1, <1>2, <1>3, <1>4, <1>6

LEMMA InitIInv == Init => IInv
<1> SUFFICES ASSUME Init PROVE IInv
    OBVIOUS
<1>1. SearchList(request, search) /\ request \in Requests
    BY SearchesAre DEF Init
<1>2. \A j \in DOMAIN search : search[j].line \in Seq(Calls)
    BY <1>1 DEF SearchList, SearchOK
<1>3. \A j \in DOMAIN search :
        /\ said[j] = <<>> /\ at[j] = Start(search[j])
        /\ Len(said[j]) = 0 /\ DOMAIN said[j] = {} /\ said[j] \in Seq(Answer)
    BY DEF Init
<1>4. \A j \in DOMAIN search :
        /\ at[j] \in {"wait", "worker", "call", "done"}
        /\ at[j] # "done" => search[j].line # <<>>
        /\ search[j].kind \in Unlimited => at[j] \in {"call", "done"}
    BY <1>3 DEF Start
<1>5. \A j \in DOMAIN search : /\ Len(search[j].line) \in Nat
                               /\ search[j].line # <<>> => Len(search[j].line) > 0
    BY <1>2
<1>6. Typed
  <2>1. at \in [DOMAIN search -> {"wait", "worker", "call", "done"}]
      BY <1>4 DEF Init
  <2>2. said \in [DOMAIN search -> Seq(Answer)]
      BY <1>3 DEF Init
  <2>3. phase = "search" /\ search = Searches(request)
      BY DEF Init
  <2>4. ASSUME NEW j \in DOMAIN search
        PROVE  /\ Len(said[j]) <= Len(search[j].line)
               /\ at[j] # "done" => Len(said[j]) < Len(search[j].line)
      BY <1>3, <1>4, <1>5
  <2> QED BY <1>1, <1>4, <2>1, <2>2, <2>3, <2>4 DEF Typed
<1>7. Offered /\ Needed
    BY <1>3 DEF Offered, Needed
<1>8. PlanBuilt
    BY DEF Init, PlanBuilt
<1> QED BY <1>6, <1>7, <1>8 DEF IInv

\* What a provider answers is an answer, and its files match.
LEMMA AnswersAre ==
    ASSUME Typed, NEW j \in DOMAIN search, at[j] = "call", NEW a \in Answers(j)
    PROVE  /\ Pos(j) \in 1..Len(search[j].line) /\ Prov(j) \in Providers
           /\ a \in Answer
           /\ \A f \in ToSet(a.files) : Matches(search[j], Pos(j), f)
<1>1. Pos(j) \in 1..Len(search[j].line)
    BY SaidIs DEF Pos, Typed
<1>2. Prov(j) \in Providers /\ Prov(j) = search[j].line[Pos(j)].prov
    BY <1>1, SaidIs DEF Prov, Calls
<1>3. Offer[Prov(j)] \in Seq(Files)
    BY <1>2, OfferAssumption
<1>4. CASE \E K \in SUBSET Matching(j) : a = Found(Chosen(Offer[Prov(j)], K))
  <2>1. PICK K \in SUBSET Matching(j) : a = Found(Chosen(Offer[Prov(j)], K))
      BY <1>4
  <2>2. /\ Chosen(Offer[Prov(j)], K) \in Seq(Files)
        /\ ToSet(Chosen(Offer[Prov(j)], K))
             = {Offer[Prov(j)][k] : k \in K \cap DOMAIN Offer[Prov(j)]}
      BY <1>3, ChosenIs
  <2>3. a.files = Chosen(Offer[Prov(j)], K) /\ a \in Answer
      BY <2>1, <2>2 DEF Found, Answer
  <2>4. ASSUME NEW k \in K \cap DOMAIN Offer[Prov(j)]
        PROVE  Matches(search[j], Pos(j), Offer[Prov(j)][k])
    <3>1. k \in Matching(j)
        BY <2>4
    <3>2. Offer[Prov(j)][k] \in ToSet(Offer[Prov(j)])
        BY <1>3, ListIn
    <3> QED BY <1>2, <3>1, <3>2 DEF Matching, Matches, Tier
  <2> QED BY <1>1, <1>2, <2>2, <2>3, <2>4
<1>5. CASE \E e \in Errors : a = [how |-> e, files |-> <<>>]
  <2>1. a \in Answer /\ a.files = <<>>
      BY <1>5 DEF Answer
  <2>2. ToSet(a.files) = {}
      BY <2>1 DEF ToSet
  <2> QED BY <1>1, <1>2, <2>1, <2>2
<1> QED BY <1>4, <1>5 DEF Answers

\* One more answer: what the earlier ones were worth does not change.
LEMMA OneMore ==
    ASSUME NEW answers \in Seq(Answer), NEW a \in Answer
    PROVE  LET more == Append(answers, a)
           IN  /\ more \in Seq(Answer) /\ DOMAIN more = 1..(Len(answers) + 1)
               /\ Len(more) = Len(answers) + 1
               /\ more[Len(answers) + 1] = a
               /\ \A k \in 1..Len(answers) : more[k] = answers[k]
OBVIOUS

LEMMA EnoughKeeps ==
    ASSUME NEW answers \in Seq(Answer), NEW a \in Answer, NEW r, NEW s, NEW k \in 1..Len(answers)
    PROVE  Enough(r, s, Append(answers, a), k) <=> Enough(r, s, answers, k)
<1>1. Len(answers) \in Nat /\ \A m \in 1..Len(answers) : Append(answers, a)[m] = answers[m]
    BY OneMore
<1>2. \A m \in 1..k : Append(answers, a)[m] = answers[m]
    BY <1>1
<1> HIDE DEF Append
<1>3. TierFull(r, s, Append(answers, a), k) <=> TierFull(r, s, answers, k)
    BY <1>2 DEF TierFull
<1>4. Append(answers, a)[k] = answers[k]
    BY <1>1
<1> QED BY <1>3, <1>4 DEF Enough

LEMMA NotEnded ==
    ASSUME NEW s, NEW answers, ~Ends(s, answers)
    PROVE  Len(answers) # Len(s.line) /\ ~Enough(request, s, answers, Len(answers))
BY TierFullIs DEF Ends, Enough

LEMMA AnsweredKeeps ==
    ASSUME IInv, NEW j \in DOMAIN search, Answered(j)
    PROVE  Typed' /\ Offered' /\ Needed'
<1>1. Typed /\ Offered /\ Needed
    BY DEF IInv
<1>2. phase = "search" /\ at[j] = "call" /\ UNCHANGED <<request, search, plan>>
    BY DEF Answered
<1> DEFINE answers(a) == Append(said[j], a)
<1>3. PICK a \in Answers(j) :
        /\ said' = [said EXCEPT ![j] = answers(a)]
        /\ \/ /\ at' = [at EXCEPT ![j] = IF Ends(search[j], answers(a)) THEN "done" ELSE Resume(j)]
              /\ UNCHANGED phase
           \/ /\ at' = [at EXCEPT ![j] = "done"]
              /\ phase' = "raised"
    BY DEF Answered
<1>4. /\ Pos(j) \in 1..Len(search[j].line) /\ a \in Answer
      /\ \A f \in ToSet(a.files) : Matches(search[j], Pos(j), f)
    BY <1>1, <1>2, AnswersAre
<1> DEFINE more == answers(a)
           n == Len(said[j])
<1>5. said[j] \in Seq(Answer) /\ n \in Nat /\ Pos(j) = n + 1 /\ Len(search[j].line) \in Nat
    BY <1>1, SaidIs DEF Pos
<1>6. /\ more \in Seq(Answer) /\ DOMAIN more = 1..(n + 1) /\ Len(more) = n + 1
      /\ more[n + 1] = a /\ \A k \in 1..n : more[k] = said[j][k]
    BY <1>4, <1>5, OneMore
<1>7. \A k \in 1..n : Enough(request, search[j], more, k) <=> Enough(request, search[j], said[j], k)
    BY <1>4, <1>5, EnoughKeeps
<1>8. \A i \in DOMAIN search : said'[i] = IF i = j THEN more ELSE said[i]
    BY <1>1, <1>3 DEF Typed
<1>9. /\ \A i \in DOMAIN search : i # j => at'[i] = at[i]
      /\ at'[j] \in {"wait", "call", "done"}
      /\ search[j].kind \in Unlimited => at'[j] \in {"call", "done"}
      /\ at'[j] # "done" => ~Ends(search[j], more)
      /\ at' \in [DOMAIN search -> {"wait", "worker", "call", "done"}]
      /\ phase' \in {"search", "raised"}
    BY <1>1, <1>2, <1>3 DEF Typed, Resume
<1> HIDE DEF more
<1>10. at'[j] # "done" => n + 1 # Len(search[j].line) /\ ~Enough(request, search[j], more, n + 1)
    BY <1>6, <1>9, NotEnded
<1>11. Typed'
  <2>1. said' \in [DOMAIN search -> Seq(Answer)]
      BY <1>1, <1>3, <1>6 DEF Typed, more
  <2>2. ASSUME NEW i \in DOMAIN search
        PROVE  /\ Len(said'[i]) <= Len(search[i].line)
               /\ at'[i] # "done" => Len(said'[i]) < Len(search[i].line)
               /\ search[i].kind \in Unlimited => at'[i] \in {"call", "done"}
    <3>1. CASE i = j
        BY <3>1, <1>4, <1>5, <1>6, <1>8, <1>9, <1>10
    <3>2. CASE i # j
        BY <3>2, <1>1, <1>8, <1>9 DEF Typed
    <3> QED BY <3>1, <3>2
  <2> QED BY <1>1, <1>2, <1>9, <2>1, <2>2 DEF Typed
<1>12. Offered'
  <2> SUFFICES ASSUME NEW i \in DOMAIN search, NEW k \in DOMAIN said'[i],
                      NEW f \in ToSet(said'[i][k].files)
               PROVE  Matches(search[i], k, f)
      BY <1>2 DEF Offered
  <2>1. CASE i # j
      BY <2>1, <1>1, <1>8 DEF Offered
  <2>2. CASE i = j /\ k \in 1..n
      BY <2>2, <1>1, <1>5, <1>6, <1>8, ListIn DEF Offered
  <2>3. CASE i = j /\ k = n + 1
      BY <2>3, <1>4, <1>5, <1>6, <1>8
  <2>4. i = j => k \in 1..(n + 1)
      BY <1>6, <1>8
  <2> QED BY <1>5, <2>1, <2>2, <2>3, <2>4
<1>13. Needed'
  <2> SUFFICES ASSUME NEW i \in DOMAIN search, NEW k \in DOMAIN said'[i],
                      k < Len(said'[i]) \/ at'[i] # "done"
               PROVE  ~Enough(request, search[i], said'[i], k)
      BY <1>2 DEF Needed
  <2>1. CASE i # j
      BY <2>1, <1>1, <1>8, <1>9 DEF Needed
  <2>2. CASE i = j /\ k \in 1..n
    <3>1. k \in DOMAIN said[j] /\ at[j] # "done"
        BY <1>2, <1>5, <2>2, ListIn
    <3>2. ~Enough(request, search[j], said[j], k)
        BY <1>1, <3>1 DEF Needed
    <3> QED BY <1>7, <1>8, <2>2, <3>2
  <2>3. CASE i = j /\ k = n + 1
    <3>1. at'[j] # "done"
        BY <1>5, <1>6, <1>8, <2>3
    <3> QED BY <1>8, <1>10, <2>3, <3>1
  <2>4. i = j => k \in 1..(n + 1)
      BY <1>6, <1>8
  <2> QED BY <1>5, <2>1, <2>2, <2>3, <2>4
<1> QED BY <1>11, <1>12, <1>13

LEMMA SamePlan ==
    ASSUME UNCHANGED <<request, search, said>>
    PROVE  (PlanFor(PlanFiles))' = PlanFor(PlanFiles)
<1>2. \A j : (TierDone(search[j], said[j], Len(said[j])))'
               <=> TierDone(search[j], said[j], Len(said[j]))
    BY DEF TierDone
<1>3. \A j : Result(j)' = Result(j)
    BY <1>2 DEF Result
<1>4. PlanFiles' = PlanFiles
    BY <1>3 DEF PlanFiles
<1> HIDE DEF PlanFiles
<1> QED BY <1>4 DEF PlanFor

LEMMA NextIInv == IInv /\ [Next]_vars => IInv'
<1> SUFFICES ASSUME IInv, [Next]_vars PROVE IInv'
    OBVIOUS
<1>1. Typed /\ Offered /\ Needed /\ PlanBuilt
    BY DEF IInv
<1>2. ASSUME NEW j \in DOMAIN search, TakeWorker(j) PROVE IInv'
  <2>1. /\ at[j] = "wait" /\ at' = [at EXCEPT ![j] = "worker"]
        /\ UNCHANGED <<request, search, phase, said, plan>> /\ phase = "search"
      BY <1>2 DEF TakeWorker
  <2>2. Typed' /\ Offered' /\ Needed'
      BY <1>1, <2>1 DEF Typed, Offered, Needed
  <2>3. PlanBuilt'
      BY <1>1, <2>1 DEF PlanBuilt
  <2> QED BY <2>2, <2>3 DEF IInv
<1>3. ASSUME NEW j \in DOMAIN search, TakeProvider(j) PROVE IInv'
  <2>1. /\ at[j] = "worker" /\ at' = [at EXCEPT ![j] = "call"]
        /\ UNCHANGED <<request, search, phase, said, plan>> /\ phase = "search"
      BY <1>3 DEF TakeProvider
  <2>2. Typed' /\ Offered' /\ Needed'
      BY <1>1, <2>1 DEF Typed, Offered, Needed
  <2>3. PlanBuilt'
      BY <1>1, <2>1 DEF PlanBuilt
  <2> QED BY <2>2, <2>3 DEF IInv
<1>4. ASSUME NEW j \in DOMAIN search, Answered(j) PROVE IInv'
  <2>1. Typed' /\ Offered' /\ Needed'
      BY <1>4, AnsweredKeeps
  <2>2. phase = "search" /\ phase' # "planned" /\ plan' = plan
      BY <1>4 DEF Answered
  <2>3. PlanBuilt'
      BY <1>1, <2>2 DEF PlanBuilt, NoPlan
  <2> QED BY <2>1, <2>3 DEF IInv
<1>5. CASE Build
  <2>1. /\ \/ phase' = "planned" /\ plan' = PlanFor(PlanFiles)
           \/ phase' = "raised" /\ plan' = plan
        /\ phase = "search" /\ UNCHANGED <<request, search, at, said>>
      BY <1>5 DEF Build, Finish
  <2>2. Typed' /\ Offered' /\ Needed'
      BY <1>1, <2>1 DEF Typed, Offered, Needed
  <2>3. (PlanFor(PlanFiles))' = PlanFor(PlanFiles)
      BY <2>1, SamePlan
  <2>4. PlanBuilt'
      BY <1>1, <2>1, <2>3 DEF PlanBuilt, NoPlan
  <2> QED BY <2>2, <2>4 DEF IInv
<1>6. CASE UNCHANGED vars
  <2>1. UNCHANGED <<request, search, phase, at, said, plan>>
      BY <1>6 DEF vars
  <2>2. Typed' /\ Offered' /\ Needed'
      BY <1>1, <2>1 DEF Typed, Offered, Needed
  <2>3. (PlanFor(PlanFiles))' = PlanFor(PlanFiles)
      BY <2>1, SamePlan
  <2>4. PlanBuilt'
      BY <1>1, <2>1, <2>3 DEF PlanBuilt, NoPlan
  <2> QED BY <2>2, <2>4 DEF IInv
<1> QED BY <1>2, <1>3, <1>4, <1>5, <1>6 DEF Next, Step, Idle

THEOREM Invariance == Safety => []IInv
BY InitIInv, NextIInv, PTL DEF Safety

-----------------------------------------------------------------------------
(* The semaphores: every worker and every slot of a provider is free or    *)
(* held by one search.                                                     *)

Limited(j) == search[j].kind \notin Unlimited
Holders == {j \in DOMAIN search : Limited(j) /\ at[j] \in {"worker", "call"}}
Callers(p) == {j \in DOMAIN search : Limited(j) /\ at[j] = "call" /\ Prov(j) = p}

Counted ==
    /\ slots \in Nat /\ slots + Cardinality(Holders) = Workers
    /\ free \in [Providers -> Nat]
    /\ \A p \in Providers : free[p] + Cardinality(Callers(p)) = PerProvider

LEMMA FiniteHolders ==
    ASSUME Typed
    PROVE  /\ IsFiniteSet(Holders) /\ Cardinality(Holders) \in Nat
           /\ \A p : IsFiniteSet(Callers(p)) /\ Cardinality(Callers(p)) \in Nat
<1>1. IsFiniteSet(DOMAIN search)
    BY SearchIs, FS_Interval, 1 \in Int, Len(search) \in Int
<1>2. Holders \subseteq DOMAIN search /\ \A p : Callers(p) \subseteq DOMAIN search
    BY DEF Holders, Callers
<1>3. IsFiniteSet(Holders) /\ \A p : IsFiniteSet(Callers(p))
    BY <1>1, <1>2, FS_Subset
<1> QED BY <1>3, FS_CardinalityType

LEMMA TakeWorkerCounts ==
    ASSUME Typed, Counted, NEW j \in DOMAIN search, TakeWorker(j)
    PROVE  Counted'
<1>1. /\ at[j] = "wait" /\ at' = [at EXCEPT ![j] = "worker"] /\ slots > 0 /\ slots' = slots - 1
      /\ UNCHANGED <<search, said, free>> /\ Limited(j)
    BY DEF TakeWorker, Typed, Limited
<1>2. Holders' = Holders \cup {j} /\ j \notin Holders
    BY <1>1 DEF Holders, Limited, Typed
<1>3. Cardinality(Holders') = Cardinality(Holders) + 1
    BY <1>2, FiniteHolders, FS_AddElement
<1>4. \A p : Callers(p)' = Callers(p)
    BY <1>1 DEF Callers, Limited, Typed, Prov, Pos
<1>5. slots' \in Nat /\ slots' + Cardinality(Holders') = Workers
    BY <1>1, <1>3, FiniteHolders DEF Counted
<1> QED BY <1>1, <1>4, <1>5 DEF Counted

LEMMA TakeProviderCounts ==
    ASSUME Typed, Counted, NEW j \in DOMAIN search, TakeProvider(j)
    PROVE  Counted'
<1>1. /\ at[j] = "worker" /\ at' = [at EXCEPT ![j] = "call"]
      /\ free[Prov(j)] > 0 /\ free' = [free EXCEPT ![Prov(j)] = @ - 1]
      /\ UNCHANGED <<search, said, slots>> /\ Limited(j)
    BY DEF TakeProvider, Typed, Limited
<1>2. Holders' = Holders
    BY <1>1 DEF Holders, Limited, Typed
<1>3. Prov(j) \in Providers
  <2>1. Pos(j) \in 1..Len(search[j].line)
      BY <1>1, SaidIs DEF Pos, Typed
  <2> QED BY <2>1, SaidIs DEF Prov, Calls
<1>4. \A i \in DOMAIN search : Prov(i)' = Prov(i)
    BY <1>1 DEF Prov, Pos
<1>5. \A p : /\ p # Prov(j) => Callers(p)' = Callers(p)
             /\ p = Prov(j) => Callers(p)' = Callers(p) \cup {j} /\ j \notin Callers(p)
    BY <1>1, <1>4 DEF Callers, Limited, Typed
<1>6. ASSUME NEW p \in Providers
      PROVE  free'[p] \in Nat /\ free'[p] + Cardinality(Callers(p)') = PerProvider
  <2>1. CASE p = Prov(j)
    <3>1. Cardinality(Callers(p)') = Cardinality(Callers(p)) + 1
        BY <1>5, <2>1, FiniteHolders, FS_AddElement
    <3>2. free[p] \in Nat /\ free[p] > 0 /\ free'[p] = free[p] - 1
        BY <1>1, <2>1 DEF Counted
    <3>3. free[p] + Cardinality(Callers(p)) = PerProvider
        BY DEF Counted
    <3> QED BY <3>1, <3>2, <3>3, FiniteHolders
  <2>2. CASE p # Prov(j)
      BY <1>1, <1>5, <2>2 DEF Counted
  <2> QED BY <2>1, <2>2
<1>7. free' \in [Providers -> Nat]
    BY <1>1, <1>6 DEF Counted
<1> QED BY <1>1, <1>2, <1>6, <1>7 DEF Counted

LEMMA AnsweredCounts ==
    ASSUME Typed, Counted, NEW j \in DOMAIN search, Answered(j)
    PROVE  Counted'
<1>1. /\ at[j] = "call" /\ UNCHANGED search /\ Release(j)
      /\ \E x : said' = [said EXCEPT ![j] = x]
      /\ \E y \in {"done", Resume(j)} : at' = [at EXCEPT ![j] = y]
    BY DEF Answered
<1>2. /\ \A i \in DOMAIN search : i # j => at'[i] = at[i] /\ said'[i] = said[i] /\ Prov(i)' = Prov(i)
      /\ Limited(j) => at'[j] \in {"done", "wait"}
    BY <1>1 DEF Typed, Limited, Resume, Prov, Pos
<1>3. \A i \in DOMAIN search : Limited(i)' <=> Limited(i)
    BY <1>1 DEF Limited
<1>4. CASE ~Limited(j)
  <2>1. UNCHANGED <<slots, free>>
      BY <1>1, <1>4 DEF Release, Limited
  <2>2. Holders' = Holders /\ \A p : Callers(p)' = Callers(p)
      BY <1>1, <1>2, <1>3, <1>4 DEF Holders, Callers
  <2> QED BY <2>1, <2>2 DEF Counted
<1>5. CASE Limited(j)
  <2>1. slots' = slots + 1 /\ free' = [free EXCEPT ![Prov(j)] = @ + 1]
      BY <1>1, <1>5 DEF Release, Limited
  <2>2. Holders' = Holders \ {j} /\ j \in Holders
      BY <1>1, <1>2, <1>3, <1>5 DEF Holders
  <2>3. Cardinality(Holders') = Cardinality(Holders) - 1
      BY <2>2, FiniteHolders, FS_RemoveElement
  <2>4. \A p : /\ p # Prov(j) => Callers(p)' = Callers(p)
               /\ p = Prov(j) => Callers(p)' = Callers(p) \ {j} /\ j \in Callers(p)
      BY <1>1, <1>2, <1>3, <1>5 DEF Callers
  <2>5. slots' \in Nat /\ slots' + Cardinality(Holders') = Workers
      BY <2>1, <2>3, FiniteHolders DEF Counted
  <2>6. ASSUME NEW p \in Providers
        PROVE  free'[p] \in Nat /\ free'[p] + Cardinality(Callers(p)') = PerProvider
    <3>1. free[p] \in Nat /\ free[p] + Cardinality(Callers(p)) = PerProvider
        BY DEF Counted
    <3>2. CASE p = Prov(j)
      <4>1. Cardinality(Callers(p)') = Cardinality(Callers(p)) - 1
          BY <2>4, <3>2, FiniteHolders, FS_RemoveElement
      <4>2. free'[p] = free[p] + 1
          BY <2>1, <3>2 DEF Counted
      <4> QED BY <3>1, <4>1, <4>2, FiniteHolders
    <3>3. CASE p # Prov(j)
      <4>1. free'[p] = free[p]
          BY <2>1, <3>3 DEF Counted
      <4> QED BY <2>4, <3>1, <3>3, <4>1
    <3> QED BY <3>2, <3>3
  <2>7. free' \in [Providers -> Nat]
      BY <2>1, <2>6 DEF Counted
  <2> QED BY <2>5, <2>6, <2>7 DEF Counted
<1> QED BY <1>4, <1>5

LEMMA NextCounted == IInv /\ Counted /\ [Next]_vars => Counted'
<1> SUFFICES ASSUME IInv, Counted, [Next]_vars PROVE Counted'
    OBVIOUS
<1>1. Typed
    BY DEF IInv
<1>2. ASSUME UNCHANGED <<search, at, said, slots, free>> PROVE Counted'
  <2>1. Holders' = Holders /\ \A p : Callers(p)' = Callers(p)
      BY <1>2 DEF Holders, Callers, Limited, Prov, Pos
  <2> QED BY <1>2, <2>1 DEF Counted
<1>3. CASE Build
    BY <1>2, <1>3 DEF Build
<1>4. CASE UNCHANGED vars
    BY <1>2, <1>4 DEF vars
<1>5. ASSUME NEW j \in DOMAIN search, Step(j) PROVE Counted'
    BY <1>1, <1>5, TakeWorkerCounts, TakeProviderCounts, AnsweredCounts DEF Step
<1> QED BY <1>3, <1>4, <1>5 DEF Next, Idle

LEMMA InitCounted == Init => Counted
<1> SUFFICES ASSUME Init PROVE Counted
    OBVIOUS
<1>1. \A j \in DOMAIN search : Limited(j) => at[j] \notin {"worker", "call"}
    BY DEF Init, Start, Limited
<1>2. Holders = {} /\ \A p : Callers(p) = {}
    BY <1>1 DEF Holders, Callers
<1>3. Cardinality(Holders) = 0 /\ \A p : Cardinality(Callers(p)) = 0
    BY <1>2, FS_EmptySet
<1> QED BY <1>3, PlannerAssumption DEF Init, Counted

LEMMA CountedInvariance == Safety => []Counted
<1>1. IInv /\ Counted /\ [Next]_vars => Counted'
    BY NextCounted
<1> QED BY <1>1, InitCounted, Invariance, PTL DEF Safety

(* Types, and the bounds of the semaphores: no more searches call a         *)
(* provider, or hold a worker, than the settings allow, and what was taken  *)
(* is given back (_search_logical_files).                                   *)
THEOREM TypeCorrect == Safety => []TypeOK
<1>1. IInv /\ Counted => TypeOK
  <2> SUFFICES ASSUME IInv, Counted PROVE TypeOK
      OBVIOUS
  <2>1. Typed
      BY DEF IInv
  <2>2. slots \in 0..Workers
      BY <2>1, FiniteHolders, PlannerAssumption DEF Counted
  <2>3. ASSUME NEW p \in Providers PROVE free[p] \in 0..PerProvider
    <3>1. free[p] \in Nat /\ free[p] + Cardinality(Callers(p)) = PerProvider
        BY DEF Counted
    <3>2. Cardinality(Callers(p)) \in Nat
        BY <2>1, FiniteHolders
    <3> QED BY <3>1, <3>2, PlannerAssumption
  <2> QED BY <2>1, <2>2, <2>3 DEF Typed, TypeOK
<1> QED BY <1>1, Invariance, CountedInvariance, PTL

(* A station that a provider of the selected regions publishes is asked of *)
(* such a provider only, never of a mirror or of its neighbours            *)
(* (_resolve_logical_file: region-owned stations must not fall through).   *)
THEOREM OwnersAreAsked == Safety => []OwnersAsked
<1>1. IInv => OwnersAsked
  <2> SUFFICES ASSUME IInv,
                      request.kind = "obs", request.from = None, ~request.discover,
                      request.nets # <<>>,
                      NEW j \in DOMAIN search, NEW k \in DOMAIN said[j], NEW w \in search[j].want,
                      Claimants(w[1], request.nets, request.srcs) # {}
               PROVE  search[j].line[k].prov \in Claimants(w[1], request.nets, request.srcs)
      BY Zenon DEF OwnersAsked
  <2>1. Typed /\ request \in Requests /\ request.nets \in Seq(Regions)
      BY RequestAssumption DEF IInv, Typed, IsRequest
  <2>2. SearchOK(request, search[j]) /\ k \in DOMAIN search[j].line
      BY <2>1, SearchIs, SaidIs
  <2>3. w[1] \in Stations /\ search[j].line[k].prov \in ToSet(RouteOf(request, w[1]))
      BY <2>2 DEF SearchOK
  <2>4. ToSet(Route(w[1], request.nets, request.srcs))
            \subseteq Claimants(w[1], request.nets, request.srcs)
      BY <2>1, <2>3, RouteIs
  <2> QED BY <2>3, <2>4 DEF RouteOf
<1> QED BY <1>1, Invariance, PTL

-----------------------------------------------------------------------------
(* What the searches found.                                                *)

LEMMA FilesOfIs ==
    ASSUME NEW answers \in Seq(Answer)
    PROVE  /\ FilesOf(answers) \in Seq(Files)
           /\ ToSet(FilesOf(answers)) = UNION {ToSet(answers[k].files) : k \in DOMAIN answers}
<1> DEFINE ss == [k \in DOMAIN answers |-> answers[k].files]
<1>1. /\ DOMAIN answers = 1..Len(answers) /\ Len(answers) \in Nat
      /\ \A k \in DOMAIN answers : answers[k] \in Answer
    BY ListIn
<1>2. \A k \in DOMAIN answers : answers[k].files \in Seq(Files)
    BY <1>1 DEF Answer
<1>3. ss \in Seq(Seq(Files)) /\ DOMAIN ss = DOMAIN answers
      /\ \A k \in DOMAIN answers : ss[k] = answers[k].files
    BY <1>1, <1>2
<1>4. FilesOf(answers) = FlattenSeq(ss)
    BY DEF FilesOf
<1> HIDE DEF ss
<1>5. FlattenSeq(ss) \in Seq(Files) /\ ToSet(FlattenSeq(ss)) = UNION {ToSet(ss[k]) : k \in DOMAIN ss}
    BY <1>3, FlattenToSet
<1> QED BY <1>3, <1>4, <1>5

\* The preferred file of some is one of them.
LEMMA PreferredIs ==
    ASSUME NEW files \in Seq(Files)
    PROVE  /\ Preferred(files) \in Seq(Files) /\ Len(Preferred(files)) <= 1
           /\ ToSet(Preferred(files)) \subseteq ToSet(files)
           /\ files # <<>> => Preferred(files) # <<>> /\ ToSet(Preferred(files)) # {}
<1> DEFINE T == ToSet(files)
           best == CHOOSE f \in T : \A g \in T : Rank[f.name] <= Rank[g.name]
<1>1. Preferred(files) = IF files = <<>> THEN <<>> ELSE <<best>>
    BY DEF Preferred
<1>2. T \subseteq Files /\ (files # <<>> => T # {})
  <2>1. files # <<>> => 1 \in DOMAIN files
      BY ListIn
  <2> QED BY <2>1, ListIn DEF ToSet
<1>3. ASSUME files # <<>> PROVE best \in T
  <2> HIDE DEF T
  <2> DEFINE h == [f \in T |-> Rank[f.name]]
  <2>1. h \in [T -> Nat]
      BY <1>2, OfferAssumption
  <2>2. PICK f \in T : \A g \in T : h[f] <= h[g]
    <3> HIDE DEF h
    <3> QED BY <2>1, <1>2, <1>3, LeastOf
  <2>3. \A g \in T : Rank[f.name] <= Rank[g.name]
      BY <2>2
  <2> QED BY <2>3
<1> HIDE DEF best
<1>4. CASE files = <<>>
  <2>1. Preferred(files) = <<>> /\ ToSet(<<>>) = {} /\ <<>> \in Seq(Files) /\ Len(<<>>) = 0
      BY <1>1, <1>4 DEF ToSet
  <2> QED BY <2>1, <1>4
<1>5. CASE files # <<>>
  <2>1. Preferred(files) = <<best>> /\ best \in Files /\ best \in T
      BY <1>1, <1>2, <1>3, <1>5
  <2>2. <<best>> \in Seq(Files) /\ Len(<<best>>) = 1 /\ ToSet(<<best>>) = {best} /\ <<best>> # <<>>
      BY <2>1 DEF ToSet
  <2> QED BY <2>1, <2>2
<1> QED BY <1>4, <1>5

\* One file of each station and day, of those that there are.
LEMMA PreferredOfEachIs ==
    ASSUME NEW files \in Seq(Files)
    PROVE  /\ PreferredOfEach(files) \in Seq(Files)
           /\ ToSet(PreferredOfEach(files)) \subseteq ToSet(files)
           /\ \A f \in ToSet(files) : \E g \in ToSet(PreferredOfEach(files)) :
                g.owner = f.owner /\ g.day = f.day
<1> DEFINE place(f) == <<f.owner, f.day>>
           seen == [k \in DOMAIN files |-> place(files[k])]
           places == Chosen(files, Firsts(seen))
           of(g) == Those(files, {f \in ToSet(files) : place(f) = place(g)})
           ss == [k \in DOMAIN places |-> Preferred(of(places[k]))]
<1>1. PreferredOfEach(files) = FlattenSeq(ss)
    BY DEF PreferredOfEach, FirstOfEach
<1>2. DOMAIN files = 1..Len(files) /\ Len(files) \in Nat
    BY ListIn
<1>3. seen \in Seq(ToSet(seen)) /\ DOMAIN seen = DOMAIN files
    BY <1>2, FunctionIsList
<1>4. \A k \in DOMAIN files : seen[k] = place(files[k])
    OBVIOUS
<1> HIDE DEF seen, place
<1>5. \A k \in DOMAIN files : \E m \in DOMAIN files \cap Firsts(seen) : seen[m] = seen[k]
    BY <1>3, FirstsAre
<1>6. /\ places \in Seq(Files)
      /\ ToSet(places) = {files[k] : k \in Firsts(seen) \cap DOMAIN files}
    BY ChosenIs
<1>7. /\ DOMAIN places = 1..Len(places) /\ Len(places) \in Nat
      /\ \A k \in DOMAIN places : places[k] \in ToSet(places)
    BY <1>6, ListIn
<1> HIDE DEF places
<1>8. \A g : of(g) \in Seq(Files) /\ ToSet(of(g)) = {f \in ToSet(files) : place(f) = place(g)}
  <2> TAKE g
  <2> DEFINE T == {f \in ToSet(files) : place(f) = place(g)}
  <2> HIDE DEF T
  <2>1. Those(files, T) \in Seq(Files) /\ ToSet(Those(files, T)) = ToSet(files) \cap T
      BY ThoseIs
  <2> QED BY <2>1 DEF T
<1> HIDE DEF of
<1>9. \A g : /\ Preferred(of(g)) \in Seq(Files)
             /\ ToSet(Preferred(of(g))) \subseteq {f \in ToSet(files) : place(f) = place(g)}
             /\ ToSet(of(g)) # {} => ToSet(Preferred(of(g))) # {}
  <2>1. ToSet(<<>>) = {}
      BY DEF ToSet
  <2> QED BY <1>8, <2>1, PreferredIs
<1>10. /\ ss \in Seq(Seq(Files)) /\ DOMAIN ss = DOMAIN places
       /\ \A k \in DOMAIN places : ss[k] = Preferred(of(places[k]))
    BY <1>7, <1>9
<1> HIDE DEF ss
<1>11. /\ FlattenSeq(ss) \in Seq(Files)
       /\ ToSet(FlattenSeq(ss)) = UNION {ToSet(ss[k]) : k \in DOMAIN ss}
    BY <1>10, FlattenToSet
<1>12. ToSet(FlattenSeq(ss)) \subseteq ToSet(files)
    BY <1>9, <1>10, <1>11
<1>13. ASSUME NEW f \in ToSet(files)
       PROVE  \E g \in ToSet(FlattenSeq(ss)) : g.owner = f.owner /\ g.day = f.day
  <2>1. PICK k \in DOMAIN files : f = files[k]
      BY DEF ToSet
  <2>2. PICK m \in DOMAIN files \cap Firsts(seen) : seen[m] = seen[k]
      BY <1>5
  <2>3. files[m] \in ToSet(places) /\ place(files[m]) = place(f)
      BY <1>4, <1>6, <2>1, <2>2
  <2>4. PICK i \in DOMAIN places : places[i] = files[m]
      BY <2>3 DEF ToSet
  <2>5. f \in ToSet(of(places[i]))
      BY <1>8, <2>3, <2>4
  <2>6. PICK g \in ToSet(ss[i]) : place(g) = place(places[i])
      BY <1>9, <1>10, <2>5
  <2>7. g \in ToSet(FlattenSeq(ss)) /\ place(g) = place(f)
      BY <1>10, <1>11, <2>3, <2>4, <2>6
  <2> QED BY <2>7 DEF place
<1> QED BY <1>1, <1>11, <1>12, <1>13

\* What a search contributes is something it was answered.
LEMMA ResultIs ==
    ASSUME Typed, NEW j \in DOMAIN search
    PROVE  LET files == FilesOf(said[j])
               s == search[j]
               n == Len(said[j])
               full == said[j] # <<>> /\ TierFull(request, s, said[j], n)
           IN  /\ Result(j) \in Seq(Files) /\ ToSet(Result(j)) \subseteq ToSet(files)
               /\ s.kind = "item" =>
                    Len(Result(j)) <= 1 /\ (files # <<>> => ToSet(Result(j)) # {})
               /\ s.kind = "epn" =>
                    \A f \in ToSet(files) : \E g \in ToSet(Result(j)) :
                        g.owner = f.owner /\ g.day = f.day
               /\ s.kind = "product" /\ full =>
                    ToSet(Result(j)) = {f \in ToSet(files) : f.tier = s.line[n].tier}
               /\ s.kind = "product" /\ ~full => Result(j) = files
               /\ s.kind \notin {"item", "epn", "product"} => Result(j) = files
<1> DEFINE files == FilesOf(said[j])
           s == search[j]
           n == Len(said[j])
           full == said[j] # <<>> /\ TierFull(request, s, said[j], n)
           tier == s.line[n].tier
           of == OfTier(files, tier)
<1>1. files \in Seq(Files)
    BY SaidIs, FilesOfIs
<1>2. of \in Seq(Files) /\ ToSet(of) = {f \in ToSet(files) : f.tier = tier}
  <2> DEFINE T == {f \in ToSet(files) : f.tier = tier}
  <2> HIDE DEF files, tier
  <2>1. of = Those(files, T)
      BY DEF OfTier
  <2> HIDE DEF T, of
  <2>2. Those(files, T) \in Seq(Files) /\ ToSet(Those(files, T)) = ToSet(files) \cap T
      BY <1>1, ThoseIs
  <2> QED BY <2>1, <2>2 DEF T
<1>3. TierDone(s, said[j], n) <=> TierFull(request, s, said[j], n)
    BY TierFullIs
<1> HIDE DEF files, of, tier
<1>4. Result(j) = CASE s.kind = "item" -> Preferred(files)
                    [] s.kind = "epn" -> PreferredOfEach(files)
                    [] s.kind = "product" /\ said[j] # <<>> /\ TierDone(s, said[j], n) -> of
                    [] OTHER -> files
    BY DEF Result, files, of, tier
<1> HIDE DEF s, n
<1>5. CASE s.kind = "item"
  <2>1. Result(j) = Preferred(files)
      BY <1>4, <1>5
  <2> QED BY <1>1, <1>5, <2>1, PreferredIs DEF files, s, n
<1>6. CASE s.kind = "epn"
  <2>1. Result(j) = PreferredOfEach(files)
      BY <1>4, <1>6
  <2> QED BY <1>1, <1>6, <2>1, PreferredOfEachIs DEF files, s, n
<1>7. CASE s.kind = "product" /\ full
  <2>1. Result(j) = of
      BY <1>3, <1>4, <1>7
  <2> QED BY <1>2, <1>7, <2>1 DEF files, s, n, tier
<1>8. CASE s.kind = "product" /\ ~full
  <2>1. Result(j) = files
      BY <1>3, <1>4, <1>8
  <2> QED BY <1>1, <1>8, <2>1 DEF files, s, n
<1>9. CASE s.kind \notin {"item", "epn", "product"}
  <2>1. Result(j) = files
      BY <1>4, <1>9
  <2> QED BY <1>1, <1>9, <2>1 DEF files, s, n
<1> QED BY <1>5, <1>6, <1>7, <1>8, <1>9

\* Of the files of one key the first is kept.
LEMMA DeduplicatedIs ==
    ASSUME NEW files \in Seq(Files)
    PROVE  LET kept == Deduplicated(files)
           IN  /\ kept \in Seq(Files) /\ ToSet(kept) \subseteq ToSet(files)
               /\ \A f \in ToSet(files) : \E g \in ToSet(kept) : Key(g) = Key(f)
               /\ \A k, m \in DOMAIN kept : Key(kept[k]) = Key(kept[m]) => k = m
<1> DEFINE keys == [k \in DOMAIN files |-> Key(files[k])]
           K == Firsts(keys)
           kept == Chosen(files, K)
<1>1. Deduplicated(files) = kept
    BY DEF Deduplicated, FirstOfEach
<1>2. DOMAIN files = 1..Len(files) /\ Len(files) \in Nat
    BY ListIn
<1>3. keys \in Seq(ToSet(keys)) /\ DOMAIN keys = DOMAIN files
    BY <1>2, FunctionIsList
<1>4. \A k \in DOMAIN files : keys[k] = Key(files[k])
    OBVIOUS
<1> HIDE DEF keys
<1>5. /\ K \subseteq DOMAIN files
      /\ \A k \in DOMAIN files : \E m \in K : keys[m] = keys[k]
      /\ \A k, m \in K : keys[k] = keys[m] => k = m
    BY <1>3, FirstsAre
<1> HIDE DEF K
<1>6. kept \in Seq(Files) /\ ToSet(kept) = {files[k] : k \in K \cap DOMAIN files}
    BY ChosenIs
<1>7. \A k, m \in K \cap DOMAIN files : files[k] = files[m] => k = m
    BY <1>4, <1>5
<1>8. \A i, j \in DOMAIN kept : kept[i] = kept[j] => i = j
    BY <1>7, ChosenInjective
<1> HIDE DEF kept
<1>9. ASSUME NEW k \in DOMAIN kept, NEW m \in DOMAIN kept, Key(kept[k]) = Key(kept[m])
      PROVE  k = m
  <2>1. kept[k] \in ToSet(kept) /\ kept[m] \in ToSet(kept)
      BY <1>6, ListIn
  <2>2. PICK i \in K : kept[k] = files[i]
      BY <1>6, <2>1
  <2>3. PICK j \in K : kept[m] = files[j]
      BY <1>6, <2>1
  <2>4. i = j
      BY <1>4, <1>5, <1>9, <2>2, <2>3
  <2> QED BY <1>8, <2>2, <2>3, <2>4
<1>10. ASSUME NEW f \in ToSet(files) PROVE \E g \in ToSet(kept) : Key(g) = Key(f)
  <2>1. PICK k \in DOMAIN files : f = files[k]
      BY DEF ToSet
  <2>2. PICK m \in K : keys[m] = keys[k]
      BY <1>5
  <2>3. files[m] \in ToSet(kept) /\ Key(files[m]) = Key(f)
      BY <1>4, <1>5, <1>6, <2>1, <2>2
  <2> QED BY <2>3
<1>11. ToSet(kept) \subseteq ToSet(files)
    BY <1>6 DEF ToSet
<1> QED BY <1>1, <1>6, <1>9, <1>10, <1>11

\* The files of all searches, and what is left of them for the plan.
AllFound == FlattenSeq([j \in DOMAIN search |-> Result(j)])

LEMMA AllFilesAre ==
    ASSUME Typed
    PROVE  LET all == Deduplicated(AllFound)
           IN  /\ all \in Seq(Files)
               /\ \A f \in ToSet(all) : \E j \in DOMAIN search : f \in ToSet(Result(j))
               /\ \A j \in DOMAIN search : \A f \in ToSet(Result(j)) :
                    \E g \in ToSet(all) : Key(g) = Key(f)
               /\ \A k, m \in DOMAIN all : Key(all[k]) = Key(all[m]) => k = m
<1> DEFINE ss == [j \in DOMAIN search |-> Result(j)]
<1>1. DOMAIN search = 1..Len(search) /\ Len(search) \in Nat
    BY SearchIs
<1>2. \A j \in DOMAIN search : Result(j) \in Seq(Files)
    BY ResultIs
<1>3. ss \in Seq(Seq(Files)) /\ DOMAIN ss = DOMAIN search
      /\ \A j \in DOMAIN search : ss[j] = Result(j)
    BY <1>1, <1>2
<1>4. AllFound = FlattenSeq(ss)
    BY DEF AllFound
<1> HIDE DEF ss
<1>5. FlattenSeq(ss) \in Seq(Files) /\ ToSet(FlattenSeq(ss)) = UNION {ToSet(ss[j]) : j \in DOMAIN ss}
    BY <1>3, FlattenToSet
<1>6. /\ AllFound \in Seq(Files)
      /\ \A f : f \in ToSet(AllFound) <=> \E j \in DOMAIN search : f \in ToSet(Result(j))
    BY <1>3, <1>4, <1>5
<1> HIDE DEF AllFound
<1> QED BY <1>6, DeduplicatedIs

LEMMA PlanFilesAre ==
    ASSUME Typed
    PROVE  LET all == Deduplicated(AllFound)
           IN  /\ PlanFiles \in Seq(Files) /\ ToSet(PlanFiles) \subseteq ToSet(all)
               /\ \A k, m \in DOMAIN PlanFiles : PlanFiles[k] = PlanFiles[m] => k = m
               /\ request.kind # "product" => PlanFiles = all
               /\ request.kind = "product" =>
                    ToSet(PlanFiles) = ToSet(all) \cap ToSet(Bundle(request, all))
<1> DEFINE all == Deduplicated(AllFound)
           T == ToSet(Bundle(request, all))
<1>1. PlanFiles = IF request.kind # "product" THEN all ELSE Those(all, T)
    BY DEF PlanFiles, AllFound
<1>2. all \in Seq(Files) /\ \A k, m \in DOMAIN all : all[k] = all[m] => k = m
    BY AllFilesAre
<1> HIDE DEF all, T
<1>3. /\ Those(all, T) \in Seq(Files) /\ ToSet(Those(all, T)) = ToSet(all) \cap T
      /\ \A k, m \in DOMAIN Those(all, T) : Those(all, T)[k] = Those(all, T)[m] => k = m
    BY <1>2, ThoseIs, ThoseInjective
<1> QED BY <1>1, <1>2, <1>3 DEF all, T

\* Who had files, when the search is over, and that only one had.
LEMMA OneAnswer ==
    ASSUME Typed, Needed, NEW j \in DOMAIN search, search[j].kind # "product",
           NEW k \in DOMAIN said[j], said[j][k].files # <<>>
    PROVE  k = Len(said[j]) /\ ToSet(FilesOf(said[j])) = ToSet(said[j][k].files)
<1>1. said[j] \in Seq(Answer) /\ DOMAIN said[j] = 1..Len(said[j]) /\ Len(said[j]) \in Nat
    BY SaidIs
<1>2. \A m \in DOMAIN said[j] : m < Len(said[j]) => said[j][m].files = <<>>
    BY DEF Needed, Enough
<1>3. k = Len(said[j])
    BY <1>1, <1>2
<1>4. \A m \in DOMAIN said[j] : m # k => ToSet(said[j][m].files) = {}
  <2>1. ToSet(<<>>) = {}
      BY DEF ToSet
  <2> QED BY <1>1, <1>2, <1>3, <2>1
<1>5. ToSet(FilesOf(said[j])) = UNION {ToSet(said[j][m].files) : m \in DOMAIN said[j]}
    BY <1>1, FilesOfIs
<1> QED BY <1>3, <1>4, <1>5

LEMMA FilledPlan ==
    ASSUME PlanBuilt, Planned
    PROVE  plan = PlanFor(PlanFiles)
BY DEF PlanBuilt, Planned

(* The first provider of a line that has files decides: nobody after it is *)
(* asked, and what it had is planned: one of its files for each station    *)
(* and day of a search for one file or of EPN, all of them otherwise       *)
(* (_resolve_logical_file, _resolve_observation_passthrough_batch).        *)
THEOREM FirstAnswerDecides == Safety => []FirstAnswerWins
<1>1. IInv => FirstAnswerWins
  <2> SUFFICES ASSUME IInv,
                      NEW j \in DOMAIN search, search[j].kind # "product",
                      NEW k \in DOMAIN said[j], said[j][k].files # <<>>
               PROVE  /\ k = Len(said[j])
                      /\ Planned /\ request.kind # "product" =>
                           LET keys(files) == {Key(f) : f \in ToSet(files)}
                               place(key) == <<key[1], key[2]>>
                               answered == keys(said[j][k].files)
                               kept == answered \cap keys(plan.files)
                           IN  CASE search[j].kind = "item" -> kept # {}
                                 [] search[j].kind = "epn" ->
                                      {place(key) : key \in kept} = {place(key) : key \in answered}
                                 [] OTHER -> kept = answered
      BY Zenon DEF FirstAnswerWins
  <2>1. Typed /\ Needed /\ PlanBuilt
      BY DEF IInv
  <2>2. k = Len(said[j]) /\ ToSet(FilesOf(said[j])) = ToSet(said[j][k].files)
      BY <2>1, OneAnswer
  <2> SUFFICES ASSUME Planned, request.kind # "product"
               PROVE  LET keys(files) == {Key(f) : f \in ToSet(files)}
                          place(key) == <<key[1], key[2]>>
                          answered == keys(said[j][k].files)
                          kept == answered \cap keys(plan.files)
                      IN  CASE search[j].kind = "item" -> kept # {}
                            [] search[j].kind = "epn" ->
                                 {place(key) : key \in kept} = {place(key) : key \in answered}
                            [] OTHER -> kept = answered
      BY <2>2
  <2> DEFINE F == ToSet(said[j][k].files)
             answered == {Key(f) : f \in F}
             planned == {Key(f) : f \in ToSet(plan.files)}
             kept == answered \cap planned
             place(key) == <<key[1], key[2]>>
  <2>3. plan.files = Deduplicated(AllFound)
    <3>1. plan.files = PlanFiles
        BY <2>1, FilledPlan DEF PlanFor
    <3> QED BY <3>1, <2>1, PlanFilesAre
  <2>4. \A f \in ToSet(Result(j)) : Key(f) \in planned
      BY <2>1, <2>3, AllFilesAre
  <2>5. /\ ToSet(Result(j)) \subseteq F
        /\ search[j].kind = "item" /\ FilesOf(said[j]) # <<>> => ToSet(Result(j)) # {}
        /\ search[j].kind = "epn" => \A f \in F : \E g \in ToSet(Result(j)) :
                                       g.owner = f.owner /\ g.day = f.day
        /\ search[j].kind \notin {"item", "epn"} => ToSet(Result(j)) = F
      BY <2>1, <2>2, ResultIs
  <2>6. F # {} /\ FilesOf(said[j]) # <<>>
    <3>1. said[j][k].files \in Seq(Files)
        BY <2>1, SaidIs DEF Answer
    <3>2. 1 \in DOMAIN said[j][k].files
        BY <3>1, ListIn
    <3>3. said[j][k].files[1] \in F
        BY <3>2 DEF ToSet
    <3>4. ToSet(<<>>) = {}
        BY DEF ToSet
    <3> QED BY <2>2, <3>3, <3>4
  <2> HIDE DEF F, planned
  <2>7. CASE search[j].kind = "item"
    <3>1. PICK f \in ToSet(Result(j)) : TRUE
        BY <2>5, <2>6, <2>7
    <3>2. Key(f) \in kept
        BY <2>4, <2>5, <3>1
    <3> QED BY <2>7, <3>2 DEF F, planned
  <2>8. CASE search[j].kind = "epn"
    <3>1. ASSUME NEW f \in F PROVE \E key \in kept : place(key) = place(Key(f))
      <4>1. PICK g \in ToSet(Result(j)) : g.owner = f.owner /\ g.day = f.day
          BY <2>5, <2>8
      <4>2. Key(g) \in kept
          BY <2>4, <2>5
      <4>3. place(Key(g)) = place(Key(f))
          BY <4>1 DEF Key
      <4> QED BY <4>2, <4>3
    <3>2. {place(key) : key \in kept} = {place(key) : key \in answered}
        BY <3>1
    <3> QED BY <2>8, <3>2 DEF F, planned
  <2>9. CASE search[j].kind \notin {"item", "epn"}
    <3>1. kept = answered
        BY <2>4, <2>5, <2>9
    <3> QED BY <2>9, <3>1 DEF F, planned
  <2> QED BY <2>7, <2>8, <2>9
<1> QED BY <1>1, Invariance, PTL

-----------------------------------------------------------------------------
(* One task for each file.                                                 *)

\* A bundle has one file of a type at most.
OnePerType(s) == \A f, g \in ToSet(s) : f.type = g.type => f = g

\* Best is the first file there is of a type, none or one.
LEMMA BestIs ==
    ASSUME NEW files \in Seq(Files), NEW type, NEW centers, NEW tiers
    PROVE  LET like == {f \in ToSet(files) : /\ f.type = type /\ f.center \in centers
                                             /\ f.tier \in tiers}
               best == Best(files, type, centers, tiers)
           IN  /\ best \in Seq(Files) /\ Len(best) <= 1 /\ ToSet(best) \subseteq like
               /\ best = <<>> <=> like = {}
               /\ best # <<>> => ToSet(best) # {}
<1> DEFINE ok(f) == f.type = type /\ f.center \in centers /\ f.tier \in tiers
           like == {f \in ToSet(files) : ok(f)}
           I == {i \in 1..Len(files) : ok(files[i])}
           k == IF I = {} THEN 0 ELSE Min(I)
           best == Best(files, type, centers, tiers)
<1>1. best = IF k = 0 THEN <<>> ELSE <<files[k]>>
    BY DEF Best, SelectInSeq
<1>2. DOMAIN files = 1..Len(files) /\ Len(files) \in Nat
      /\ \A i \in DOMAIN files : files[i] \in Files /\ files[i] \in ToSet(files)
    BY ListIn
<1>3. I \in SUBSET Nat /\ (I # {} => Min(I) \in I)
  <2>1. I \in SUBSET Nat
      OBVIOUS
  <2> HIDE DEF I
  <2> QED BY <2>1, MinIsLeast
<1>4. I = {} <=> like = {}
    BY <1>2 DEF ToSet
<1>5. k # 0 => files[k] \in like /\ files[k] \in Files
    BY <1>2, <1>3
<1>6. k = 0 <=> like = {}
    BY <1>3, <1>4
<1> HIDE DEF k, like, best
<1>7. ToSet(<<>>) = {} /\ <<>> \in Seq(Files) /\ Len(<<>>) <= 1
    BY DEF ToSet
<1>8. CASE k = 0
    BY <1>1, <1>6, <1>7, <1>8 DEF like, best
<1>9. CASE k # 0
  <2>1. best = <<files[k]>> /\ files[k] \in like /\ files[k] \in Files
      BY <1>1, <1>5, <1>9
  <2>2. /\ <<files[k]>> \in Seq(Files) /\ Len(<<files[k]>>) <= 1 /\ <<files[k]>> # <<>>
        /\ ToSet(<<files[k]>>) = {files[k]}
      BY <2>1 DEF ToSet
  <2> QED BY <1>6, <1>9, <2>1, <2>2 DEF like, best
<1> QED BY <1>8, <1>9

\* One list of at most one file for each type of a request.
PerType(best, types) == FlattenSeq([k \in DOMAIN types |-> best[types[k]]])

LEMMA PerTypeIs ==
    ASSUME NEW files \in Seq(Files), NEW types, types \in Seq(ToSet(types)),
           NEW best \in [ToSet(types) -> Seq(Files)],
           \A type \in ToSet(types) :
              /\ Len(best[type]) <= 1
              /\ \A f \in ToSet(best[type]) : f \in ToSet(files) /\ f.type = type
    PROVE  LET b == PerType(best, types)
           IN  /\ b \in Seq(Files) /\ ToSet(b) \subseteq ToSet(files) /\ OnePerType(b)
               /\ \A f : f \in ToSet(b) <=> \E type \in ToSet(types) : f \in ToSet(best[type])
               /\ Complete(b, types) <=> \A type \in ToSet(types) : best[type] # <<>>
<1> DEFINE ss == [k \in DOMAIN types |-> best[types[k]]]
           b == FlattenSeq(ss)
<1>1. /\ DOMAIN types = 1..Len(types) /\ Len(types) \in Nat
      /\ \A k \in DOMAIN types : types[k] \in ToSet(types)
      /\ \A type \in ToSet(types) : \E k \in DOMAIN types : type = types[k]
    BY ListIn DEF ToSet
<1>2. /\ ss \in Seq(Seq(Files)) /\ DOMAIN ss = DOMAIN types /\ Len(ss) = Len(types)
      /\ \A k \in DOMAIN types : ss[k] = best[types[k]]
    BY <1>1
<1> HIDE DEF ss
<1>3. \A k \in DOMAIN ss : Len(ss[k]) <= 1
    BY <1>1, <1>2
<1>4. b \in Seq(Files) /\ ToSet(b) = UNION {ToSet(ss[k]) : k \in DOMAIN ss}
    BY <1>2, FlattenToSet
<1>5. Len(b) = Len(ss) <=> \A k \in DOMAIN ss : ss[k] # <<>>
    BY <1>2, <1>3, FlattenFull
<1> HIDE DEF b
<1>6. \A f : f \in ToSet(b) <=> \E type \in ToSet(types) : f \in ToSet(best[type])
    BY <1>1, <1>2, <1>4
<1>7. Complete(b, types) <=> \A type \in ToSet(types) : best[type] # <<>>
    BY <1>1, <1>2, <1>5 DEF Complete
<1>8. OnePerType(b)
  <2> SUFFICES ASSUME NEW f \in ToSet(b), NEW g \in ToSet(b), f.type = g.type PROVE f = g
      BY DEF OnePerType
  <2>1. f.type \in ToSet(types) /\ f \in ToSet(best[f.type]) /\ g \in ToSet(best[f.type])
      BY <1>6
  <2>2. best[f.type] \in Seq(Files) /\ Len(best[f.type]) <= 1
      BY <2>1
  <2>3. DOMAIN best[f.type] \subseteq {1}
      BY <2>2
  <2> QED BY <2>1, <2>3 DEF ToSet
<1>9. ToSet(b) \subseteq ToSet(files)
    BY <1>6
<1>10. PerType(best, types) = b
    BY DEF PerType, b, ss
<1> QED BY <1>4, <1>6, <1>7, <1>8, <1>9, <1>10

LEMMA BestOfEachIs ==
    ASSUME NEW files \in Seq(Files), NEW types, types \in Seq(ToSet(types)),
           NEW centers, NEW tiers
    PROVE  LET b == BestOfEach(files, types, centers, tiers)
               like(type) == {f \in ToSet(files) : /\ f.type = type /\ f.center \in centers
                                                   /\ f.tier \in tiers}
           IN  /\ b \in Seq(Files) /\ ToSet(b) \subseteq ToSet(files) /\ OnePerType(b)
               /\ \A f \in ToSet(b) : f.center \in centers /\ f.tier \in tiers
               /\ \A type \in ToSet(types) :
                    like(type) # {} => \E f \in ToSet(b) : f.type = type
               /\ Complete(b, types) <=> \A type \in ToSet(types) : like(type) # {}
<1> DEFINE b == BestOfEach(files, types, centers, tiers)
           like(type) == {f \in ToSet(files) : /\ f.type = type /\ f.center \in centers
                                               /\ f.tier \in tiers}
           best == [type \in ToSet(types) |-> Best(files, type, centers, tiers)]
<1>1. ASSUME NEW type \in ToSet(types)
      PROVE  /\ best[type] \in Seq(Files) /\ Len(best[type]) <= 1
             /\ ToSet(best[type]) \subseteq like(type)
             /\ best[type] = <<>> <=> like(type) = {}
             /\ best[type] # <<>> => ToSet(best[type]) # {}
  <2>1. best[type] = Best(files, type, centers, tiers)
      OBVIOUS
  <2> HIDE DEF best
  <2> QED BY <2>1, BestIs
<1>2. \A f, type : f \in like(type) =>
        f \in ToSet(files) /\ f.type = type /\ f.center \in centers /\ f.tier \in tiers
    OBVIOUS
<1>3. b = PerType(best, types)
  <2>1. \A k \in DOMAIN types : types[k] \in ToSet(types)
      BY ListIn
  <2>2. [k \in DOMAIN types |-> best[types[k]]]
          = [k \in DOMAIN types |-> Best(files, types[k], centers, tiers)]
      BY <2>1
  <2> HIDE DEF best
  <2> QED BY <2>2 DEF BestOfEach, PerType
<1> HIDE DEF best, like, b
<1>4. best \in [ToSet(types) -> Seq(Files)]
    BY <1>1 DEF best
<1>5. /\ b \in Seq(Files) /\ ToSet(b) \subseteq ToSet(files) /\ OnePerType(b)
      /\ \A f : f \in ToSet(b) <=> \E type \in ToSet(types) : f \in ToSet(best[type])
      /\ Complete(b, types) <=> \A type \in ToSet(types) : best[type] # <<>>
  <2>1. \A type \in ToSet(types) :
          /\ Len(best[type]) <= 1
          /\ \A f \in ToSet(best[type]) : f \in ToSet(files) /\ f.type = type
      BY <1>1, <1>2
  <2> DEFINE c == PerType(best, types)
  <2>2. /\ c \in Seq(Files) /\ ToSet(c) \subseteq ToSet(files) /\ OnePerType(c)
        /\ \A f : f \in ToSet(c) <=> \E type \in ToSet(types) : f \in ToSet(best[type])
        /\ Complete(c, types) <=> \A type \in ToSet(types) : best[type] # <<>>
      BY <1>4, <2>1, PerTypeIs
  <2> QED BY <1>3, <2>2
<1>6. \A f \in ToSet(b) : f.center \in centers /\ f.tier \in tiers
    BY <1>1, <1>2, <1>5
<1>7. ASSUME NEW type \in ToSet(types), like(type) # {} PROVE \E f \in ToSet(b) : f.type = type
  <2>1. PICK f \in ToSet(best[type]) : TRUE
      BY <1>1, <1>7
  <2> QED BY <1>1, <1>2, <1>5, <2>1
<1>8. Complete(b, types) <=> \A type \in ToSet(types) : like(type) # {}
    BY <1>1, <1>5
<1> QED BY <1>5, <1>6, <1>7, <1>8 DEF b, like

\* Every tier with every centre.
LEMMA PairsAre ==
    ASSUME NEW r \in Requests
    PROVE  /\ Pairs(r) \in Seq([tier : ToSet(r.tiers), center : ToSet(r.centers)])
           /\ DOMAIN Pairs(r) = 1..Len(Pairs(r)) /\ Len(Pairs(r)) \in Nat
           /\ \A k \in DOMAIN Pairs(r) : /\ Pairs(r)[k].tier \in ToSet(r.tiers)
                                         /\ Pairs(r)[k].center \in ToSet(r.centers)
<1> DEFINE S == [tier : ToSet(r.tiers), center : ToSet(r.centers)]
           row(t) == [c \in DOMAIN r.centers |-> [tier |-> t, center |-> r.centers[c]]]
           ss == [t \in DOMAIN r.tiers |-> row(r.tiers[t])]
<1>1. /\ DOMAIN r.tiers = 1..Len(r.tiers) /\ Len(r.tiers) \in Nat
      /\ DOMAIN r.centers = 1..Len(r.centers) /\ Len(r.centers) \in Nat
      /\ \A t \in DOMAIN r.tiers : r.tiers[t] \in ToSet(r.tiers)
      /\ \A c \in DOMAIN r.centers : r.centers[c] \in ToSet(r.centers)
    BY RequestAssumption, ListIn DEF IsRequest
<1>2. \A t \in ToSet(r.tiers) : row(t) \in Seq(S)
  <2> TAKE t \in ToSet(r.tiers)
  <2>1. \A c \in 1..Len(r.centers) : [tier |-> t, center |-> r.centers[c]] \in S
      BY <1>1
  <2> HIDE DEF S
  <2> QED BY <1>1, <2>1
<1> HIDE DEF row
<1>3. ss \in Seq(Seq(S))
  <2> HIDE DEF S
  <2> QED BY <1>1, <1>2
<1>4. Pairs(r) = FlattenSeq(ss)
    BY DEF Pairs, row
<1> HIDE DEF ss, S
<1>5. Pairs(r) \in Seq(S)
    BY <1>3, <1>4, FlattenToSet
<1>6. \A k \in DOMAIN Pairs(r) : Pairs(r)[k] \in S
    BY <1>5, ListIn
<1> QED BY <1>5, <1>6, ListIn DEF S

LEMMA PartialIs ==
    ASSUME NEW r \in Requests, NEW files \in Seq(Files)
    PROVE  /\ Partial(r, files) \in Seq(Files) /\ OnePerType(Partial(r, files))
           /\ ToSet(Partial(r, files)) \subseteq ToSet(files)
<1> DEFINE place(type) == SelectInSeq(Pairs(r), LAMBDA q :
                            Best(files, type, {q.center}, {q.tier}) # <<>>)
           of(type, k) == Best(files, type, {Pairs(r)[k].center}, {Pairs(r)[k].tier})
           pick(type) == IF place(type) = 0 THEN <<>> ELSE of(type, place(type))
           best == [type \in ToSet(r.types) |-> pick(type)]
<1>1. Partial(r, files) = FlattenSeq([k \in DOMAIN r.types |-> pick(r.types[k])])
    BY DEF Partial
<1> HIDE DEF place
<1>2. ASSUME NEW type
      PROVE  /\ pick(type) \in Seq(Files) /\ Len(pick(type)) <= 1
             /\ \A f \in ToSet(pick(type)) : f \in ToSet(files) /\ f.type = type
  <2>1. \A k : /\ of(type, k) \in Seq(Files) /\ Len(of(type, k)) <= 1
               /\ \A f \in ToSet(of(type, k)) : f \in ToSet(files) /\ f.type = type
      BY BestIs
  <2>2. <<>> \in Seq(Files) /\ Len(<<>>) <= 1 /\ ToSet(<<>>) = {}
      BY DEF ToSet
  <2> HIDE DEF of
  <2> QED BY <2>1, <2>2
<1> HIDE DEF pick
<1>3. r.types \in Seq(ToSet(r.types)) /\ \A k \in DOMAIN r.types : r.types[k] \in ToSet(r.types)
    BY RequestAssumption, ListIn DEF IsRequest
<1>4. [k \in DOMAIN r.types |-> best[r.types[k]]] = [k \in DOMAIN r.types |-> pick(r.types[k])]
    BY <1>3
<1>5. /\ best \in [ToSet(r.types) -> Seq(Files)]
      /\ \A type \in ToSet(r.types) :
           /\ Len(best[type]) <= 1
           /\ \A f \in ToSet(best[type]) : f \in ToSet(files) /\ f.type = type
    BY <1>2
<1> HIDE DEF best
<1>6. Partial(r, files) = PerType(best, r.types)
    BY <1>1, <1>4 DEF PerType
<1> QED BY <1>3, <1>5, <1>6, PerTypeIs

\* The pairs of tier and centre that have a file of every type.
Filled(r, files) ==
    {k \in 1..Len(Pairs(r)) :
        Complete(BestOfEach(files, r.types, {Pairs(r)[k].center}, {Pairs(r)[k].tier}), r.types)}

(* A bundle has one file of a type at most, and is that of the first pair  *)
(* of tier and centre that fills it, if one does.                          *)
LEMMA BundleIs ==
    ASSUME NEW r \in Requests, NEW files \in Seq(Files)
    PROVE  LET b == Bundle(r, files)
               k == Min(Filled(r, files))
           IN  /\ b \in Seq(Files) /\ ToSet(b) \subseteq ToSet(files) /\ OnePerType(b)
               /\ Filled(r, files) # {} =>
                    b = BestOfEach(files, r.types, {Pairs(r)[k].center}, {Pairs(r)[k].tier})
<1> DEFINE whole(q) == Complete(BestOfEach(files, r.types, {q.center}, {q.tier}), r.types)
           one == SelectInSeq(Pairs(r), whole)
           mix == SelectInSeq(r.tiers, LAMBDA tier :
                      Complete(BestOfEach(files, r.types, ToSet(r.centers), {tier}), r.types))
           ofPair(k) == BestOfEach(files, r.types, {Pairs(r)[k].center}, {Pairs(r)[k].tier})
           ofTier(k) == BestOfEach(files, r.types, ToSet(r.centers), {r.tiers[k]})
           b == Bundle(r, files)
           I == Filled(r, files)
<1>1. b = IF one # 0 THEN ofPair(one)
          ELSE IF Mixed /\ mix # 0 THEN ofTier(mix) ELSE Partial(r, files)
    BY DEF Bundle
<1>2. one = IF I = {} THEN 0 ELSE Min(I)
    BY DEF SelectInSeq, Filled
<1>3. I # {} => Min(I) \in I /\ Min(I) # 0
  <2>1. I \in SUBSET Nat /\ 0 \notin I
      BY PairsAre DEF Filled
  <2> HIDE DEF I
  <2> QED BY <2>1, MinIsLeast
<1>4. \A k : /\ ofPair(k) \in Seq(Files) /\ ToSet(ofPair(k)) \subseteq ToSet(files)
             /\ OnePerType(ofPair(k))
             /\ ofTier(k) \in Seq(Files) /\ ToSet(ofTier(k)) \subseteq ToSet(files)
             /\ OnePerType(ofTier(k))
  <2>1. r.types \in Seq(ToSet(r.types))
      BY RequestAssumption DEF IsRequest
  <2> QED BY <2>1, BestOfEachIs
<1> HIDE DEF one, mix, ofPair, ofTier, b, I
<1>5. b \in Seq(Files) /\ ToSet(b) \subseteq ToSet(files) /\ OnePerType(b)
    BY <1>1, <1>4, PartialIs
<1>6. I # {} => b = ofPair(Min(I))
    BY <1>1, <1>2, <1>3
<1> QED BY <1>5, <1>6 DEF b, I, ofPair

\* Two searches never answer for the same station and day.
LEMMA AnsweredApart ==
    ASSUME Typed, Offered, Needed, NEW i \in DOMAIN search, NEW j \in DOMAIN search,
           search[i].kind # "product", search[j].kind # "product",
           NEW f \in ToSet(FilesOf(said[i])), NEW g \in ToSet(FilesOf(said[j]))
    PROVE  \E p, q \in Providers :
              /\ f \in ToSet(Offer[p]) /\ g \in ToSet(Offer[q])
              /\ f.covers \cap g.covers # {} => p = q
<1>1. /\ said[i] \in Seq(Answer) /\ said[j] \in Seq(Answer)
    BY SaidIs
<1>2. PICK k \in DOMAIN said[i] : f \in ToSet(said[i][k].files)
    BY <1>1, FilesOfIs
<1>3. PICK m \in DOMAIN said[j] : g \in ToSet(said[j][m].files)
    BY <1>1, FilesOfIs
<1> DEFINE p == search[i].line[k].prov
           q == search[j].line[m].prov
<1>4. Matches(search[i], k, f) /\ Matches(search[j], m, g)
    BY <1>2, <1>3 DEF Offered
<1>5. p \in Providers /\ q \in Providers
    BY SaidIs DEF Calls
<1>6. said[i][k].files # <<>> /\ said[j][m].files # <<>>
  <2>1. ToSet(<<>>) = {}
      BY DEF ToSet
  <2> QED BY <1>2, <1>3, <2>1
<1>7. k = Len(said[i]) /\ m = Len(said[j])
    BY <1>6, OneAnswer
<1>8. f.covers \cap g.covers # {} => i = j
  <2>1. f.covers \cap g.covers \subseteq search[i].want \cap search[j].want
      BY <1>4 DEF Matches
  <2> QED BY <2>1, SearchIs
<1>9. f.covers \cap g.covers # {} => p = q
    BY <1>7, <1>8
<1> QED BY <1>4, <1>5, <1>9 DEF Matches

(* No two tasks of a plan write the same file for one station: a file found*)
(* at several mirrors, or twice in one listing, is downloaded once         *)
(* (_deduplicate_logical_files; select_bundle for products).               *)
THEOREM FilesHaveOneTask == Safety => []OneTaskPerFile
<1>1. IInv => OneTaskPerFile
  <2> SUFFICES ASSUME IInv, NEW k \in DOMAIN plan.tasks, NEW m \in DOMAIN plan.tasks,
                      Destination(plan.tasks[k]) = Destination(plan.tasks[m]),
                      plan.tasks[k].owner = plan.tasks[m].owner
               PROVE  k = m
      BY DEF OneTaskPerFile
  <2>1. Typed /\ Offered /\ Needed /\ PlanBuilt
      BY DEF IInv
  <2>2. phase = "planned"
    <3>1. DOMAIN NoPlan.tasks = {}
        BY DEF NoPlan
    <3> QED BY <2>1, <3>1 DEF PlanBuilt
  <2> DEFINE all == Deduplicated(AllFound)
             T == {f \in ToSet(PlanFiles) : ~(Destination(f) \in OnDisk /\ ~request.overwrite)}
  <2>3. plan.tasks = Those(PlanFiles, T)
    <3> DEFINE there == {f \in ToSet(PlanFiles) : Destination(f) \in OnDisk /\ ~request.overwrite}
    <3>1. plan.tasks = Those(PlanFiles, ToSet(PlanFiles) \ there)
        BY <2>1, <2>2, FilledPlan DEF PlanFor, Planned
    <3>2. ToSet(PlanFiles) \ there = T
        OBVIOUS
    <3> QED BY <3>1, <3>2
  <2>4. /\ PlanFiles \in Seq(Files) /\ ToSet(PlanFiles) \subseteq ToSet(all)
        /\ \A i, j \in DOMAIN PlanFiles : PlanFiles[i] = PlanFiles[j] => i = j
        /\ request.kind = "product" => ToSet(PlanFiles) \subseteq ToSet(Bundle(request, all))
      BY <2>1, PlanFilesAre
  <2>5. /\ all \in Seq(Files) /\ request \in Requests
        /\ \A f \in ToSet(all) : \E j \in DOMAIN search : f \in ToSet(FilesOf(said[j]))
        /\ \A i, j \in DOMAIN all : Key(all[i]) = Key(all[j]) => i = j
    <3>1. \A j \in DOMAIN search : ToSet(Result(j)) \subseteq ToSet(FilesOf(said[j]))
        BY <2>1, ResultIs
    <3> QED BY <2>1, <3>1, AllFilesAre, SearchIs
  <2> HIDE DEF all, T
  <2>6. /\ plan.tasks \in Seq(Files) /\ ToSet(plan.tasks) \subseteq ToSet(PlanFiles)
        /\ \A i, j \in DOMAIN plan.tasks : plan.tasks[i] = plan.tasks[j] => i = j
    <3>1. /\ Those(PlanFiles, T) \in Seq(Files)
          /\ ToSet(Those(PlanFiles, T)) = ToSet(PlanFiles) \cap T
        BY <2>4, ThoseIs
    <3>2. \A i, j \in DOMAIN Those(PlanFiles, T) :
            Those(PlanFiles, T)[i] = Those(PlanFiles, T)[j] => i = j
        BY <2>4, ThoseInjective
    <3> QED BY <2>3, <3>1, <3>2
  <2> DEFINE f == plan.tasks[k]
             g == plan.tasks[m]
  <2>7. f \in ToSet(PlanFiles) /\ g \in ToSet(PlanFiles)
      BY <2>6, ListIn
  <2>8. f.owner = g.owner /\ f.day = g.day /\ f.type = g.type /\ f.name = g.name
      BY DEF Destination
  <2> HIDE DEF f, g
  <2>9. f = g
    <3>1. CASE request.kind = "product"
      <4>1. OnePerType(Bundle(request, all))
          BY <2>5, BundleIs
      <4> QED BY <2>4, <2>7, <2>8, <3>1, <4>1 DEF OnePerType
    <3>2. CASE request.kind # "product"
      <4>1. PICK i \in DOMAIN search : f \in ToSet(FilesOf(said[i]))
          BY <2>4, <2>5, <2>7
      <4>2. PICK j \in DOMAIN search : g \in ToSet(FilesOf(said[j]))
          BY <2>4, <2>5, <2>7
      <4>3. search[i].kind # "product" /\ search[j].kind # "product"
          BY <2>1, <3>2, SearchIs DEF SearchOK
      <4>4. PICK p \in Providers, q \in Providers :
              /\ f \in ToSet(Offer[p]) /\ g \in ToSet(Offer[q])
              /\ f.covers \cap g.covers # {} => p = q
          BY <2>1, <4>1, <4>2, <4>3, AnsweredApart
      <4>5. f.id = g.id
          BY <2>8, <4>4, OfferAssumption
      <4>6. Key(f) = Key(g)
          BY <2>8, <4>5 DEF Key
      <4>7. PICK a \in DOMAIN all : f = all[a]
          BY <2>4, <2>7 DEF ToSet
      <4>8. PICK b \in DOMAIN all : g = all[b]
          BY <2>4, <2>7 DEF ToSet
      <4> QED BY <2>5, <4>6, <4>7, <4>8
    <3> QED BY <3>1, <3>2
  <2> QED BY <2>6, <2>9 DEF f, g
<1> QED BY <1>1, Invariance, PTL

-----------------------------------------------------------------------------
(* What is reported as unavailable.                                        *)

LEMMA AnsweredFilesAre ==
    ASSUME Typed
    PROVE  /\ \A f \in AnsweredFiles : \E j \in DOMAIN search : f \in ToSet(FilesOf(said[j]))
           /\ \A j \in DOMAIN search : /\ ToSet(FilesOf(said[j])) \subseteq AnsweredFiles
                                       /\ ToSet(Result(j)) \subseteq AnsweredFiles
<1>1. \A j \in DOMAIN search : ToSet(Result(j)) \subseteq ToSet(FilesOf(said[j]))
    BY ResultIs
<1> QED BY <1>1 DEF AnsweredFiles

\* What a search was answered, its result covers.
LEMMA ResultCovers ==
    ASSUME Typed, Offered, Needed, NEW j \in DOMAIN search, search[j].kind # "product",
           NEW f \in ToSet(FilesOf(said[j])), NEW c \in f.covers
    PROVE  \E g \in ToSet(Result(j)) : c \in g.covers
<1>1. said[j] \in Seq(Answer)
    BY SaidIs
<1>2. ASSUME NEW h \in ToSet(FilesOf(said[j]))
      PROVE  \E k \in DOMAIN said[j] : Matches(search[j], k, h)
  <2>1. PICK k \in DOMAIN said[j] : h \in ToSet(said[j][k].files)
      BY <1>1, FilesOfIs
  <2> QED BY <2>1 DEF Offered
<1>3. /\ ToSet(Result(j)) \subseteq ToSet(FilesOf(said[j]))
      /\ search[j].kind = "item" /\ FilesOf(said[j]) # <<>> => ToSet(Result(j)) # {}
      /\ search[j].kind = "epn" =>
            \A x \in ToSet(FilesOf(said[j])) : \E g \in ToSet(Result(j)) :
                g.owner = x.owner /\ g.day = x.day
      /\ search[j].kind \notin {"item", "epn", "product"} => Result(j) = FilesOf(said[j])
    BY ResultIs
<1>4. CASE search[j].kind = "item"
  <2>1. PICK w : search[j].want = {w}
      BY <1>4, SearchIs DEF SearchOK
  <2>2. \A h \in ToSet(FilesOf(said[j])) : h.covers = {w}
      BY <1>2, <2>1 DEF Matches
  <2>3. ToSet(<<>>) = {}
      BY DEF ToSet
  <2>4. PICK g \in ToSet(Result(j)) : TRUE
      BY <1>3, <1>4, <2>3
  <2> QED BY <1>3, <2>2, <2>4
<1>5. CASE search[j].kind = "epn"
  <2>1. ASSUME NEW h \in ToSet(FilesOf(said[j])) PROVE h.covers = {<<h.owner, h.day>>}
    <3>1. PICK k \in DOMAIN said[j] : Matches(search[j], k, h)
        BY <1>2
    <3>2. search[j].line[k].prov = Epn
        BY <1>5, SearchIs, SaidIs DEF SearchOK
    <3>3. h.covers # {} /\ h.covers \subseteq {<<h.owner, h.day>>}
        BY <3>1, <3>2, OfferAssumption DEF Matches
    <3> QED BY <3>3
  <2>2. PICK g \in ToSet(Result(j)) : g.owner = f.owner /\ g.day = f.day
      BY <1>3, <1>5
  <2> QED BY <1>3, <2>1, <2>2
<1>6. CASE search[j].kind \notin {"item", "epn"}
    BY <1>3, <1>6
<1> QED BY <1>4, <1>5, <1>6

(* A station and day is reported as unavailable only when no provider asked*)
(* had a file for it or for a station with the same four letters, or when  *)
(* what a search had for it counts as another file of the plan, which does *)
(* not cover it; and what is not reported, some provider had               *)
(* (_observation_missing_entries, _deduplicate_logical_files).             *)
THEOREM MissesAreReported == Safety => []MissesReported
<1>1. IInv => MissesReported
  <2> DEFINE like(f, w) == \E c \in f.covers : c[2] = w[2] /\ Short[c[1]] = Short[w[1]]
             had(j, w) == {f \in ToSet(FilesOf(said[j])) : like(f, w)}
             lost(f, w) == \E g \in ToSet(plan.files) : Key(g) = Key(f) /\ ~like(g, w)
             asked == ToSet(request.stations) \X ToSet(request.days)
             all == Deduplicated(AllFound)
  <2> SUFFICES ASSUME IInv, Planned, request.kind = "obs", NEW w \in asked
               PROVE  IF w \in plan.missing
                      THEN \A j \in DOMAIN search :
                              had(j, w) # {} => \E f \in had(j, w) : lost(f, w)
                      ELSE \E j \in DOMAIN search : had(j, w) # {}
      BY DEF MissesReported
  <2>1. Typed /\ Offered /\ Needed /\ PlanBuilt
      BY DEF IInv
  <2>2. plan.missing = Missing(request, all) /\ plan.files = all
    <3>1. PlanFiles = all
        BY <2>1, PlanFilesAre
    <3> HIDE DEF all
    <3> QED BY <2>1, <3>1, FilledPlan DEF PlanFor
  <2>3. /\ \A f \in ToSet(all) : \E j \in DOMAIN search : f \in ToSet(Result(j))
        /\ \A j \in DOMAIN search : \A f \in ToSet(Result(j)) :
             \E g \in ToSet(all) : Key(g) = Key(f)
      BY <2>1, AllFilesAre
  <2>4. \A j \in DOMAIN search : ToSet(Result(j)) \subseteq ToSet(FilesOf(said[j]))
      BY <2>1, ResultIs
  <2> HIDE DEF all
  <2>5. w \in plan.missing <=> \A f \in ToSet(all) : ~like(f, w)
      BY <2>2 DEF Missing
  <2> HIDE DEF like
  <2>6. ASSUME w \notin plan.missing
        PROVE  \E j \in DOMAIN search : had(j, w) # {}
    <3>1. PICK f \in ToSet(all) : like(f, w)
        BY <2>5, <2>6
    <3>2. PICK j \in DOMAIN search : f \in ToSet(Result(j))
        BY <2>3
    <3> QED BY <2>4, <3>1, <3>2
  <2>7. ASSUME w \in plan.missing, NEW j \in DOMAIN search, NEW f \in had(j, w)
        PROVE  \E g \in had(j, w) : lost(g, w)
    <3>1. PICK c \in f.covers : c[2] = w[2] /\ Short[c[1]] = Short[w[1]]
        BY DEF like
    <3>2. search[j].kind # "product" /\ f \in ToSet(FilesOf(said[j]))
        BY <2>1, SearchIs DEF SearchOK
    <3>3. PICK g \in ToSet(Result(j)) : c \in g.covers
        BY <2>1, <3>2, ResultCovers
    <3>4. g \in had(j, w)
        BY <2>4, <3>1, <3>3 DEF like
    <3>5. PICK h \in ToSet(all) : Key(h) = Key(g)
        BY <2>3
    <3>6. lost(g, w)
        BY <2>2, <2>5, <2>7, <3>5
    <3> QED BY <3>4, <3>6
  <2> QED BY <2>6, <2>7
<1> QED BY <1>1, Invariance, PTL

-----------------------------------------------------------------------------
(* The bundle of a product request.                                        *)

\* Of some numbers up to n one is the greatest.
LEMMA GreatestOf ==
    ASSUME NEW n \in Nat, NEW E, E \subseteq 1..n, E # {}
    PROVE  \E e \in E : \A m \in E : m <= e
<1> DEFINE T == {n - m : m \in E}
<1>1. T \in SUBSET Nat /\ T # {}
  <2>1. \A m \in E : n - m \in Nat
      OBVIOUS
  <2> QED BY <2>1
<1> HIDE DEF T
<1>2. PICK t \in T : \A u \in T : t <= u
    BY <1>1, LeastNumber
<1>3. PICK e \in E : t = n - e
    BY DEF T
<1>4. \A m \in E : n - e <= n - m
    BY <1>2, <1>3 DEF T
<1>5. \A m \in E : m <= e
    BY <1>4
<1> QED BY <1>5

\* A product search has its files from the calls made for their tier.
LEMMA TierOfFile ==
    ASSUME Typed, Offered, request.kind = "product", search[1].kind = "product",
           NEW f \in AnsweredFiles
    PROVE  \E k \in DOMAIN said[1] : f \in ToSet(said[1][k].files) /\ search[1].line[k].tier = f.tier
<1>1. DOMAIN search = {1}
    BY SearchIs
<1>2. f \in ToSet(FilesOf(said[1])) /\ said[1] \in Seq(Answer)
    BY <1>1, AnsweredFilesAre, SaidIs
<1>3. PICK k \in DOMAIN said[1] : f \in ToSet(said[1][k].files)
    BY <1>2, FilesOfIs
<1>4. search[1].line[k].tier \in {None, f.tier}
    BY <1>1, <1>3 DEF Offered, Matches
<1>5. search[1].line[k].tier # None
    BY <1>1, SearchIs, SaidIs DEF SearchOK
<1> QED BY <1>3, <1>4, <1>5

\* A tier that was answered in full before the last answer was enough.
LEMMA FullTierIsLast ==
    ASSUME Typed, Offered, Needed, request.kind = "product", search[1].kind = "product",
           ToSet(request.types) # {}, said[1] # <<>>, NEW q,
           q.center \in ToSet(request.centers), Fills(q),
           TierFull(request, search[1], said[1], Len(said[1]))
    PROVE  q.tier = search[1].line[Len(said[1])].tier
<1> DEFINE n == Len(said[1])
           line == search[1].line
           E == {m \in 1..n : line[m].tier = q.tier}
<1>1. /\ DOMAIN search = {1} /\ DOMAIN said[1] = 1..n /\ n \in Nat
      /\ Len(line) \in Nat /\ n <= Len(line)
    BY SearchIs, SaidIs DEF Typed
<1> SUFFICES ASSUME q.tier # line[n].tier PROVE FALSE
    OBVIOUS
<1>2. ASSUME NEW type \in ToSet(request.types)
      PROVE  \E m \in E : \E f \in ToSet(said[1][m].files) :
                f.type = type /\ f.tier = q.tier /\ f.center = q.center
  <2>1. PICK f \in AnsweredFiles : f.type = type /\ f.tier = q.tier /\ f.center = q.center
      BY DEF Fills
  <2>2. PICK k \in DOMAIN said[1] : f \in ToSet(said[1][k].files) /\ line[k].tier = f.tier
      BY TierOfFile
  <2> QED BY <1>1, <2>1, <2>2
<1>3. E # {} /\ E \subseteq 1..n
    BY <1>2
<1>4. PICK e \in E : \A m \in E : m <= e
  <2> HIDE DEF E, n
  <2> QED BY <1>1, <1>3, GreatestOf
<1>5. e \in 1..n /\ line[e].tier = q.tier /\ e # n
    BY <1>4
<1>6. e < n /\ e + 1 \in 1..n
    BY <1>1, <1>5
<1>7. e + 1 \notin E
    BY <1>4, <1>5, <1>1
<1>8. line[e + 1].tier # line[e].tier
    BY <1>5, <1>6, <1>7
<1>9. \A type \in ToSet(request.types) : \E m \in 1..e : \E f \in ToSet(said[1][m].files) :
        f.type = type /\ f.tier = line[e].tier /\ f.center \in ToSet(request.centers)
  <2>1. \A m \in E : m \in 1..e
      BY <1>1, <1>3, <1>4, <1>5
  <2> HIDE DEF E
  <2> QED BY <1>2, <1>5, <2>1
<1>10. TierFull(request, search[1], said[1], e)
  <2>1. IsInjective(request.types)
      BY DEF TierFull
  <2> QED BY <1>8, <1>9, <2>1 DEF TierFull
<1> HIDE DEF E
<1>11. e \in DOMAIN said[1] /\ e < Len(said[1]) /\ 1 \in DOMAIN search
    BY <1>1, <1>5, <1>6
<1>12. ~Enough(request, search[1], said[1], e)
    BY <1>11 DEF Needed
<1> QED BY <1>10, <1>12 DEF Enough

(* Which pairs of tier and centre are filled does not change from what was *)
(* answered to what the bundle is selected from.                           *)
LEMMA FilledIs ==
    ASSUME IInv, request.kind = "product"
    PROVE  Filled(request, Deduplicated(AllFound)) = {k \in DOMAIN Pairs(request) : Fills(Pairs(request)[k])}
<1> DEFINE all == Deduplicated(AllFound)
           n == Len(said[1])
           full == said[1] # <<>> /\ TierFull(request, search[1], said[1], n)
           T == search[1].line[n].tier
           types == ToSet(request.types)
           pairs == Pairs(request)
           like(q, type) == {f \in ToSet(all) : /\ f.type = type /\ f.center \in {q.center}
                                                /\ f.tier \in {q.tier}}
<1>1. Typed /\ Offered /\ Needed
    BY DEF IInv
<1>2. /\ DOMAIN search = {1} /\ request \in Requests /\ request.types \in Seq(types)
      /\ search[1].kind \in {"product", "explicit"}
    BY <1>1, SearchIs, RequestAssumption DEF SearchOK, IsRequest
<1>3. AnsweredFiles = ToSet(FilesOf(said[1]))
    BY <1>2 DEF AnsweredFiles
<1>4. /\ all \in Seq(Files)
      /\ \A f \in ToSet(all) : f \in ToSet(Result(1))
      /\ \A f \in ToSet(Result(1)) : \E g \in ToSet(all) : Key(g) = Key(f)
    BY <1>1, <1>2, AllFilesAre
<1>5. /\ Result(1) \in Seq(Files) /\ ToSet(Result(1)) \subseteq AnsweredFiles
      /\ search[1].kind = "product" /\ full =>
            ToSet(Result(1)) = {f \in AnsweredFiles : f.tier = T}
      /\ ~(search[1].kind = "product" /\ full) => ToSet(Result(1)) = AnsweredFiles
    BY <1>1, <1>2, <1>3, ResultIs
<1> HIDE DEF all
<1>6. \A f \in ToSet(Result(1)) : \E g \in ToSet(all) :
        g.type = f.type /\ g.tier = f.tier /\ g.center = f.center
  <2> TAKE f \in ToSet(Result(1))
  <2>1. PICK g \in ToSet(all) : Key(g) = Key(f)
      BY <1>4
  <2>2. g \in Files /\ f \in Files
      BY <1>4, <1>5, ListIn
  <2>3. g.tier = f.tier /\ g.center = f.center
      BY <2>1, <2>2, OfferAssumption
  <2>4. g.type = f.type
      BY <2>1 DEF Key
  <2> QED BY <2>3, <2>4
<1>7. \A q : Complete(BestOfEach(all, request.types, {q.center}, {q.tier}), request.types)
               <=> \A type \in types : like(q, type) # {}
    BY <1>2, <1>4, BestOfEachIs
<1>8. ASSUME NEW q, q.center \in ToSet(request.centers)
      PROVE  (\A type \in types : like(q, type) # {}) <=> Fills(q)
  <2>1. ASSUME \A type \in types : like(q, type) # {} PROVE Fills(q)
      BY <1>4, <1>5, <2>1 DEF Fills
  <2>2. ASSUME Fills(q), NEW type \in types PROVE like(q, type) # {}
    <3>1. PICK f \in AnsweredFiles : f.type = type /\ f.tier = q.tier /\ f.center = q.center
        BY <2>2 DEF Fills
    <3>2. f \in ToSet(Result(1))
      <4>1. CASE search[1].kind = "product" /\ full
        <5>1. types # {} /\ said[1] # <<>> /\ TierFull(request, search[1], said[1], Len(said[1]))
            BY <4>1
        <5>2. q.tier = T
            BY <1>1, <1>8, <2>2, <4>1, <5>1, FullTierIsLast
        <5> QED BY <1>5, <3>1, <4>1, <5>2
      <4> QED BY <1>5, <3>1, <4>1
    <3>3. PICK g \in ToSet(all) : g.type = f.type /\ g.tier = f.tier /\ g.center = f.center
        BY <1>6, <3>2
    <3> QED BY <3>1, <3>3
  <2> QED BY <2>1, <2>2
<1>9. /\ DOMAIN pairs = 1..Len(pairs)
      /\ \A k \in DOMAIN pairs : pairs[k].center \in ToSet(request.centers)
    BY <1>2, PairsAre
<1> HIDE DEF like, types, pairs
<1>10. Filled(request, all) = {k \in DOMAIN pairs : Fills(pairs[k])}
    BY <1>7, <1>8, <1>9 DEF Filled, pairs
<1> QED BY <1>10 DEF all, pairs

(* When some tier of some centre had every type among the answers, the     *)
(* plan is the bundle of the first such tier and centre, whatever the      *)
(* order in which the providers answered; a type is unavailable exactly    *)
(* when the plan has no file of it, and no type has two                    *)
(* (_search_products_with_provider, select_bundle).                        *)
THEOREM BundleIsBest == Safety => []BundleBest
<1>1. IInv => BundleBest
  <2> SUFFICES ASSUME IInv, Planned, request.kind = "product"
               PROVE  LET pairs == Pairs(request)
                          filling == {k \in DOMAIN pairs : Fills(pairs[k])}
                          of(f) == [tier |-> f.tier, center |-> f.center]
                      IN  /\ filling # {} =>
                               /\ plan.unavailable = {}
                               /\ \E k \in filling :
                                    /\ \A m \in filling : k <= m
                                    /\ \A f \in ToSet(plan.files) : of(f) = pairs[k]
                          /\ \A type \in ToSet(request.types) :
                               /\ type \in plan.unavailable
                                    <=> \A f \in ToSet(plan.files) : f.type # type
                               /\ Cardinality({f \in ToSet(plan.files) : f.type = type}) <= 1
      BY DEF BundleBest
  <2> DEFINE all == Deduplicated(AllFound)
             pairs == Pairs(request)
             filling == {k \in DOMAIN pairs : Fills(pairs[k])}
             types == ToSet(request.types)
             k == Min(filling)
             F == ToSet(plan.files)
             of(f) == [tier |-> f.tier, center |-> f.center]
  <2>1. Typed /\ PlanBuilt /\ request \in Requests
      BY SearchIs DEF IInv
  <2>2. all \in Seq(Files)
      BY <2>1, AllFilesAre
  <2>3. Filled(request, all) = filling
      BY FilledIs
  <2>4. /\ OnePerType(Bundle(request, all)) /\ ToSet(Bundle(request, all)) \subseteq ToSet(all)
        /\ filling # {} =>
             Bundle(request, all)
                = BestOfEach(all, request.types, {pairs[k].center}, {pairs[k].tier})
    <3> HIDE DEF all, filling, pairs
    <3>1. /\ OnePerType(Bundle(request, all)) /\ ToSet(Bundle(request, all)) \subseteq ToSet(all)
          /\ Filled(request, all) # {} =>
               Bundle(request, all) =
                 BestOfEach(all, request.types, {Pairs(request)[Min(Filled(request, all))].center},
                            {Pairs(request)[Min(Filled(request, all))].tier})
        BY <2>1, <2>2, BundleIs
    <3> QED BY <2>3, <3>1 DEF pairs
  <2>5. /\ plan.files = PlanFiles /\ plan.unavailable = Unavailable(request, PlanFiles)
        /\ F = ToSet(Bundle(request, all))
    <3>1. plan.files = PlanFiles /\ plan.unavailable = Unavailable(request, PlanFiles)
        BY <2>1, FilledPlan DEF PlanFor
    <3>2. ToSet(PlanFiles) = ToSet(all) \cap ToSet(Bundle(request, all))
        BY <2>1, PlanFilesAre
    <3> QED BY <2>4, <3>1, <3>2
  <2>6. plan.unavailable = {type \in types : \A f \in F : f.type # type}
      BY <2>5 DEF Unavailable, ToSet
  <2>7. OnePerType(plan.files)
      BY <2>4, <2>5 DEF OnePerType
  <2> HIDE DEF F, all
  <2>8. ASSUME filling # {}
        PROVE  /\ plan.unavailable = {}
               /\ k \in filling /\ \A m \in filling : k <= m
               /\ \A f \in F : of(f) = pairs[k]
    <3>1. /\ DOMAIN pairs = 1..Len(pairs) /\ Len(pairs) \in Nat
          /\ pairs \in Seq([tier : ToSet(request.tiers), center : ToSet(request.centers)])
        BY <2>1, PairsAre
    <3>2. k \in filling /\ \A m \in filling : k <= m
      <4>1. filling \in SUBSET Nat
          BY <3>1
      <4> HIDE DEF filling
      <4> QED BY <2>8, <4>1, MinIsLeast
    <3> HIDE DEF k
    <3>3. k \in DOMAIN pairs
        BY <3>2
    <3>4. pairs[k] = [tier |-> pairs[k].tier, center |-> pairs[k].center]
      <4> HIDE DEF pairs
      <4>1. pairs[k] \in [tier : ToSet(request.tiers), center : ToSet(request.centers)]
          BY <3>1, <3>3, ListIn
      <4> QED BY <4>1
    <3> DEFINE b == BestOfEach(all, request.types, {pairs[k].center}, {pairs[k].tier})
    <3>5. /\ F = ToSet(b) /\ request.types \in Seq(types)
          /\ Complete(b, request.types)
        BY <2>1, <2>3, <2>4, <2>5, <2>8, <3>2, RequestAssumption DEF Filled, IsRequest, k
    <3>6. /\ \A f \in F : f.center = pairs[k].center /\ f.tier = pairs[k].tier
          /\ \A type \in types : \E f \in F : f.type = type
      <4> HIDE DEF pairs
      <4> DEFINE like(type) == {f \in ToSet(all) : /\ f.type = type
                                                   /\ f.center \in {pairs[k].center}
                                                   /\ f.tier \in {pairs[k].tier}}
      <4>1. \A f \in ToSet(b) : f.center \in {pairs[k].center} /\ f.tier \in {pairs[k].tier}
          BY <2>2, <3>5, BestOfEachIs
      <4>2. \A type \in types : like(type) # {} => \E f \in ToSet(b) : f.type = type
          BY <2>2, <3>5, BestOfEachIs
      <4>3. Complete(b, request.types) <=> \A type \in types : like(type) # {}
          BY <2>2, <3>5, BestOfEachIs
      <4> HIDE DEF like, b
      <4> QED BY <3>5, <4>1, <4>2, <4>3
    <3> HIDE DEF pairs, filling
    <3>7. \A f \in F : of(f) = pairs[k]
        BY <3>4, <3>6
    <3>8. plan.unavailable = {}
        BY <2>6, <3>6
    <3> QED BY <3>2, <3>7, <3>8 DEF k
  <2>9. ASSUME NEW type \in types
        PROVE  Cardinality({f \in F : f.type = type}) <= 1
    <3> DEFINE S == {f \in F : f.type = type}
    <3>1. \A f, g \in S : f = g
        BY <2>7 DEF OnePerType, F
    <3> HIDE DEF S
    <3>2. S = {} \/ \E f : S = {f}
        BY <3>1
    <3>3. Cardinality({}) = 0 /\ \A f : Cardinality({f}) = 1
        BY FS_EmptySet, FS_Singleton
    <3>4. Cardinality(S) = 0 \/ Cardinality(S) = 1
        BY <3>2, <3>3
    <3>5. Cardinality(S) <= 1
        BY <3>4
    <3> QED BY <3>5 DEF S
  <2> HIDE DEF filling, pairs, k
  <2>10. filling # {} =>
            /\ plan.unavailable = {}
            /\ \E i \in filling : /\ \A m \in filling : i <= m
                                  /\ \A f \in F : of(f) = pairs[i]
      BY <2>8
  <2> QED BY <2>6, <2>9, <2>10 DEF F, filling, pairs
<1> QED BY <1>1, Invariance, PTL

=============================================================================
