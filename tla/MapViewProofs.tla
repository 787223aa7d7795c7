--------------------------- MODULE MapViewProofs ---------------------------
(***************************************************************************)
(* Proofs about MapView, for any stations and any number of calls, clicks  *)
(* and reloads: its types, that the canvas is never stale when it is shown,*)
(* and that the page and the widget agree once nothing is on its way.      *)
(***************************************************************************)
EXTENDS MapView, SequenceTheorems, FiniteSetTheorems, TLAPS

Kinds == {"stations", "selection"}
Target(kind) == IF kind = "stations" THEN pending ELSE selected

\* The script is for the page that is up when all scripts have run, and the last.
Final(i) ==
    \A j \in DOMAIN scripts : /\ j >= i => scripts[j].do # "load"
                              /\ j > i => scripts[j].do # scripts[i].do

\* No script on its way changes what the page shows of this kind.
Still(kind) == \A i \in DOMAIN scripts : scripts[i].do \notin {"load", kind}

(* The page and the widget agree on a station, or the last click on it that*)
(* is on its way will make them agree.                                     *)
Agreed(s) ==
    \/ s \in page.selected <=> s \in selected
    \/ \E i \in DOMAIN clicks :
         /\ clicks[i].id = s
         /\ clicks[i].on <=> s \in page.selected
         /\ \A j \in DOMAIN clicks : j > i => clicks[j].id # s

\* What was told is lost with the page.
ToldIsUp == told # {} => page.up = "ok"

\* Until a page is found to work nothing was told to it.
ToldIsValidated ==
    ~validated => /\ \A i \in DOMAIN scripts : ~(scripts[i].do \in Kinds /\ Final(i))
                  /\ \A kind \in Kinds : Still(kind) => kind \notin told

\* Afterwards the last scripts hold what is set, or the page shows it.
ScriptsCurrent ==
    ready => \A i \in DOMAIN scripts :
        scripts[i].do \in Kinds /\ Final(i) => scripts[i].what = Target(scripts[i].do)
StationsCurrent == ready /\ Still("stations") /\ "stations" \in told => page.stations = pending
SelectionCurrent ==
    ready /\ Still("selection") /\ "selection" \in told => \A s \in Stations : Agreed(s)

Claims ==
    /\ ToldIsUp /\ ToldIsValidated
    /\ ScriptsCurrent /\ StationsCurrent /\ SelectionCurrent

-----------------------------------------------------------------------------
(* Types *)

\* Every list is one of stations, and a selection with or without a station is one.
LEMMA ListType ==
    /\ {} \in Lists
    /\ \A list \in Lists : list \in SUBSET Stations
    /\ \A set \in SUBSET Stations, s \in Stations, on \in BOOLEAN :
         With(set, s, on) \in SUBSET Stations
BY MapAssumption DEF With

LEMMA RunType ==
    ASSUME TypeOK, NEW script \in ScriptType, Run(script)
    PROVE  scripts' \in Seq(ScriptType)
<1>1. scripts \in Seq(ScriptType)
  BY DEF TypeOK
<1> QED BY <1>1 DEF Run

LEMMA AskType ==
    ASSUME TypeOK, Ask
    PROVE  scripts' \in Seq(ScriptType)
<1>1. Script("diagnostics", {}) \in ScriptType
  BY DEF Script, ScriptType
<1>2. scripts \in Seq(ScriptType)
  BY DEF TypeOK
<1> QED BY <1>1, <1>2 DEF Ask

LEMMA SelectType ==
    ASSUME TypeOK, NEW new \in SUBSET Stations, NEW shown \in SUBSET Stations, Select(new, shown)
    PROVE  selected' \in SUBSET Stations /\ native' \in NativeType /\ scripts' \in Seq(ScriptType)
<1>1. native \in NativeType /\ scripts \in Seq(ScriptType)
  BY DEF TypeOK
<1>2. CASE new = selected
  <2>1. native' = [native EXCEPT !.selected = shown] /\ selected' = selected
        /\ scripts' = scripts
    BY <1>2 DEF Select
  <2> QED BY <1>1, <2>1, <1>2 DEF NativeType
<1>3. CASE new # selected
  <2>1. /\ selected' = new /\ Run(Script("selection", new))
        /\ native' = [native EXCEPT !.selected = IF UsingLeaflet THEN shown ELSE new]
    BY <1>3 DEF Select
  <2>2. Script("selection", new) \in ScriptType
    BY DEF Script, ScriptType
  <2>3. scripts' \in Seq(ScriptType)
    BY <2>1, <2>2, RunType
  <2> QED BY <1>1, <2>1, <2>3 DEF NativeType
<1> QED BY <1>2, <1>3

LEMMA FallbackType ==
    ASSUME TypeOK, Fallback
    PROVE  ready' = FALSE /\ current' = "native" /\ native' \in NativeType
BY DEF TypeOK, Fallback, NativeType

LEMMA TypeInit == Init => TypeOK
<1> SUFFICES ASSUME Init PROVE TypeOK
  OBVIOUS
<1>1. PICK up \in {"loading", "absent"} :
        page = Blank(up) /\ error = (up = "absent")
        /\ timers = IF up = "loading" THEN 1 ELSE 0
  BY DEF Init
<1>2. page \in PageType
  BY <1>1 DEF Blank, PageType
<1>3. error \in BOOLEAN /\ timers \in Nat
  BY <1>1
<1>4. native \in NativeType
  BY ListType DEF Init, NativeType
<1>5. /\ <<>> \in Seq(ScriptType)
      /\ <<>> \in Seq(BOOLEAN) /\ <<>> \in Seq(EventType)
      /\ <<>> \in Seq(ClickType)
  OBVIOUS
<1> QED BY <1>2, <1>3, <1>4, <1>5, ListType DEF Init, TypeOK

LEMMA TypeStep == TypeOK /\ [Next]_vars => TypeOK'
<1> SUFFICES ASSUME TypeOK, [Next]_vars PROVE TypeOK'
  OBVIOUS
<1> USE DEF flags, way, counts
<1>a. /\ scripts \in Seq(ScriptType) /\ native \in NativeType
      /\ page.stations \in SUBSET Stations /\ page.selected \in SUBSET Stations
      /\ {} \in SUBSET Stations /\ selected \in SUBSET Stations
      /\ native.selected \in SUBSET Stations /\ native.stations \in Lists
  BY DEF TypeOK, NativeType, PageType
<1>1. ASSUME NEW list \in Lists, SetStations(list) PROVE TypeOK'
  <2>1. Script("stations", list) \in ScriptType
    BY ListType DEF Script, ScriptType
  <2>2. scripts' \in Seq(ScriptType)
    BY <1>1, <2>1, RunType DEF SetStations
  <2>3. native' \in NativeType
    BY <1>1, <1>a DEF SetStations, NativeType
  <2> QED BY <1>1, <2>2, <2>3 DEF SetStations, TypeOK
<1>2. ASSUME NEW new \in SUBSET Stations, SetSelected(new) PROVE TypeOK'
  <2>1. selected' \in SUBSET Stations /\ native' \in NativeType /\ scripts' \in Seq(ScriptType)
    BY <1>2, <1>a, SelectType DEF SetSelected
  <2> QED BY <1>2, <2>1 DEF SetSelected, TypeOK
<1>3. CASE ClearSelection
  <2>1. Script("selection", {}) \in ScriptType
    BY DEF Script, ScriptType
  <2>2. scripts' \in Seq(ScriptType)
    BY <1>3, <2>1, RunType DEF ClearSelection
  <2>3. native' \in NativeType
    BY <1>3, <1>a DEF ClearSelection, NativeType
  <2> QED BY <1>3, <2>2, <2>3 DEF ClearSelection, TypeOK
<1>4. ASSUME NEW s \in Stations, NativeClick(s) PROVE TypeOK'
  <2> DEFINE on == s \notin native.selected
  <2>1. With(selected, s, on) \in SUBSET Stations
        /\ With(native.selected, s, on) \in SUBSET Stations
    BY <1>a, ListType
  <2>2. Select(With(selected, s, on), With(native.selected, s, on))
    BY <1>4 DEF NativeClick
  <2>3. selected' \in SUBSET Stations /\ native' \in NativeType /\ scripts' \in Seq(ScriptType)
    BY <2>1, <2>2, SelectType
  <2> QED BY <1>4, <2>3 DEF NativeClick, TypeOK
<1>5. CASE Toggled
  <2>1. clicks \in Seq(ClickType) /\ clicks # <<>>
    BY <1>5 DEF Toggled, TypeOK
  <2>2. Head(clicks).id \in Stations /\ Head(clicks).on \in BOOLEAN
        /\ Tail(clicks) \in Seq(ClickType)
    <3>1. Head(clicks) \in ClickType /\ Tail(clicks) \in Seq(ClickType)
      BY <2>1
    <3> QED BY <3>1 DEF ClickType
  <2>3. With(selected, Head(clicks).id, Head(clicks).on) \in SUBSET Stations
    BY <2>2, <1>a, ListType
  <2>4. selected' \in SUBSET Stations /\ native' \in NativeType /\ scripts' \in Seq(ScriptType)
    BY <1>5, <2>3, <1>a, SelectType DEF Toggled
  <2>5. clicks' = Tail(clicks) /\ UNCHANGED <<pending, flags, page, way, told, counts>>
    BY <1>5 DEF Toggled
  <2> QED BY <2>2, <2>4, <2>5 DEF TypeOK
<1>6. CASE Signalled
  <2>1. Tail(events) \in Seq(EventType)
    BY <1>6 DEF Signalled, TypeOK
  <2>2. CASE Head(events) = "failed"
    <3>1. Fallback /\ error' = TRUE /\ UNCHANGED <<validated, scripts>>
      BY <1>6, <2>2 DEF Signalled
    <3>2. ready' = FALSE /\ current' = "native" /\ native' \in NativeType
      BY <3>1, FallbackType
    <3>3. events' = Tail(events) /\ UNCHANGED <<pending, selected, page, clicks, replies, timers,
            retries, told, counts>>
      BY <1>6 DEF Signalled
    <3> QED BY <2>1, <3>1, <3>2, <3>3 DEF TypeOK
  <2>3. CASE Head(events) # "failed"
    <3>1. Ask /\ UNCHANGED <<ready, validated, error, current, native>>
      BY <1>6, <2>3 DEF Signalled
    <3>2. scripts' \in Seq(ScriptType)
      BY <3>1, AskType
    <3>3. events' = Tail(events) /\ UNCHANGED <<pending, selected, page, clicks, replies, timers,
            retries, told, counts>>
      BY <1>6 DEF Signalled
    <3> QED BY <2>1, <3>1, <3>2, <3>3 DEF TypeOK
  <2> QED BY <2>2, <2>3
<1>7. CASE DiagnosticsChecked
  <2>1. replies \in Seq(BOOLEAN) /\ replies # <<>> /\ replies' = Tail(replies)
    BY <1>7 DEF DiagnosticsChecked, TypeOK
  <2>2. replies' \in Seq(BOOLEAN)
    BY <2>1
  <2>3. retries' \in Nat
    <3>1. retries' = retries \/ retries' = retries + 1
      BY <1>7 DEF DiagnosticsChecked
    <3> QED BY <3>1 DEF TypeOK
  <2>4. /\ ready' \in BOOLEAN /\ validated' \in BOOLEAN /\ error' \in BOOLEAN
        /\ current' = IF ready' THEN "web" ELSE "native"
        /\ ready' => validated'
    <3>1. \/ UNCHANGED <<ready, validated, error, current>>
          \/ ready' = TRUE /\ validated' = TRUE /\ error' = FALSE /\ current' = "web"
      BY <1>7 DEF DiagnosticsChecked
    <3>2. CASE UNCHANGED <<ready, validated, error, current>>
      BY <3>2 DEF TypeOK
    <3>3. CASE ready' = TRUE /\ validated' = TRUE /\ error' = FALSE /\ current' = "web"
      BY <3>3
    <3> QED BY <3>1, <3>2, <3>3
  <2>5. UNCHANGED <<pending, selected, native, page, scripts, clicks, events, timers, told,
          counts>>
    BY <1>7 DEF DiagnosticsChecked
  <2> QED BY <2>2, <2>3, <2>4, <2>5 DEF TypeOK
<1>8. CASE Retry
  <2>1. scripts' \in Seq(ScriptType)
    BY <1>8, <1>a, AskType DEF Retry
  <2> QED BY <1>8, <2>1 DEF Retry, TypeOK
<1>9. CASE Timeout
  <2>1. CASE validated
    BY <1>9, <2>1 DEF Timeout, TypeOK
  <2>2. CASE ~validated
    <3>1. ready' = FALSE /\ current' = "native" /\ native' \in NativeType
      BY <1>9, <2>2, FallbackType DEF Timeout
    <3>2. timers' \in Nat /\ error' \in BOOLEAN
      BY <1>9, <2>2 DEF Timeout, TypeOK
    <3>3. /\ error' = TRUE
          /\ UNCHANGED <<validated, pending, selected, page, scripts, clicks, replies, events,
               retries, told, counts>>
      BY <1>9, <2>2 DEF Timeout
    <3> QED BY <3>1, <3>2, <3>3 DEF TypeOK
  <2> QED BY <2>1, <2>2
<1>10. CASE Reload
  <2>1. Script("load", {}) \in ScriptType
    BY DEF Script, ScriptType
  <2>2. scripts' \in Seq(ScriptType)
    BY <1>10, <1>a, <2>1 DEF Reload
  <2>3. ready = FALSE /\ current = "native"
    BY <1>10 DEF Reload, TypeOK, UsingLeaflet
  <2>4. timers' \in Nat /\ reloads' \in Nat
    BY <1>10 DEF Reload, TypeOK
  <2>5. /\ error' = FALSE /\ ready' = FALSE /\ validated' = FALSE
        /\ UNCHANGED <<pending, selected, current, native, page, clicks, replies, events, retries,
             told, sets, clicked>>
    BY <1>10 DEF Reload
  <2> QED BY <2>2, <2>3, <2>4, <2>5 DEF TypeOK
<1>11. CASE RunScript
  <2>1. Head(scripts) \in ScriptType /\ Tail(scripts) \in Seq(ScriptType)
    BY <1>11, <1>a, HeadTailProperties DEF RunScript
  <2>2. replies' \in Seq(BOOLEAN)
    <3> DEFINE up == page.up = "ok"
    <3>1. replies' = IF Head(scripts).do = "diagnostics" THEN Append(replies, up) ELSE replies
      BY <1>11 DEF RunScript
    <3>2. up \in BOOLEAN
      OBVIOUS
    <3> HIDE DEF up
    <3>3. replies \in Seq(BOOLEAN)
      BY DEF TypeOK
    <3>4. Append(replies, up) \in Seq(BOOLEAN)
      BY <3>2, <3>3, AppendProperties
    <3> QED BY <3>1, <3>3, <3>4
  <2>3. events' \in Seq(EventType)
    <3>1. "failed" \in EventType /\ events \in Seq(EventType)
      BY DEF EventType, TypeOK
    <3>2. events' = events \/ events' = Append(events, "failed")
      BY <1>11 DEF RunScript
    <3> QED BY <3>1, <3>2
  <2>4. page' \in PageType
    <3>1. page \in PageType
      BY DEF TypeOK
    <3>2. page' \in {Blank("loading"), page, [page EXCEPT !.stations = Head(scripts).what],
                     [page EXCEPT !.selected = Head(scripts).what]}
      BY <1>11 DEF RunScript
    <3>3. Head(scripts).what \in SUBSET Stations
      BY <2>1 DEF ScriptType
    <3> QED BY <3>1, <3>2, <3>3 DEF PageType, Blank
  <2>5. told' \subseteq {"stations", "selection"}
    BY <1>11, <2>1 DEF RunScript, TypeOK, ScriptType
  <2>6. scripts' = Tail(scripts)
        /\ UNCHANGED <<pending, selected, flags, native, clicks, timers, retries, counts>>
    BY <1>11 DEF RunScript
  <2> QED BY <2>1, <2>2, <2>3, <2>4, <2>5, <2>6 DEF TypeOK
<1>12. CASE Loaded
  <2>1. events' \in Seq(EventType)
    <3>1. /\ <<"ready", "finished">> \in Seq(EventType) /\ events \in Seq(EventType)
          /\ "finished" \in EventType /\ "failed" \in EventType
      BY DEF EventType, TypeOK
    <3>2. events' \in {events \o <<"ready", "finished">>, Append(events, "finished"),
                       Append(events, "failed")}
      BY <1>12 DEF Loaded
    <3>3. events \o <<"ready", "finished">> \in Seq(EventType)
      BY <3>1, ConcatProperties
    <3>4. Append(events, "finished") \in Seq(EventType) /\ Append(events, "failed") \in Seq(EventType)
      BY <3>1, AppendProperties
    <3> QED BY <3>2, <3>3, <3>4
  <2>2. page' \in PageType
    BY <1>12 DEF Loaded, TypeOK, PageType
  <2>3. UNCHANGED <<pending, selected, flags, native, scripts, clicks, replies, timers, retries,
          told, counts>>
    BY <1>12 DEF Loaded
  <2> QED BY <2>1, <2>2, <2>3 DEF TypeOK
<1>13. ASSUME NEW s \in Stations, Click(s) PROVE TypeOK'
  <2> DEFINE on == s \notin page.selected
  <2>1. [id |-> s, on |-> on] \in ClickType
    BY DEF ClickType
  <2>2. clicks' \in Seq(ClickType)
    <3>1. clicks' = Append(clicks, [id |-> s, on |-> on])
      BY <1>13 DEF Click
    <3> HIDE DEF on
    <3> QED BY <2>1, <3>1 DEF TypeOK
  <2>3. With(page.selected, s, on) \in SUBSET Stations
    BY <1>a, ListType
  <2>4. page' = [page EXCEPT !.selected = With(page.selected, s, on)]
    BY <1>13 DEF Click
  <2>5. page' \in PageType
    BY <2>3, <2>4 DEF TypeOK, PageType
  <2> QED BY <1>13, <2>2, <2>5 DEF Click, TypeOK
<1>14. CASE SelectArea
  <2>0. PICK area \in SUBSET page.stations :
          /\ page' = [page EXCEPT !.selected = page.selected \cup area]
          /\ \E order \in Bijection(1..Cardinality(area \ page.selected), area \ page.selected) :
               clicks' = clicks \o [i \in DOMAIN order |-> [id |-> order[i], on |-> TRUE]]
    BY <1>14 DEF SelectArea
  <2> DEFINE new == area \ page.selected
  <2>1. PICK order \in [1..Cardinality(new) -> new] :
          clicks' = clicks \o [i \in DOMAIN order |-> [id |-> order[i], on |-> TRUE]]
    BY <2>0 DEF Bijection, Injection
  <2>2. Cardinality(new) \in Nat
    <3>1. IsFiniteSet(new)
      BY <1>a, MapAssumption, FS_Subset
    <3> QED BY <3>1, FS_CardinalityType
  <2>3. new \subseteq Stations
    BY <1>a
  <2> DEFINE toggles == [i \in DOMAIN order |-> [id |-> order[i], on |-> TRUE]]
  <2>4. toggles \in Seq(ClickType)
    <3>1. DOMAIN order = 1..Cardinality(new)
      OBVIOUS
    <3>2. \A i \in 1..Cardinality(new) : order[i] \in Stations
      BY <2>3
    <3>3. toggles \in [1..Cardinality(new) -> ClickType]
      BY <3>1, <3>2 DEF ClickType
    <3> HIDE DEF toggles, new
    <3> QED BY <3>3, <2>2, SeqDef
  <2>5. clicks' \in Seq(ClickType)
    <3> HIDE DEF toggles
    <3>1. clicks' = clicks \o toggles
      BY <2>1 DEF toggles
    <3> QED BY <3>1, <2>4, ConcatProperties DEF TypeOK
  <2>7. page' \in PageType
    BY <2>0, <1>a DEF TypeOK, PageType
  <2> QED BY <1>14, <2>5, <2>7 DEF SelectArea, TypeOK
<1>15. CASE UNCHANGED vars
  BY <1>15 DEF vars, TypeOK
<1> QED
  BY <1>1, <1>2, <1>3, <1>4, <1>5, <1>6, <1>7, <1>8, <1>9, <1>10, <1>11, <1>12, <1>13, <1>14,
     <1>15 DEF Next, User, System

(* The types of the widget, of the page and of what is on its way between  *)
(* them; the page is on top exactly while it is ready.                     *)
THEOREM TypeCorrect == Safety => []TypeOK
<1> QED BY TypeInit, TypeStep, PTL DEF Safety

-----------------------------------------------------------------------------
(* The canvas *)

LEMMA NativeStep ==
    ASSUME TypeOK, NativeIsCurrent, [Next]_vars
    PROVE  NativeIsCurrent'
<1> USE DEF flags, way, counts
<1> SUFFICES ASSUME current' = "native"
             PROVE  native' = [stations |-> pending', selected |-> selected']
  BY DEF NativeIsCurrent
<1>a. /\ native \in NativeType /\ TypeOK'
      /\ current = "native" <=> ~ready
      /\ current = "native" => native = [stations |-> pending, selected |-> selected]
  BY TypeStep DEF TypeOK, NativeIsCurrent
<1>b. ASSUME Fallback, UNCHANGED <<pending, selected>>
      PROVE  native' = [stations |-> pending', selected |-> selected']
  BY <1>b DEF Fallback
<1>1. ASSUME NEW list \in Lists, SetStations(list)
      PROVE  native' = [stations |-> pending', selected |-> selected']
  BY <1>1, <1>a DEF SetStations, UsingLeaflet, NativeType
<1>2. ASSUME NEW new \in SUBSET Stations, SetSelected(new)
      PROVE  native' = [stations |-> pending', selected |-> selected']
  BY <1>2, <1>a DEF SetSelected, Select, UsingLeaflet, NativeType
<1>3. CASE ClearSelection
  BY <1>3, <1>a DEF ClearSelection, NativeType
<1>4. ASSUME NEW s \in Stations, NativeClick(s)
      PROVE  native' = [stations |-> pending', selected |-> selected']
  <2> DEFINE on == s \notin native.selected
             new == With(selected, s, on)
             shown == With(native.selected, s, on)
  <2>1. Select(new, shown) /\ current = "native" /\ pending' = pending
    BY <1>4 DEF NativeClick
  <2>2. shown = new /\ native = [stations |-> pending, selected |-> selected]
    BY <1>a, <2>1
  <2> HIDE DEF new, shown
  <2> QED BY <1>a, <2>1, <2>2 DEF Select, UsingLeaflet
<1>5. CASE Toggled
  <2> DEFINE new == With(selected, Head(clicks).id, Head(clicks).on)
  <2>1. Select(new, native.selected) /\ pending' = pending /\ current' = current
    BY <1>5 DEF Toggled
  <2> HIDE DEF new
  <2> QED BY <1>a, <2>1 DEF Select, UsingLeaflet, NativeType
<1>6. CASE Signalled
  BY <1>6, <1>a, <1>b DEF Signalled
<1>7. CASE DiagnosticsChecked
  BY <1>7, <1>a DEF DiagnosticsChecked
<1>8. CASE Timeout
  BY <1>8, <1>a, <1>b DEF Timeout
<1>9. CASE \/ Retry \/ Reload \/ RunScript \/ Loaded \/ SelectArea
           \/ \E s \in Stations : Click(s)
           \/ UNCHANGED vars
  BY <1>9, <1>a DEF Retry, Reload, RunScript, Loaded, SelectArea, Click, vars
<1> QED
  BY <1>1, <1>2, <1>3, <1>4, <1>5, <1>6, <1>7, <1>8, <1>9 DEF Next, User, System

(* The canvas is never shown stale: not after a fallback, nor after any    *)
(* calls that came while the page was on top of it.                        *)
THEOREM NativeAlwaysCurrent == Safety => []NativeIsCurrent
<1>1. Init => NativeIsCurrent
  BY DEF Init, NativeIsCurrent
<1>2. TypeOK /\ NativeIsCurrent /\ [Next]_vars => NativeIsCurrent'
  BY NativeStep
<1> QED BY <1>1, <1>2, TypeCorrect, PTL DEF Safety

-----------------------------------------------------------------------------
(* What an action on the queue of scripts does to the last ones in it *)

LEMMA AskedFacts ==
    ASSUME TypeOK, Ask
    PROVE  /\ \A i \in DOMAIN scripts' : scripts'[i].do \in Kinds /\ Final(i)' =>
                i \in DOMAIN scripts /\ Final(i) /\ scripts'[i] = scripts[i]
           /\ \A kind \in Kinds : Still(kind)' => Still(kind)
<1>1. /\ DOMAIN scripts = 1..Len(scripts) /\ Len(scripts) \in Nat
      /\ DOMAIN scripts' = 1..(Len(scripts) + 1)
      /\ \A i \in 1..Len(scripts) : scripts'[i] = scripts[i]
      /\ scripts'[Len(scripts) + 1].do = "diagnostics"
  <2>1. scripts \in Seq(ScriptType)
    BY DEF TypeOK
  <2> QED BY <2>1 DEF Ask, Script
<1> QED BY <1>1 DEF Final, Still, Kinds

LEMMA SentFacts ==
    ASSUME TypeOK, NEW kind \in Kinds, NEW what, scripts' = Append(scripts, Script(kind, what))
    PROVE  /\ \A i \in DOMAIN scripts' : scripts'[i].do \in Kinds /\ Final(i)' =>
                \/ scripts'[i].do = kind /\ scripts'[i].what = what
                \/ /\ i \in DOMAIN scripts /\ Final(i) /\ scripts'[i] = scripts[i]
                   /\ scripts[i].do # kind
           /\ ~Still(kind)'
           /\ \A other \in Kinds : Still(other)' => Still(other)
<1>1. /\ DOMAIN scripts = 1..Len(scripts) /\ Len(scripts) \in Nat
      /\ DOMAIN scripts' = 1..(Len(scripts) + 1)
      /\ \A i \in 1..Len(scripts) : scripts'[i] = scripts[i]
      /\ scripts'[Len(scripts) + 1] = Script(kind, what)
  <2>1. scripts \in Seq(ScriptType)
    BY DEF TypeOK
  <2> QED BY <2>1
<1>2. Script(kind, what).do = kind /\ Script(kind, what).what = what
  BY DEF Script
<1> HIDE DEF Script
<1> QED BY <1>1, <1>2 DEF Final, Still, Kinds

LEMMA LoadingFacts ==
    ASSUME TypeOK, scripts' = Append(scripts, Script("load", {}))
    PROVE  /\ \A i \in DOMAIN scripts' : ~(scripts'[i].do \in Kinds /\ Final(i)')
           /\ \A kind \in Kinds : ~Still(kind)'
<1>1. /\ DOMAIN scripts = 1..Len(scripts) /\ Len(scripts) \in Nat
      /\ DOMAIN scripts' = 1..(Len(scripts) + 1)
      /\ scripts'[Len(scripts) + 1].do = "load"
  <2>1. scripts \in Seq(ScriptType)
    BY DEF TypeOK
  <2> QED BY <2>1 DEF Script
<1> QED BY <1>1 DEF Final, Still, Kinds

LEMMA RanFacts ==
    ASSUME TypeOK, scripts # <<>>, scripts' = Tail(scripts)
    PROVE  /\ \A i \in DOMAIN scripts' : scripts'[i].do \in Kinds /\ Final(i)' =>
                i + 1 \in DOMAIN scripts /\ Final(i + 1) /\ scripts'[i] = scripts[i + 1]
           /\ \A kind \in Kinds : Still(kind)' =>
                \/ Still(kind)
                \/ scripts[1].do = "load"
                \/ scripts[1].do = kind /\ Final(1)
           /\ 1 \in DOMAIN scripts /\ scripts[1] = Head(scripts)
<1>1. /\ DOMAIN scripts = 1..Len(scripts) /\ Len(scripts) \in Nat \ {0}
      /\ DOMAIN scripts' = 1..(Len(scripts) - 1)
      /\ \A i \in 1..(Len(scripts) - 1) : scripts'[i] = scripts[i + 1]
      /\ scripts[1] = Head(scripts)
  <2>1. scripts \in Seq(ScriptType)
    BY DEF TypeOK
  <2> QED BY <2>1
<1>2. ASSUME NEW i \in DOMAIN scripts', scripts'[i].do \in Kinds, Final(i)'
      PROVE  Final(i + 1)
  <2>1. ASSUME NEW j \in DOMAIN scripts, j >= i + 1
        PROVE  /\ scripts[j].do # "load"
               /\ j > i + 1 => scripts[j].do # scripts[i + 1].do
    <3>1. j - 1 \in DOMAIN scripts' /\ scripts'[j - 1] = scripts[j] /\ j - 1 >= i
      BY <1>1, <1>2, <2>1
    <3> QED BY <1>1, <1>2, <2>1, <3>1 DEF Final
  <2> QED BY <1>1, <1>2, <2>1 DEF Final
<1>3. ASSUME NEW kind \in Kinds, Still(kind)', scripts[1].do \notin {"load", kind}
      PROVE  Still(kind)
  <2>1. ASSUME NEW j \in DOMAIN scripts PROVE scripts[j].do \notin {"load", kind}
    <3>1. j = 1 \/ (j - 1 \in DOMAIN scripts' /\ scripts'[j - 1] = scripts[j])
      BY <1>1, <2>1
    <3> QED BY <1>3, <3>1 DEF Still
  <2> QED BY <2>1 DEF Still
<1>4. ASSUME NEW kind \in Kinds, Still(kind)', scripts[1].do = kind
      PROVE  Final(1)
  <2>1. ASSUME NEW j \in DOMAIN scripts, j > 1 PROVE scripts[j].do \notin {"load", kind}
    <3>1. j - 1 \in DOMAIN scripts' /\ scripts'[j - 1] = scripts[j]
      BY <1>1, <2>1
    <3> QED BY <1>4, <3>1 DEF Still
  <2> QED BY <1>1, <1>4, <2>1 DEF Final, Kinds
<1> QED BY <1>1, <1>2, <1>3, <1>4

-----------------------------------------------------------------------------
(* The page follows the widget *)

\* Nothing that is claimed of the page changes, or the page is given up.
LEMMA KeptClaims ==
    ASSUME TypeOK, Claims,
           Ask \/ UNCHANGED scripts,
           UNCHANGED <<pending, selected, told, clicks, validated>>,
           page'.stations = page.stations, page'.selected = page.selected,
           told # {} => page'.up = "ok",
           ready' => ready
    PROVE  Claims'
<1>1. /\ \A i \in DOMAIN scripts' : scripts'[i].do \in Kinds /\ Final(i)' =>
           i \in DOMAIN scripts /\ Final(i) /\ scripts'[i] = scripts[i]
      /\ \A kind \in Kinds : Still(kind)' => Still(kind)
  <2>1. CASE Ask
    BY <2>1, AskedFacts
  <2>2. CASE UNCHANGED scripts
    BY <2>2 DEF Final, Still
  <2> QED BY <2>1, <2>2
<1>2. \A kind \in Kinds : Target(kind)' = Target(kind)
  BY DEF Target
<1>3. \A s \in Stations : Agreed(s) => Agreed(s)'
  BY DEF Agreed
<1>4. ToldIsUp'
  BY DEF ToldIsUp
<1>5. ToldIsValidated'
  BY <1>1 DEF Claims, ToldIsValidated
<1>6. ScriptsCurrent'
  BY <1>1, <1>2 DEF Claims, ScriptsCurrent
<1>7. StationsCurrent'
  BY <1>1 DEF Claims, StationsCurrent, Kinds
<1>8. SelectionCurrent'
  BY <1>1, <1>3 DEF Claims, SelectionCurrent, Kinds
<1> QED BY <1>4, <1>5, <1>6, <1>7, <1>8 DEF Claims

\* The widget sets stations or selection, and the page is told if it is ready.
LEMMA SentClaims ==
    ASSUME TypeOK, Claims, NEW kind \in Kinds, NEW what, Run(Script(kind, what)),
           Target(kind)' = what, \A other \in Kinds \ {kind} : Target(other)' = Target(other),
           UNCHANGED <<ready, validated, page, told>>,
           kind = "selection" \/ UNCHANGED clicks
    PROVE  Claims'
<1>1. CASE ~ready
  <2>1. UNCHANGED scripts
    BY <1>1 DEF Run
  <2>2. ToldIsUp' /\ ToldIsValidated'
    BY <2>1 DEF Claims, ToldIsUp, ToldIsValidated, Final, Still
  <2> QED BY <1>1, <2>2 DEF Claims, ScriptsCurrent, StationsCurrent, SelectionCurrent
<1>2. CASE ready
  <2>1. scripts' = Append(scripts, Script(kind, what))
    BY <1>2 DEF Run
  <2>2. /\ \A i \in DOMAIN scripts' : scripts'[i].do \in Kinds /\ Final(i)' =>
             \/ scripts'[i].do = kind /\ scripts'[i].what = what
             \/ /\ i \in DOMAIN scripts /\ Final(i) /\ scripts'[i] = scripts[i]
                /\ scripts[i].do # kind
        /\ ~Still(kind)'
        /\ \A other \in Kinds : Still(other)' => Still(other)
    BY <2>1, SentFacts
  <2>3. ToldIsUp' /\ ToldIsValidated'
    BY <1>2 DEF Claims, ToldIsUp, ToldIsValidated, TypeOK
  <2>4. ScriptsCurrent'
    BY <1>2, <2>2 DEF Claims, ScriptsCurrent
  <2>5. StationsCurrent'
    <3>1. CASE kind = "stations"
      BY <2>2, <3>1 DEF StationsCurrent
    <3>2. CASE kind = "selection"
      BY <1>2, <2>2, <3>2 DEF Claims, StationsCurrent, Kinds, Target
    <3> QED BY <3>1, <3>2 DEF Kinds
  <2>6. SelectionCurrent'
    <3>1. CASE kind = "selection"
      BY <2>2, <3>1 DEF SelectionCurrent
    <3>2. CASE kind = "stations"
      <4>1. selected' = selected /\ clicks' = clicks
        BY <3>2 DEF Target, Kinds
      <4>2. \A s \in Stations : Agreed(s) => Agreed(s)'
        BY <4>1 DEF Agreed
      <4> QED BY <1>2, <2>2, <3>2, <4>2 DEF Claims, SelectionCurrent, Kinds
    <3> QED BY <3>1, <3>2 DEF Kinds
  <2> QED BY <2>3, <2>4, <2>5, <2>6 DEF Claims
<1> QED BY <1>1, <1>2

\* The same selection again.  A click that changes nothing may be forgotten.
LEMMA SameClaims ==
    ASSUME TypeOK, Claims, UNCHANGED <<scripts, pending, selected, ready, validated, page, told>>,
           \A s \in Stations : Agreed(s) => Agreed(s)'
    PROVE  Claims'
BY DEF Claims, ToldIsUp, ToldIsValidated, ScriptsCurrent, StationsCurrent, SelectionCurrent, Final,
       Still, Target, Kinds

LEMMA SelectClaims ==
    ASSUME TypeOK, Claims, NEW new, NEW shown, Select(new, shown),
           UNCHANGED <<pending, ready, validated, page, told>>,
           new = selected => \A s \in Stations : Agreed(s) => Agreed(s)'
    PROVE  Claims'
<1>1. CASE new = selected
  <2>1. UNCHANGED <<selected, scripts>>
    BY <1>1 DEF Select
  <2> QED BY <1>1, <2>1, SameClaims
<1>2. CASE new # selected
  <2>1. selected' = new /\ Run(Script("selection", new))
    BY <1>2 DEF Select
  <2>2. Target("selection")' = new /\ Target("stations")' = Target("stations")
    BY <2>1 DEF Target
  <2>3. "selection" \in Kinds /\ \A other \in Kinds \ {"selection"} : other = "stations"
    BY DEF Kinds
  <2> QED BY <2>1, <2>2, <2>3, SentClaims
<1> QED BY <1>1, <1>2

LEMMA ToggledClaims ==
    ASSUME TypeOK, Claims, Toggled
    PROVE  Claims'
<1> DEFINE new == With(selected, Head(clicks).id, Head(clicks).on)
<1>1. /\ Select(new, native.selected) /\ clicks # <<>> /\ clicks' = Tail(clicks)
      /\ UNCHANGED <<pending, ready, validated, page, told>>
  BY DEF Toggled, flags
<1>2. ASSUME new = selected, NEW s \in Stations, Agreed(s)
      PROVE  Agreed(s)'
  <2>1. UNCHANGED <<selected, page>>
    BY <1>1, <1>2 DEF Select
  <2>2. /\ DOMAIN clicks = 1..Len(clicks) /\ Len(clicks) \in Nat \ {0}
        /\ DOMAIN clicks' = 1..(Len(clicks) - 1)
        /\ \A i \in 1..(Len(clicks) - 1) : clicks'[i] = clicks[i + 1]
        /\ clicks[1] = Head(clicks) /\ clicks[1] \in ClickType
    <3>1. clicks \in Seq(ClickType)
      BY DEF TypeOK
    <3> QED BY <1>1, <3>1
  <2>3. CASE s \in page.selected <=> s \in selected
    BY <2>1, <2>3 DEF Agreed
  <2>4. CASE ~(s \in page.selected <=> s \in selected)
    <3>1. PICK i \in DOMAIN clicks :
            /\ clicks[i].id = s
            /\ clicks[i].on <=> s \in page.selected
            /\ \A j \in DOMAIN clicks : j > i => clicks[j].id # s
      BY <1>2, <2>4 DEF Agreed
    <3>2. i # 1
      <4>1. ASSUME i = 1 PROVE FALSE
        <5>1. Head(clicks).id = s /\ (Head(clicks).on <=> s \in page.selected)
          BY <2>2, <3>1, <4>1
        <5>2. s \in selected <=> Head(clicks).on
          BY <1>2, <5>1 DEF With
        <5> QED BY <2>4, <5>1, <5>2
      <4> QED BY <4>1
    <3>3. i - 1 \in DOMAIN clicks' /\ clicks'[i - 1] = clicks[i]
      BY <2>2, <3>2
    <3>4. ASSUME NEW j \in DOMAIN clicks', j > i - 1 PROVE clicks'[j].id # s
      <4>1. j + 1 \in DOMAIN clicks /\ clicks'[j] = clicks[j + 1] /\ j + 1 > i
        BY <2>2, <3>4
      <4> QED BY <3>1, <4>1
    <3> QED BY <2>1, <3>1, <3>3, <3>4 DEF Agreed
  <2> QED BY <2>3, <2>4
<1> HIDE DEF new
<1> QED BY <1>1, <1>2, SelectClaims

\* A page that works is shown: nothing was told to it before.
LEMMA CheckedClaims ==
    ASSUME TypeOK, Claims, DiagnosticsChecked
    PROVE  Claims'
<1>1. UNCHANGED <<pending, selected, told, clicks, page, scripts>>
  BY DEF DiagnosticsChecked
<1>2. CASE UNCHANGED <<ready, validated>>
  BY <1>1, <1>2, KeptClaims DEF Claims, ToldIsUp
<1>3. CASE ~validated /\ validated' = TRUE
  <2>1. /\ \A i \in DOMAIN scripts : ~(scripts[i].do \in Kinds /\ Final(i))
        /\ \A kind \in Kinds : Still(kind) => kind \notin told
    BY <1>3 DEF Claims, ToldIsValidated
  <2>2. /\ \A i \in DOMAIN scripts' : ~(scripts'[i].do \in Kinds /\ Final(i)')
        /\ \A kind \in Kinds : Still(kind)' => kind \notin told'
    BY <1>1, <2>1 DEF Final, Still
  <2>3. ToldIsUp'
    BY <1>1 DEF Claims, ToldIsUp
  <2> QED BY <1>3, <2>2, <2>3 DEF Claims, ToldIsValidated, ScriptsCurrent, StationsCurrent,
                                  SelectionCurrent, Kinds
<1> QED BY <1>2, <1>3 DEF DiagnosticsChecked, flags

LEMMA ReloadClaims ==
    ASSUME TypeOK, Claims, Reload
    PROVE  Claims'
<1>1. /\ scripts' = Append(scripts, Script("load", {})) /\ ready' = FALSE
      /\ UNCHANGED <<page, told>>
  BY DEF Reload
<1>2. /\ \A i \in DOMAIN scripts' : ~(scripts'[i].do \in Kinds /\ Final(i)')
      /\ \A kind \in Kinds : ~Still(kind)'
  BY <1>1, LoadingFacts
<1>3. ToldIsUp'
  BY <1>1 DEF Claims, ToldIsUp
<1> QED BY <1>1, <1>2, <1>3 DEF Claims, ToldIsValidated, ScriptsCurrent, StationsCurrent,
                                SelectionCurrent

LEMMA RunScriptClaims ==
    ASSUME TypeOK, Claims, RunScript
    PROVE  Claims'
<1> DEFINE s == Head(scripts)
           up == page.up = "ok"
<1>1. /\ scripts # <<>> /\ scripts' = Tail(scripts)
      /\ UNCHANGED <<pending, selected, ready, validated, clicks>>
      /\ page' = CASE s.do = "load" -> Blank("loading")
                   [] s.do = "stations" /\ up -> [page EXCEPT !.stations = s.what]
                   [] s.do = "selection" /\ up -> [page EXCEPT !.selected = s.what]
                   [] OTHER -> page
      /\ told' = IF s.do = "load" THEN {}
                 ELSE IF s.do # "diagnostics" /\ up THEN told \cup {s.do} ELSE told
  BY DEF RunScript, flags
<1>2. /\ \A i \in DOMAIN scripts' : scripts'[i].do \in Kinds /\ Final(i)' =>
           i + 1 \in DOMAIN scripts /\ Final(i + 1) /\ scripts'[i] = scripts[i + 1]
      /\ \A kind \in Kinds : Still(kind)' =>
           \/ Still(kind)
           \/ scripts[1].do = "load"
           \/ scripts[1].do = kind /\ Final(1)
      /\ 1 \in DOMAIN scripts /\ scripts[1] = s
  BY <1>1, RanFacts
<1>3. s \in ScriptType /\ page \in PageType
  BY <1>1 DEF TypeOK
<1> HIDE DEF s
<1>4. s.do \in {"load", "diagnostics", "stations", "selection"}
  BY <1>3 DEF ScriptType
<1>5. \A kind \in Kinds : Target(kind)' = Target(kind)
  BY <1>1 DEF Target
<1>6. ToldIsUp'
  BY <1>1, <1>3, <1>4 DEF Claims, ToldIsUp, PageType
<1>7. ScriptsCurrent'
  BY <1>1, <1>2, <1>5 DEF Claims, ScriptsCurrent
<1>8. ToldIsValidated'
  <2>1. ASSUME ~validated, NEW kind \in Kinds, Still(kind)', kind \in told'
        PROVE  FALSE
    <3>1. s.do # "load"
      BY <1>1, <2>1
    <3>2. ~(s.do = kind /\ Final(1))
      BY <1>2, <2>1 DEF Claims, ToldIsValidated
    <3>3. Still(kind)
      BY <1>2, <2>1, <3>1, <3>2
    <3>4. s.do # kind
      BY <1>2, <3>3 DEF Still
    <3>5. kind \in told
      BY <1>1, <2>1, <3>4
    <3> QED BY <2>1, <3>3, <3>5 DEF Claims, ToldIsValidated
  <2>2. ASSUME ~validated, NEW i \in DOMAIN scripts'
        PROVE  ~(scripts'[i].do \in Kinds /\ Final(i)')
    BY <1>2, <2>2 DEF Claims, ToldIsValidated
  <2> QED BY <1>1, <2>1, <2>2 DEF ToldIsValidated
<1>9. StationsCurrent'
  <2> SUFFICES ASSUME ready, Still("stations")', "stations" \in told'
               PROVE  page'.stations = pending
    BY <1>1 DEF StationsCurrent
  <2>1. s.do # "load"
    BY <1>1
  <2>2. CASE s.do = "stations"
    <3>1. Final(1)
      BY <1>2, <2>1, <2>2 DEF Still, Kinds
    <3>2. s.what = pending
      BY <1>2, <2>2, <3>1 DEF Claims, ScriptsCurrent, Kinds, Target
    <3>3. up
      BY <1>1, <2>2 DEF Claims, ToldIsUp, ToldIsValidated, StationsCurrent
    <3> QED BY <1>1, <1>3, <2>2, <3>2, <3>3 DEF PageType
  <2>3. CASE s.do # "stations"
    <3>1. Still("stations") /\ "stations" \in told
      BY <1>1, <1>2, <2>1, <2>3 DEF Kinds
    <3>2. page.stations = pending
      BY <3>1 DEF Claims, StationsCurrent
    <3> QED BY <1>1, <1>3, <1>4, <2>1, <2>3, <3>2 DEF PageType
  <2> QED BY <2>2, <2>3
<1>10. SelectionCurrent'
  <2> SUFFICES ASSUME ready, Still("selection")', "selection" \in told', NEW x \in Stations
               PROVE  Agreed(x)'
    BY <1>1 DEF SelectionCurrent
  <2>1. s.do # "load"
    BY <1>1
  <2>2. CASE s.do = "selection"
    <3>1. Final(1)
      BY <1>2, <2>1, <2>2 DEF Still, Kinds
    <3>2. s.what = selected
      BY <1>2, <2>2, <3>1 DEF Claims, ScriptsCurrent, Kinds, Target
    <3>3. up
      BY <1>1, <2>2 DEF Claims, ToldIsUp
    <3>4. page'.selected = selected'
      BY <1>1, <1>3, <2>2, <3>2, <3>3 DEF PageType
    <3> QED BY <3>4 DEF Agreed
  <2>3. CASE s.do # "selection"
    <3>1. Still("selection") /\ "selection" \in told
      BY <1>1, <1>2, <2>1, <2>3 DEF Kinds
    <3>2. Agreed(x)
      BY <3>1 DEF Claims, SelectionCurrent
    <3>3. page'.selected = page.selected
      BY <1>1, <1>3, <1>4, <2>1, <2>3 DEF PageType
    <3> QED BY <1>1, <3>2, <3>3 DEF Agreed
  <2> QED BY <2>2, <2>3
<1> QED BY <1>6, <1>7, <1>8, <1>9, <1>10 DEF Claims

(* Clicks in the page: a station that is toggled is on its way, the others *)
(* are as before.                                                          *)
LEMMA ClickClaims ==
    ASSUME TypeOK, Claims, NEW toggles \in Seq(ClickType), clicks' = clicks \o toggles,
           UNCHANGED <<pending, selected, ready, validated, scripts, told>>,
           page'.up = page.up, page'.stations = page.stations,
           \A i, j \in DOMAIN toggles : toggles[i].id = toggles[j].id => i = j,
           \A i \in DOMAIN toggles : toggles[i].on <=> toggles[i].id \in page'.selected,
           \A s \in Stations : \/ \E i \in DOMAIN toggles : toggles[i].id = s
                               \/ s \in page'.selected <=> s \in page.selected
    PROVE  Claims'
<1>1. /\ DOMAIN clicks = 1..Len(clicks) /\ Len(clicks) \in Nat
      /\ DOMAIN toggles = 1..Len(toggles) /\ Len(toggles) \in Nat
      /\ DOMAIN clicks' = 1..(Len(clicks) + Len(toggles))
      /\ \A i \in 1..Len(clicks) : clicks'[i] = clicks[i]
      /\ \A i \in 1..Len(toggles) : clicks'[Len(clicks) + i] = toggles[i]
  <2>1. clicks \in Seq(ClickType)
    BY DEF TypeOK
  <2> QED BY <2>1
<1>2. ASSUME NEW s \in Stations, Agreed(s) PROVE Agreed(s)'
  <2> DEFINE of == {i \in DOMAIN toggles : toggles[i].id = s}
  <2>1. CASE of = {}
    <3>1. s \in page'.selected <=> s \in page.selected
      BY <2>1
    <3>2. CASE s \in page.selected <=> s \in selected
      BY <3>1, <3>2 DEF Agreed
    <3>3. CASE ~(s \in page.selected <=> s \in selected)
      <4>1. PICK i \in DOMAIN clicks :
              /\ clicks[i].id = s
              /\ clicks[i].on <=> s \in page.selected
              /\ \A j \in DOMAIN clicks : j > i => clicks[j].id # s
        BY <1>2, <3>3 DEF Agreed
      <4>2. i \in DOMAIN clicks' /\ clicks'[i] = clicks[i]
        BY <1>1
      <4>3. ASSUME NEW j \in DOMAIN clicks', j > i PROVE clicks'[j].id # s
        <5>1. CASE j \in 1..Len(clicks)
          BY <1>1, <4>1, <4>3, <5>1
        <5>2. CASE j \notin 1..Len(clicks)
          <6>1. j - Len(clicks) \in DOMAIN toggles /\ clicks'[j] = toggles[j - Len(clicks)]
            BY <1>1, <5>2
          <6> QED BY <2>1, <6>1
        <5> QED BY <5>1, <5>2
      <4> QED BY <3>1, <4>1, <4>2, <4>3 DEF Agreed
    <3> QED BY <3>2, <3>3
  <2>2. CASE of # {}
    <3>1. PICK i \in of : TRUE
      BY <2>2
    <3>2. Len(clicks) + i \in DOMAIN clicks' /\ clicks'[Len(clicks) + i] = toggles[i]
      BY <1>1
    <3>3. ASSUME NEW j \in DOMAIN clicks', j > Len(clicks) + i PROVE clicks'[j].id # s
      <4>1. j - Len(clicks) \in DOMAIN toggles /\ clicks'[j] = toggles[j - Len(clicks)]
        BY <1>1, <3>3
      <4>2. j - Len(clicks) \notin of
        BY <1>1, <3>1, <3>3
      <4> QED BY <4>1, <4>2
    <3> QED BY <3>2, <3>3 DEF Agreed
  <2> QED BY <2>1, <2>2
<1>3. ToldIsUp' /\ ToldIsValidated' /\ ScriptsCurrent' /\ StationsCurrent'
  BY DEF Claims, ToldIsUp, ToldIsValidated, ScriptsCurrent, StationsCurrent, Final, Still, Target,
         Kinds
<1>4. SelectionCurrent'
  BY <1>2 DEF Claims, SelectionCurrent, Still
<1> QED BY <1>3, <1>4 DEF Claims

LEMMA FollowsStep ==
    ASSUME TypeOK, Claims, [Next]_vars
    PROVE  Claims'
<1> USE DEF flags, way, counts
<1>a. told # {} => page.up = "ok"
  BY DEF Claims, ToldIsUp
<1>1. ASSUME NEW list \in Lists, SetStations(list) PROVE Claims'
  <2>1. /\ Run(Script("stations", list)) /\ pending' = list
        /\ UNCHANGED <<selected, ready, validated, page, told, clicks>>
    BY <1>1 DEF SetStations
  <2>2. Target("stations")' = list /\ Target("selection")' = Target("selection")
    BY <2>1 DEF Target
  <2>3. "stations" \in Kinds /\ \A other \in Kinds \ {"stations"} : other = "selection"
    BY DEF Kinds
  <2> QED BY <2>1, <2>2, <2>3, SentClaims
<1>2. ASSUME NEW new \in SUBSET Stations, SetSelected(new) PROVE Claims'
  <2>1. /\ Select(new, native.selected) /\ new # selected
        /\ UNCHANGED <<pending, ready, validated, page, told>>
    BY <1>2 DEF SetSelected
  <2> QED BY <2>1, SelectClaims
<1>3. CASE ClearSelection
  <2>1. /\ Run(Script("selection", {})) /\ selected' = {}
        /\ UNCHANGED <<pending, ready, validated, page, told, clicks>>
    BY <1>3 DEF ClearSelection
  <2>2. Target("selection")' = {} /\ Target("stations")' = Target("stations")
    BY <2>1 DEF Target
  <2>3. "selection" \in Kinds /\ \A other \in Kinds \ {"selection"} : other = "stations"
    BY DEF Kinds
  <2> QED BY <2>1, <2>2, <2>3, SentClaims
<1>4. ASSUME NEW s \in Stations, NativeClick(s) PROVE Claims'
  <2> DEFINE on == s \notin native.selected
             new == With(selected, s, on)
             shown == With(native.selected, s, on)
  <2>1. /\ Select(new, shown)
        /\ UNCHANGED <<pending, ready, validated, page, told, clicks>>
    BY <1>4 DEF NativeClick
  <2> HIDE DEF new, shown
  <2>2. ASSUME new = selected PROVE \A t \in Stations : Agreed(t) => Agreed(t)'
    <3>1. UNCHANGED selected
      BY <2>1, <2>2 DEF Select
    <3> QED BY <2>1, <3>1 DEF Agreed
  <2> QED BY <2>1, <2>2, SelectClaims
<1>5. CASE Toggled
  BY <1>5, ToggledClaims
<1>6. CASE Signalled
  <2>1. /\ Ask \/ UNCHANGED scripts
        /\ UNCHANGED <<pending, selected, told, clicks, validated, page>>
        /\ ready' => ready
    BY <1>6 DEF Signalled, Fallback
  <2> QED BY <1>a, <2>1, KeptClaims
<1>7. CASE DiagnosticsChecked
  BY <1>7, CheckedClaims
<1>8. CASE Retry
  <2>1. /\ Ask \/ UNCHANGED scripts
        /\ UNCHANGED <<pending, selected, told, clicks, validated, ready, page>>
    BY <1>8 DEF Retry
  <2> QED BY <1>a, <2>1, KeptClaims
<1>9. CASE Timeout
  <2>1. /\ UNCHANGED <<pending, selected, told, clicks, validated, page, scripts>>
        /\ ready' => ready
    BY <1>9 DEF Timeout, Fallback
  <2> QED BY <1>a, <2>1, KeptClaims
<1>10. CASE Reload
  BY <1>10, ReloadClaims
<1>11. CASE RunScript
  BY <1>11, RunScriptClaims
<1>12. CASE Loaded
  <2>1. /\ UNCHANGED <<pending, selected, told, clicks, validated, ready, scripts>>
        /\ page.up = "loading"
        /\ page'.stations = page.stations /\ page'.selected = page.selected
    BY <1>12 DEF Loaded, TypeOK, PageType
  <2> QED BY <1>a, <2>1, KeptClaims
<1>13. ASSUME NEW s \in Stations, Click(s) PROVE Claims'
  <2> DEFINE on == s \notin page.selected
             toggle == [id |-> s, on |-> on]
             new == With(page.selected, s, on)
  <2>1. /\ clicks' = Append(clicks, toggle) /\ page' = [page EXCEPT !.selected = new]
        /\ UNCHANGED <<pending, selected, ready, validated, scripts, told>>
    BY <1>13 DEF Click
  <2>2. toggle \in ClickType /\ toggle.id = s
    BY DEF ClickType
  <2>3. /\ page'.up = page.up /\ page'.stations = page.stations /\ page'.selected = new
    BY <2>1 DEF TypeOK, PageType
  <2>4. /\ toggle.on <=> s \in new
        /\ \A x \in Stations : x = s \/ (x \in new <=> x \in page.selected)
    BY DEF With
  <2> HIDE DEF toggle, new
  <2>5. /\ <<toggle>> \in Seq(ClickType) /\ DOMAIN <<toggle>> = {1} /\ <<toggle>>[1] = toggle
        /\ clicks \o <<toggle>> = Append(clicks, toggle)
    BY <2>2 DEF TypeOK
  <2> QED BY <2>1, <2>2, <2>3, <2>4, <2>5, ClickClaims
<1>14. CASE SelectArea
  <2>0. PICK area \in SUBSET page.stations :
          /\ page' = [page EXCEPT !.selected = page.selected \cup area]
          /\ \E order \in Bijection(1..Cardinality(area \ page.selected), area \ page.selected) :
               clicks' = clicks \o [i \in DOMAIN order |-> [id |-> order[i], on |-> TRUE]]
    BY <1>14 DEF SelectArea
  <2> DEFINE new == area \ page.selected
             n == Cardinality(new)
  <2>1. PICK order \in Bijection(1..n, new) :
          clicks' = clicks \o [i \in DOMAIN order |-> [id |-> order[i], on |-> TRUE]]
    BY <2>0
  <2>2. n \in Nat /\ new \subseteq Stations
    <3>1. new \subseteq Stations
      BY DEF TypeOK, PageType
    <3>2. IsFiniteSet(new)
      BY <3>1, MapAssumption, FS_Subset
    <3> QED BY <3>1, <3>2, FS_CardinalityType
  <2> DEFINE toggles == [i \in 1..n |-> [id |-> order[i], on |-> TRUE]]
  <2>3. /\ page'.up = page.up /\ page'.stations = page.stations
        /\ page'.selected = page.selected \cup area
        /\ UNCHANGED <<pending, selected, ready, validated, scripts, told>>
    BY <1>14, <2>0 DEF SelectArea, TypeOK, PageType
  <2> HIDE DEF n, new
  <2>4. /\ DOMAIN order = 1..n /\ \A i \in 1..n : order[i] \in new
        /\ \A i, j \in 1..n : order[i] = order[j] => i = j
        /\ \A s \in new : \E i \in 1..n : order[i] = s
    BY <2>1 DEF Bijection, Injection, Surjection, IsInjective
  <2>5. /\ toggles \in [1..n -> ClickType] /\ DOMAIN toggles = 1..n
        /\ clicks' = clicks \o toggles
    BY <2>1, <2>2, <2>4 DEF ClickType
  <2>6. \A i \in 1..n : toggles[i].id = order[i] /\ toggles[i].on = TRUE
    OBVIOUS
  <2> HIDE DEF toggles
  <2>7. toggles \in Seq(ClickType)
    BY <2>2, <2>5, SeqDef
  <2>8. \A i \in 1..n : toggles[i].on <=> toggles[i].id \in page'.selected
    BY <2>3, <2>4, <2>6 DEF new
  <2>9. \A s \in Stations : \/ \E i \in 1..n : toggles[i].id = s
                            \/ s \in page'.selected <=> s \in page.selected
    BY <2>3, <2>4, <2>6 DEF new
  <2>10. \A i, j \in DOMAIN toggles : toggles[i].id = toggles[j].id => i = j
    BY <2>4, <2>5, <2>6
  <2> QED BY <2>3, <2>5, <2>7, <2>8, <2>9, <2>10, ClickClaims
<1>15. CASE UNCHANGED vars
  <2>1. UNCHANGED <<pending, selected, told, clicks, validated, ready, page, scripts>>
    BY <1>15 DEF vars
  <2> QED BY <1>a, <2>1, KeptClaims
<1> QED
  BY <1>1, <1>2, <1>3, <1>4, <1>5, <1>6, <1>7, <1>8, <1>9, <1>10, <1>11, <1>12, <1>13, <1>14,
     <1>15 DEF Next, User, System

(* When no script and no click is on its way, the page shows the stations  *)
(* and the selection of the widget, as far as it was told of them since it *)
(* was loaded, however its clicks and the widget's calls were interleaved. *)
THEOREM PageAlwaysFollows == Safety => []PageFollows
<1>1. Init => Claims
  BY DEF Init, Claims, ToldIsUp, ToldIsValidated, ScriptsCurrent, StationsCurrent, SelectionCurrent
<1>2. TypeOK /\ Claims /\ [Next]_vars => Claims'
  BY FollowsStep
<1>3. TypeOK /\ Claims => PageFollows
  <2> SUFFICES ASSUME TypeOK, Claims, Quiet, current = "web"
               PROVE  /\ "selection" \in told => page.selected = selected
                      /\ "stations" \in told => page.stations = pending
    BY DEF PageFollows
  <2>1. ready /\ Still("stations") /\ Still("selection")
    BY DEF TypeOK, Still, Quiet
  <2>2. page.selected \subseteq Stations /\ selected \subseteq Stations
    BY DEF TypeOK, PageType
  <2>3. ASSUME "selection" \in told PROVE page.selected = selected
    <3>1. \A s \in Stations : Agreed(s)
      BY <2>1, <2>3 DEF Claims, SelectionCurrent
    <3>2. \A s \in Stations : s \in page.selected <=> s \in selected
      BY <3>1 DEF Agreed, Quiet
    <3> QED BY <2>2, <3>2
  <2> QED BY <2>1, <2>3 DEF Claims, StationsCurrent
<1> QED BY <1>1, <1>2, <1>3, TypeCorrect, PTL DEF Safety
=============================================================================
