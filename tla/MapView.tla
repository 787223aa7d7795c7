------------------------------ MODULE MapView ------------------------------
(***************************************************************************)
(* The station map (gui/widgets/map_view.py) and the page it loads into a  *)
(* web view (gui/resources/map/map.js).  A canvas of its own is shown until*)
(* the page has proved to work; then the page is shown.  The widget talks  *)
(* to the page by scripts, run in order by another process; the page talks *)
(* to the widget by the results of scripts, by signals of the web view and *)
(* by calls of its bridge.  The page of the application that holds the map *)
(* is part of the model: it hands on every selection it is told of.        *)
(***************************************************************************)
EXTENDS Sequences, FiniteSets, Functions, Integers

CONSTANTS
    Stations,
    Lists,          \* sets of stations that a filter may show
    MaxSets,        \* bounds: calls that set stations or selection,
    MaxClicks,      \*   clicks in the page,
    MaxReloads      \*   reloads of it

ASSUME MapAssumption ==
    /\ IsFiniteSet(Stations)
    /\ Lists \subseteq SUBSET Stations /\ {} \in Lists
    /\ MaxSets \in Nat /\ MaxClicks \in Nat /\ MaxReloads \in Nat

VARIABLES
    pending, selected,          \* _pending_stations, _pending_selected
    ready, validated, error,    \* _web_ready, _web_validated, _web_error # ""
    current,                    \* the widget on top of map_stack
    native,                     \* NativeMapCanvas: [stations, selected]
    page,                       \* the loaded page: [up, stations, selected]
    scripts,                    \* scripts the page has still to run
    replies,                    \* diagnostics on their way to the widget
    events,                     \* loadFinished and mapReady on their way
    clicks,                     \* calls of toggle_station on their way
    timers, retries,            \* single shots of 6.5 s and of 250 ms that run
    told,                       \* history: what the page that is up was given
    sets, clicked, reloads      \* the bounded actions taken

flags == <<ready, validated, error, current>>
way == <<replies, events, timers, retries>>
counts == <<sets, clicked, reloads>>
vars == <<pending, selected, flags, native, page, scripts, clicks, way, told, counts>>

Blank(up) == [up |-> up, stations |-> {}, selected |-> {}]
Script(do, what) == [do |-> do, what |-> what]

\* __init__ and _setup_web_backend: with a web engine the page starts to load.
Init ==
    /\ pending = {} /\ selected = {}
    /\ ready = FALSE /\ validated = FALSE /\ current = "native"
    /\ native = [stations |-> {}, selected |-> {}]
    /\ \E up \in {"loading", "absent"} :
         /\ page = Blank(up)
         /\ error = (up = "absent")
         /\ timers = IF up = "loading" THEN 1 ELSE 0
    /\ scripts = <<>> /\ replies = <<>> /\ events = <<>> /\ clicks = <<>>
    /\ retries = 0 /\ told = {}
    /\ sets = 0 /\ clicked = 0 /\ reloads = 0

-----------------------------------------------------------------------------
(* The widget *)

UsingLeaflet == ready /\ current = "web"

\* _run_leaflet: nothing is sent to a page that is not ready.
Run(script) == scripts' = IF ready THEN Append(scripts, script) ELSE scripts

\* set_stations: the same stations again are not handed on.
SetStations(list) ==
    /\ sets < MaxSets /\ sets' = sets + 1
    /\ list # pending
    /\ pending' = list
    /\ native' = IF UsingLeaflet THEN native ELSE [native EXCEPT !.stations = list]
    /\ Run(Script("stations", list))
    /\ UNCHANGED <<selected, flags, page, clicks, way, told, clicked, reloads>>

(* set_selected with the selection `new`, on a canvas that shows `shown`.  *)
Select(new, shown) ==
    IF new = selected
    THEN native' = [native EXCEPT !.selected = shown] /\ UNCHANGED <<selected, scripts>>
    ELSE /\ selected' = new
         /\ native' = [native EXCEPT !.selected = IF UsingLeaflet THEN shown ELSE new]
         /\ Run(Script("selection", new))

\* The table, an import or a change of the filter set the selection.
SetSelected(new) ==
    /\ sets < MaxSets /\ sets' = sets + 1
    /\ new # selected
    /\ Select(new, native.selected)
    /\ UNCHANGED <<pending, flags, page, clicks, way, told, clicked, reloads>>

\* _clear_selection_requested, and the page's _map_selection_cleared.
ClearSelection ==
    /\ sets < MaxSets /\ sets' = sets + 1
    /\ selected' = {}
    /\ native' = [native EXCEPT !.selected = {}]
    /\ Run(Script("selection", {}))
    /\ UNCHANGED <<pending, flags, page, clicks, way, told, clicked, reloads>>

With(set, s, on) == IF on THEN set \cup {s} ELSE set \ {s}

\* A click on the canvas: mouseReleaseEvent, then _map_station_toggled.
NativeClick(s) ==
    /\ sets < MaxSets /\ sets' = sets + 1
    /\ current = "native" /\ s \in native.stations
    /\ LET on == s \notin native.selected
       IN  Select(With(selected, s, on), With(native.selected, s, on))
    /\ UNCHANGED <<pending, flags, page, clicks, way, told, clicked, reloads>>

\* Mutant of Toggled: the selection is kept, and not handed back to the page.
ToggledQuietly ==
    /\ clicks # <<>>
    /\ clicks' = Tail(clicks)
    /\ selected' = With(selected, Head(clicks).id, Head(clicks).on)
    /\ UNCHANGED <<pending, native, scripts, flags, page, way, told, counts>>

\* toggle_station of the bridge arrives: _map_station_toggled.
Toggled ==
    /\ clicks # <<>>
    /\ clicks' = Tail(clicks)
    /\ Select(With(selected, Head(clicks).id, Head(clicks).on), native.selected)
    /\ UNCHANGED <<pending, flags, page, way, told, counts>>

Ask == scripts' = Append(scripts, Script("diagnostics", {}))

\* Mutant of Fallback: the canvas keeps what it showed when it was hidden.
FallbackStale ==
    /\ ready' = FALSE /\ current' = "native"
    /\ UNCHANGED native

\* Mutant of Fallback: scripts still go to the page that was given up.
FallbackStillReady ==
    /\ current' = "native"
    /\ native' = [stations |-> pending, selected |-> selected]
    /\ UNCHANGED ready

\* _activate_native_fallback.
Fallback ==
    /\ ready' = FALSE /\ current' = "native"
    /\ native' = [stations |-> pending, selected |-> selected]

\* _leaflet_load_finished and _bridge_map_ready.
Signalled ==
    /\ events # <<>>
    /\ events' = Tail(events)
    /\ IF Head(events) = "failed"
       THEN Fallback /\ error' = TRUE /\ UNCHANGED <<validated, scripts>>
       ELSE Ask /\ UNCHANGED <<flags, native>>
    /\ UNCHANGED <<pending, selected, page, clicks, replies, timers, retries, told, counts>>

\* Mutant of DiagnosticsChecked: an answer that comes after the timeout is late.
DiagnosticsCheckedInTime ==
    /\ replies # <<>>
    /\ replies' = Tail(replies)
    /\ IF validated \/ ready \/ error THEN UNCHANGED <<flags, retries>>
       ELSE IF ~Head(replies) THEN retries' = retries + 1 /\ UNCHANGED flags
       ELSE /\ ready' = TRUE /\ validated' = TRUE /\ error' = FALSE /\ current' = "web"
            /\ UNCHANGED retries
    /\ UNCHANGED <<pending, selected, native, page, scripts, clicks, events, timers, told, counts>>

(* _leaflet_diagnostics_checked: a page that works is shown.  It is given  *)
(* theme, basemap and mode; set_stations and set_selected are called with  *)
(* what is pending and so return at once.                                  *)
DiagnosticsChecked ==
    /\ replies # <<>>
    /\ replies' = Tail(replies)
    /\ IF validated \/ ready THEN UNCHANGED <<flags, retries>>
       ELSE IF ~Head(replies) THEN retries' = retries + 1 /\ UNCHANGED flags
       ELSE /\ ready' = TRUE /\ validated' = TRUE /\ error' = FALSE /\ current' = "web"
            /\ UNCHANGED retries
    /\ UNCHANGED <<pending, selected, native, page, scripts, clicks, events, timers, told, counts>>

\* _retry_leaflet_validation.
Retry ==
    /\ retries > 0 /\ retries' = retries - 1
    /\ IF validated \/ error THEN UNCHANGED scripts ELSE Ask
    /\ UNCHANGED <<pending, selected, flags, native, page, clicks, replies, events, timers,
                   told, counts>>

\* _fallback_if_leaflet_not_ready.
Timeout ==
    /\ timers > 0 /\ timers' = timers - 1
    /\ IF validated THEN UNCHANGED <<flags, native>>
       ELSE Fallback /\ error' = TRUE /\ UNCHANGED validated
    /\ UNCHANGED <<pending, selected, page, scripts, clicks, replies, events, retries, told, counts>>

\* _basemap_changed to OpenStreetMap, or a change of the language with it.
Reload ==
    /\ reloads < MaxReloads /\ reloads' = reloads + 1
    /\ page.up # "absent" /\ ~UsingLeaflet
    /\ error' = FALSE /\ ready' = FALSE /\ validated' = FALSE
    /\ scripts' = Append(scripts, Script("load", {}))
    /\ timers' = timers + 1
    /\ UNCHANGED <<pending, selected, current, native, page, clicks, replies, events, retries,
                   told, sets, clicked>>

-----------------------------------------------------------------------------
(* The page.  A script on a page that is not up has no effect.             *)

(* The web view reports a load that another one cuts off, or does not.     *)
RunScript ==
    /\ scripts # <<>>
    /\ scripts' = Tail(scripts)
    /\ LET s == Head(scripts)
           up == page.up = "ok"
       IN  /\ replies' = IF s.do = "diagnostics" THEN Append(replies, up) ELSE replies
           /\ page' = CASE s.do = "load" -> Blank("loading")
                        [] s.do = "stations" /\ up -> [page EXCEPT !.stations = s.what]
                        [] s.do = "selection" /\ up -> [page EXCEPT !.selected = s.what]
                        [] OTHER -> page
           /\ told' = IF s.do = "load" THEN {}
                      ELSE IF s.do # "diagnostics" /\ up THEN told \cup {s.do} ELSE told
           /\ \/ UNCHANGED events
              \/ s.do = "load" /\ page.up = "loading" /\ events' = Append(events, "failed")
    /\ UNCHANGED <<pending, selected, flags, native, clicks, timers, retries, counts>>

(* The page is loaded: it works, or its libraries do not, or it is not     *)
(* found at all.                                                           *)
Loaded ==
    /\ page.up = "loading"
    /\ \/ page' = [page EXCEPT !.up = "ok"] /\ events' = events \o <<"ready", "finished">>
       \/ page' = [page EXCEPT !.up = "broken"] /\ events' = Append(events, "finished")
       \/ page' = [page EXCEPT !.up = "broken"] /\ events' = Append(events, "failed")
    /\ UNCHANGED <<pending, selected, flags, native, scripts, clicks, replies, timers, retries,
                   told, counts>>

\* toggleStation, by a click on a marker.
Click(s) ==
    /\ clicked < MaxClicks /\ clicked' = clicked + 1
    /\ current = "web" /\ page.up = "ok" /\ s \in page.stations
    /\ LET on == s \notin page.selected
       IN  /\ page' = [page EXCEPT !.selected = With(@, s, on)]
           /\ clicks' = Append(clicks, [id |-> s, on |-> on])
    /\ UNCHANGED <<pending, selected, flags, native, scripts, way, told, sets, reloads>>

\* selectStationsInBounds and selectStationsInRadius: each new one is told.
SelectArea ==
    /\ clicked < MaxClicks /\ clicked' = clicked + 1
    /\ current = "web" /\ page.up = "ok"
    /\ \E area \in SUBSET page.stations :
         LET new == area \ page.selected
         IN  /\ page' = [page EXCEPT !.selected = @ \cup area]
             /\ \E order \in Bijection(1..Cardinality(new), new) :
                  clicks' = clicks \o [i \in DOMAIN order |-> [id |-> order[i], on |-> TRUE]]
    /\ UNCHANGED <<pending, selected, flags, native, scripts, way, told, sets, reloads>>

User ==
    \/ \E list \in Lists : SetStations(list)
    \/ \E new \in SUBSET Stations : SetSelected(new)
    \/ ClearSelection
    \/ \E s \in Stations : NativeClick(s) \/ Click(s)
    \/ SelectArea
    \/ Reload
System == Toggled \/ Signalled \/ DiagnosticsChecked \/ Retry \/ Timeout \/ RunScript \/ Loaded
Next == User \/ System

(* Qt's event loop delivers signals and timers, and the browser runs its   *)
(* scripts and ends its loads.                                             *)
Fairness ==
    /\ WF_vars(Toggled) /\ WF_vars(Signalled) /\ WF_vars(DiagnosticsChecked)
    /\ WF_vars(Timeout) /\ WF_vars(RunScript) /\ WF_vars(Loaded)
Safety == Init /\ [][Next]_vars
Spec == Safety /\ Fairness

-----------------------------------------------------------------------------
(* Properties *)

NativeType == [stations : Lists, selected : SUBSET Stations]
PageType == [up : {"loading", "ok", "broken", "absent"}, stations : SUBSET Stations,
             selected : SUBSET Stations]
ScriptType == [do : {"load", "diagnostics", "stations", "selection"}, what : SUBSET Stations]
ClickType == [id : Stations, on : BOOLEAN]
EventType == {"ready", "finished", "failed"}

TypeOK ==
    /\ pending \in Lists /\ selected \subseteq Stations
    /\ ready \in BOOLEAN /\ validated \in BOOLEAN /\ error \in BOOLEAN
    /\ current = IF ready THEN "web" ELSE "native"
    /\ ready => validated
    /\ native \in NativeType /\ page \in PageType
    /\ scripts \in Seq(ScriptType) /\ replies \in Seq(BOOLEAN)
    /\ events \in Seq(EventType) /\ clicks \in Seq(ClickType)
    /\ timers \in Nat /\ retries \in Nat /\ told \subseteq {"stations", "selection"}
    /\ sets \in Nat /\ clicked \in Nat /\ reloads \in Nat

(* While the canvas is shown it has the stations and the selection that    *)
(* were set last, also those set while it was hidden behind the page       *)
(* (_activate_native_fallback, set_stations, set_selected).                *)
NativeIsCurrent ==
    current = "native" => native = [stations |-> pending, selected |-> selected]

Quiet == scripts = <<>> /\ clicks = <<>>

(* What the page was given since it was loaded it keeps up with: when      *)
(* nothing is on its way, clicks in the page and selections made in the    *)
(* widget at the same time have ended in the same selection, and its       *)
(* stations are those set last (toggleStation, _map_station_toggled,       *)
(* setSelected).                                                           *)
PageFollows ==
    Quiet /\ current = "web" =>
        /\ "selection" \in told => page.selected = selected
        /\ "stations" \in told => page.stations = pending

(* The start of the page is decided: it is shown or an error is; and a     *)
(* page that works comes to be shown however late it is, unless it is      *)
(* loaded anew or a page before it had been shown already                  *)
(* (_fallback_if_leaflet_not_ready, _leaflet_diagnostics_checked).         *)
BackendSettles ==
    /\ ~validated ~> (validated \/ error)
    /\ page.up = "ok" ~> (current = "web" \/ page.up # "ok" \/ validated)

(* The map is populated at first launch: a page that is shown, and has     *)
(* done all it was told, has the stations that were set before it came up. *)
MapPopulated ==
    Quiet /\ current = "web" /\ page.up = "ok" => page.stations = pending
=============================================================================
