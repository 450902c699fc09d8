--------------------------- MODULE StationSources ---------------------------
(* The two station networks: the INCOIS moored buoys (sources/imd_buoy.py)   *)
(* and the TEWS tide gauges (sources/incois_tide.py).  Each reads a station  *)
(* catalogue and then, through a thread pool, one page per station (and      *)
(* parameter); the pages complete in any order.                              *)
(*                                                                           *)
(* Ages are in units of the clock of one poll, and negative for readings     *)
(* stamped in the future: MaxAge is max_age and MaxAhead the tolerated skew. *)
EXTENDS SourceContract, Integers

CONSTANTS MaxAge, MaxAhead,
          StationCatalogs,   \* OON catalogues: sequences of entries
          MarkerLists,       \* OON current-station responses: sets of markers
          Charts,            \* OON chart pages
          GaugeCatalogs,     \* TideStations.xml: sequences of entries
          GaugeSeries        \* TEWS observation responses: sets of series

Fresh(age) == age <= MaxAge /\ age >= -MaxAhead

-----------------------------------------------------------------------------
(* Buoys.  A catalogue entry is [id, valid, status]: valid covers identity,  *)
(* type and coordinates.                                                     *)

\* One bad entry or one duplicate id refuses the whole catalogue.
CatalogBroken(entries) ==
    \/ \E i \in DOMAIN entries : ~entries[i].valid
    \/ \E i, j \in DOMAIN entries : i # j /\ entries[i].id = entries[j].id

\* Age of the latest usable marker of a station; malformed ones are skipped.
MarkerAges(markers, id) == {m.age : m \in {n \in markers : n.valid /\ n.id = id}}

\* The stations whose charts are read: active, reported within the age limit,
\* and among the requested ones when the job names any.
Eligible(entries, markers) ==
    {id \in {entries[i].id : i \in {j \in DOMAIN entries : entries[j].status = "new"}} :
        /\ MarkerAges(markers, id) # {}
        /\ Min(MarkerAges(markers, id)) <= MaxAge
        /\ poll.config.stations = {} \/ id \in poll.config.stations}

BuoyGate ==
    /\ poll.stage = "gate" /\ poll.ds = "incois_buoy"
    /\ \/ poll.config.tokens \notin SUBSET {"hm0", "wind_speed"} /\ Raise("contract_error")
       \/ /\ poll.config.tokens \subseteq {"hm0", "wind_speed"}
          /\ IF poll.config.enabled THEN Continue([stage |-> "oon_catalog"])
             ELSE Raise("disabled")

\* Catalogue and markers are requested in parallel and both awaited; neither
\* is of use without the other.
ReadOonCatalog ==
    /\ poll.stage = "oon_catalog"
    /\ \/ Raise("source_unavailable")
       \/ Raise("contract_error")
       \/ \E entries \in StationCatalogs, markers \in MarkerLists :
            IF CatalogBroken(entries) THEN Raise("contract_error")
            ELSE Continue([stage |-> "charts",
                           left |-> Eligible(entries, markers) \X poll.config.tokens])

\* The final pair of a chart page that selects the requested parameter in its
\* unit on a UTC axis; an empty chart is healthy, a value outside the freshness
\* policy is not.
ChartBroken(chart) == ~chart.valid \/ (chart.ages # <<>> /\ ~Fresh(Last(chart.ages)))
ChartReading(chart, part) ==
    IF chart.ages = <<>> THEN {} ELSE {[part |-> part, age |-> Last(chart.ages)]}

\* A page of the pool completes: its reading is kept, or it is a diagnostic.
ReadChart ==
    /\ poll.stage = "charts"
    /\ \E part \in poll.left :
         \/ Continue([left |-> poll.left \ {part}, errors |-> poll.errors \union {part},
                      lost |-> poll.lost \union {part}])
         \/ \E chart \in Charts :
              LET broken == IF ChartBroken(chart) THEN {part} ELSE {}
              IN Continue([left |-> poll.left \ {part},
                           errors |-> poll.errors \union broken,
                           lost |-> poll.lost \union broken,
                           records |-> poll.records \union
                               IF ChartBroken(chart) THEN {} ELSE ChartReading(chart, part)])

EndCharts ==
    /\ poll.stage = "charts" /\ poll.left = {}
    /\ Deliver(ResultState(poll.errors, poll.records), poll.records, poll.lost)

-----------------------------------------------------------------------------
(* Tide gauges.  A catalogue entry is [code, valid, dated, status]: valid    *)
(* covers names and coordinates, dated whether the date field is one the     *)
(* parser knows (a time or a not-reporting marker).                          *)

\* Entries kept: valid, and the first of their code among the named ones.
GaugesKept(entries) ==
    {i \in DOMAIN entries : /\ entries[i].valid
                            /\ \A j \in 1..(i - 1) : entries[j].code # entries[i].code}

\* Every entry dropped, and every date not understood, is a diagnostic.
GaugeDiagnostics(entries) ==
    {<<"station", i>> : i \in {j \in DOMAIN entries :
        j \notin GaugesKept(entries) \/ ~entries[j].dated}}

Reporting(entries) ==
    {entries[i].code : i \in {j \in GaugesKept(entries) : entries[j].status = "reporting"}}

TideGate ==
    /\ poll.stage = "gate" /\ poll.ds = "incois_tide"
    /\ IF poll.config.enabled THEN Continue([stage |-> "tide_catalog"]) ELSE Raise("disabled")

ReadTideCatalog ==
    /\ poll.stage = "tide_catalog"
    /\ \/ Raise("source_unavailable")
       \/ Raise("contract_error")
       \/ \E entries \in GaugeCatalogs :
            Continue([stage |-> "gauges", left |-> Reporting(entries),
                      errors |-> GaugeDiagnostics(entries),
                      lost |-> {<<"station", i>> : i \in DOMAIN entries \ GaugesKept(entries)}])

\* Of a response only the physical sensors count (not the predicted series);
\* one without a usable time or value, or outside the freshness policy, is a
\* diagnostic and the others are kept.
ActualSensors == {"RAD", "PRS", "ENC"}
SeriesRefused(series) ==
    {s \in series : s.sensor \in ActualSensors /\ (~s.valid \/ ~Fresh(s.age))}
SeriesReadings(series, code) ==
    {[part |-> <<code, s.sensor>>, age |-> s.age] :
        s \in {u \in series \ SeriesRefused(series) : u.sensor \in ActualSensors}}

\* One station must not hide its healthy peers.
ReadGauge ==
    /\ poll.stage = "gauges"
    /\ \E code \in poll.left :
         \/ Continue([left |-> poll.left \ {code},
                      errors |-> poll.errors \union {<<code, "all">>},
                      lost |-> poll.lost \union {<<code, "all">>}])
         \/ \E series \in GaugeSeries :
              LET refused == {<<code, s.sensor>> : s \in SeriesRefused(series)}
              IN Continue([left |-> poll.left \ {code},
                           errors |-> poll.errors \union refused,
                           lost |-> poll.lost \union refused,
                           records |-> poll.records \union SeriesReadings(series, code)])

EndGauges ==
    /\ poll.stage = "gauges" /\ poll.left = {}
    /\ Deliver(ResultState(poll.errors, poll.records), poll.records, poll.lost)

StationNext ==
    \/ BuoyGate \/ ReadOonCatalog \/ ReadChart \/ EndCharts
    \/ TideGate \/ ReadTideCatalog \/ ReadGauge \/ EndGauges
=============================================================================
