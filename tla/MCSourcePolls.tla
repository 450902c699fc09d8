---------------------------- MODULE MCSourcePolls ---------------------------
(* Two forecast points with two probes inside the radius and one beyond it,  *)
(* two bulletins, two buoys and two gauges, and one document of every kind   *)
(* the parsers tell apart.                                                   *)
EXTENDS SourcePolls

MCPoints == <<"panaji", "mumbai">>
MCProbes == 1 .. 4
MCProbeDist == <<0, 1, 1, 3>>
MCNodeDist == <<1, 0, 3, 2>>     \* the node of probe 3 lies beyond the radius
MCTimes == {1}
MCCells == {<<>>, [HS |-> 1], [HS |-> 2, UWND |-> 1, VWND |-> 1, PHS00 |-> 1, PHS01 |-> 2]}
MCCatalogues == {{}, {1, 2}}
Good == [v \in WW3Variables |-> RequiredUnit[v]]
MCDescriptions == {Good, [Good EXCEPT !["HS"] = "ft"], [HS |-> "m"]}

Pairs == <<<<"coastal", 4>>, <<"sea_area", 4>>, <<"coastal", 1>>>>
MCBulletins == Pairs
MCVocabulary == (Pairs[1] :> {"north", "south"}) @@ (Pairs[2] :> {"north", "south"})
Block(area, wind, port) ==
    <<Area(area), Text("heading"),
      Label("wind"), Text(wind),
      Label("sea_condition"), Text("rough"),
      Label("port_signal"), Text(port)>>
MCDocuments ==
    {[centre |-> FALSE, nodes |-> <<>>],
     [centre |-> TRUE, nodes |-> Block("elsewhere", "20-30 kt", "nil")],
     [centre |-> TRUE, nodes |-> Block("elsewhere", "20-30 kt", "nil")
                                 \o Block("south", "calm", "LC-III")],
     [centre |-> TRUE, nodes |-> <<Label("synoptic_situation"), Text("low")>>
                                 \o Block("north", "20-30 kt", "nil")],
     [centre |-> TRUE, nodes |-> Block("north", "20-30 kt", "nil")
                                 \o Block("south", "furlongs", "nil")],
     [centre |-> TRUE, nodes |-> Block("north", "calm", "LC-III")
                                 \o <<Label("wind")>> \o Block("south", "20-30 kt", "nil")]}

MCStationCatalogs ==
    {<<[id |-> "BD1", valid |-> TRUE, status |-> "new"],
       [id |-> "BD2", valid |-> TRUE, status |-> "new"],
       [id |-> "BD3", valid |-> TRUE, status |-> "old"]>>,
     <<[id |-> "BD1", valid |-> TRUE, status |-> "new"],
       [id |-> "BD1", valid |-> TRUE, status |-> "new"]>>,
     <<[id |-> "BD1", valid |-> FALSE, status |-> "new"]>>, <<>>}
MCMarkerLists ==
    {{[id |-> "BD1", valid |-> TRUE, age |-> 0], [id |-> "BD1", valid |-> TRUE, age |-> 9],
      [id |-> "BD2", valid |-> TRUE, age |-> 1]},
     {[id |-> "BD1", valid |-> TRUE, age |-> 9], [id |-> "BD2", valid |-> FALSE, age |-> 0]}}
MCCharts == {[valid |-> FALSE, ages |-> <<>>], [valid |-> TRUE, ages |-> <<>>],
             [valid |-> TRUE, ages |-> <<9, 0>>], [valid |-> TRUE, ages |-> <<0, 9>>],
             [valid |-> TRUE, ages |-> <<-5>>]}
Gauge(code, valid, dated, status) ==
    [code |-> code, valid |-> valid, dated |-> dated, status |-> status]
MCGaugeCatalogs ==
    {<<Gauge("a", TRUE, TRUE, "reporting"), Gauge("b", TRUE, TRUE, "reporting")>>,
     <<Gauge("a", FALSE, TRUE, "reporting"), Gauge("a", TRUE, TRUE, "reporting"),
       Gauge("a", TRUE, TRUE, "reporting")>>,
     <<Gauge("a", TRUE, FALSE, "down"), Gauge("b", TRUE, TRUE, "down")>>, <<>>}
Series(sensor, valid, age) == [sensor |-> sensor, valid |-> valid, age |-> age]
MCGaugeSeries ==
    {{}, {Series("RAD", TRUE, 0), Series("PREDICTED", TRUE, 0)},
     {Series("RAD", FALSE, 0), Series("PRS", TRUE, 1)}, {Series("ENC", TRUE, 9)}}

MCCapFeeds == {<<>>, <<[date |-> 1, link |-> 1], [date |-> 2, link |-> 2]>>,
               <<[date |-> 1, link |-> 1], [date |-> 0, link |-> 2]>>,
               <<[date |-> 0, link |-> 0]>>}
MCCapDocuments == {[event |-> e, corners |-> c, closed |-> (c = 4)] :
                       e \in {"cyclone", "fog"}, c \in {2, 3, 4}}
District(key, polygon) == [key |-> key, polygon |-> polygon]
MCDistrictMaps == {<<District("goa", 1), District("kutch", 2)>>,
                   <<District("goa", 1), District("goa", 2)>>,
                   <<District("goa", 0), District("kutch", 2)>>, <<>>}
Entry(key, id, ok) == [key |-> key, id |-> id, dated |-> ok, coloured |-> TRUE, typed |-> TRUE]
MCHighWaveFeeds == {<<>>, <<Entry("goa", 1, TRUE)>>,
                    <<Entry("kutch", 1, TRUE), Entry("goa", 2, FALSE)>>}
MCPfzFeatures == {<<>>, <<[uid |-> 1, valid |-> TRUE]>>,
                  <<[uid |-> 1, valid |-> TRUE], [uid |-> 2, valid |-> FALSE]>>}
Eez(mrgid, india) == [mrgid |-> mrgid, valid |-> TRUE, india |-> india]
MCEezFeatures == {<<>>, <<Eez(1, TRUE), Eez(2, TRUE)>>, <<Eez(1, TRUE), Eez(1, TRUE)>>,
                  <<Eez(1, FALSE)>>}
MCSearchListings == UNION {[1..n -> BOOLEAN] : n \in 0..5}

Switch == {[enabled |-> TRUE], [enabled |-> FALSE]}
Job(ds, configs) == {[ds |-> ds, config |-> c] : c \in configs}
MCJobs ==
    UNION {Job(ds, Switch) : ds \in {"incois_ww3", "imd_marine_bulletin", "incois_tide",
                                     "imd_cap", "incois_hwa", "incois_pfz", "imd_nwp",
                                     "imd_rsmc", "incois_tews", "incois_erddap",
                                     "mosdac_search", "mosdac_search_all"}}
    \union Job("incois_buoy", [enabled : BOOLEAN, stations : {{}, {"BD1"}},
                               tokens : {{"hm0", "wind_speed"}, {"hm0", "salinity"}}])
    \union Job("marine_regions_eez_india", [enabled : BOOLEAN, licensed : BOOLEAN])
    \union Job("mosdac_download", [enabled : BOOLEAN, credentials : BOOLEAN, release : BOOLEAN])
=============================================================================
