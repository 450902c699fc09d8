---------------------------- MODULE AlertSources ----------------------------
(* The adapters that fetch one or two documents and parse them in one go:    *)
(* IMD CAP warnings (imd_cap.py), INCOIS high-wave and swell alerts          *)
(* (incois_hwa.py), fishing-zone advisories (incois_pfz.py), the India EEZ   *)
(* (marine_regions.py), and the connectors that never send a request         *)
(* (imd_nwp.py, hazards.py).                                                 *)
EXTENDS SourceContract

CONSTANTS CapFeeds,        \* RSS indexes: sequences of [date, link], date 0 = none
          CapDocuments,    \* CAP documents: [event, corners, closed]
          DistrictMaps,    \* district geometry: sequences of [key, polygon]
          HighWaveFeeds,   \* alert feeds: sequences of [key, id, dated, coloured, typed]
          PfzFeatures,     \* features of the two PFZ feeds: sequences of [uid, valid]
          EezFeatures      \* features of the EEZ layer: sequences of [mrgid, valid, india]

Enabled(ds) == poll.stage = "gate" /\ poll.ds = ds /\ poll.config.enabled

-----------------------------------------------------------------------------
(* IMD CAP.                                                                  *)

\* The item read: the newest when every item is dated, else the first; its
\* link, or 0 when the feed is empty or that item has none.
LatestItem(feed) ==
    IF \A i \in DOMAIN feed : feed[i].date # 0
    THEN CHOOSE i \in DOMAIN feed : \A j \in DOMAIN feed :
            \/ feed[i].date > feed[j].date
            \/ feed[i].date = feed[j].date /\ i <= j
    ELSE 1
LatestItemLink(feed) == IF feed = <<>> THEN 0 ELSE feed[LatestItem(feed)].link

ClassifyEvent(text) ==
    IF text \in {"cyclone", "high_wave", "rain"} THEN text ELSE "marine_hazard"

\* Three corners make a polygon, closed if the source left it open; fewer do
\* not.  The geometry is the number of positions of its ring.
CapPolygon(doc) ==
    IF doc.corners < 3 THEN {} ELSE {IF doc.closed THEN doc.corners ELSE doc.corners + 1}

CapAlert(doc, link) ==
    [uid |-> link, event |-> ClassifyEvent(doc.event), geometry |-> CapPolygon(doc)]

CapGate == Enabled("imd_cap") /\ Continue([stage |-> "rss"])

\* Every failure of the two requests is a RuntimeError.
ReadRss ==
    /\ poll.stage = "rss"
    /\ \/ Raise("error")
       \/ \E feed \in CapFeeds :
            IF LatestItemLink(feed) = 0 THEN Raise("error")
            ELSE Continue([stage |-> "cap", link |-> LatestItemLink(feed)])

ReadCapDocument ==
    /\ poll.stage = "cap"
    /\ \/ Raise("error")
       \/ \E doc \in CapDocuments : Deliver("success", {CapAlert(doc, poll.link)}, {})

-----------------------------------------------------------------------------
(* INCOIS high-wave alerts.                                                  *)

\* The polygon of a district: only one that the map holds exactly once, under
\* a complete key, counts.
DistrictPolygons(map, key) ==
    {map[i].polygon : i \in {j \in DOMAIN map : map[j].polygon # 0 /\ map[j].key = key}}
DistrictEntries(map, key) ==
    Cardinality({i \in DOMAIN map : map[i].polygon # 0 /\ map[i].key = key})
DistrictGeometry(map, key) ==
    IF DistrictEntries(map, key) = 1 THEN DistrictPolygons(map, key) ELSE {}

\* An alert is always emitted; what is missing about it is a diagnostic.
HighWaveAlert(map, entry) ==
    [uid |-> <<entry.key, entry.id>>, key |-> entry.key,
     geometry |-> DistrictGeometry(map, entry.key)]

HighWaveDiagnostics(map, feed) ==
    {<<"ambiguous", k>> : k \in {map[i].key : i \in {j \in DOMAIN map :
                                     DistrictEntries(map, map[j].key) > 1}}}
    \union {<<"geometry", i>> : i \in {j \in DOMAIN feed :
                                     DistrictGeometry(map, feed[j].key) = {}}}
    \union {<<"fields", i>> : i \in {j \in DOMAIN feed :
                ~(feed[j].dated /\ feed[j].coloured /\ feed[j].typed)}}

HighWaveGate == Enabled("incois_hwa") /\ Continue([stage |-> "hwa"])

\* Both documents are requested in parallel and both awaited.
ReadHighWave ==
    /\ poll.stage = "hwa"
    /\ \/ Raise("source_unavailable")
       \/ Raise("contract_error")
       \/ \E map \in DistrictMaps, feed \in HighWaveFeeds :
            LET alerts == {HighWaveAlert(map, feed[i]) : i \in DOMAIN feed}
            IN Deliver(ResultState(HighWaveDiagnostics(map, feed), alerts), alerts,
                      {feed[i].key : i \in {j \in DOMAIN feed :
                           DistrictGeometry(map, feed[j].key) = {}}})

-----------------------------------------------------------------------------
(* Fishing zones: destination points and advisory lines.                     *)

PfzRecords(features) ==
    {features[i].uid : i \in {j \in DOMAIN features : features[j].valid}}
PfzDiagnostics(features) == {i \in DOMAIN features : ~features[i].valid}

PfzGate == Enabled("incois_pfz") /\ Continue([stage |-> "pfz"])

ReadPfz ==
    /\ poll.stage = "pfz"
    /\ \/ Raise("source_unavailable")
       \/ Raise("contract_error")
       \/ \E points, lines \in PfzFeatures :
            LET bad == ({"point"} \X PfzDiagnostics(points))
                       \union ({"line"} \X PfzDiagnostics(lines))
                recs == ({"point"} \X PfzRecords(points))
                        \union ({"line"} \X PfzRecords(lines))
            IN Deliver(ResultState(bad, recs), recs, bad)

-----------------------------------------------------------------------------
(* The India EEZ: nothing is asked for without an acknowledged licence, and  *)
(* one bad, foreign or repeated feature refuses the whole layer.             *)

EezBroken(features) ==
    \/ \E i \in DOMAIN features : ~features[i].valid \/ ~features[i].india
    \/ \E i, j \in DOMAIN features : i # j /\ features[i].mrgid = features[j].mrgid

EezGate ==
    /\ Enabled("marine_regions_eez_india")
    /\ IF poll.config.licensed THEN Continue([stage |-> "eez"]) ELSE Raise("license_gated")

ReadEez ==
    /\ poll.stage = "eez"
    /\ \/ Raise("source_unavailable")
       \/ Raise("contract_error")
       \/ \E features \in EezFeatures :
            LET zones == {features[i].mrgid : i \in DOMAIN features}
            IN IF EezBroken(features) THEN Raise("contract_error")
               ELSE Deliver(ResultState({}, zones), zones, {})

-----------------------------------------------------------------------------
\* Every one of them refuses while live sources are off; numeric NWP has no
\* verified contract to ask under, cyclones and tsunamis no verified endpoint.
AlertDatasets == {"imd_cap", "incois_hwa", "incois_pfz", "marine_regions_eez_india", "imd_nwp"}
AlertSourceDisabled ==
    /\ poll.stage = "gate" /\ poll.ds \in AlertDatasets /\ ~poll.config.enabled
    /\ Raise("disabled")
NwpRefuses == Enabled("imd_nwp") /\ Raise("contract_unavailable")

HazardLive == poll.stage = "gate" /\ poll.ds \in {"imd_rsmc", "incois_tews"} /\ Raise("disabled")

AlertSourceNext ==
    \/ AlertSourceDisabled \/ NwpRefuses \/ HazardLive
    \/ CapGate \/ ReadRss \/ ReadCapDocument
    \/ HighWaveGate \/ ReadHighWave
    \/ PfzGate \/ ReadPfz
    \/ EezGate \/ ReadEez
=============================================================================
