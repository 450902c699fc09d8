----------------------------- MODULE SourcePolls ----------------------------
(* A worker's ingest handlers polling the source adapters, one job at a      *)
(* time: a job names a dataset and a configuration, the adapter runs its     *)
(* requests against an upstream that may be down, stall, break its contract  *)
(* or serve any of a small set of documents, and the handler settles the     *)
(* job.  Between jobs nothing of the adapter survives.                       *)
EXTENDS WaveModelSource, BulletinSource, StationSources, AlertSources, CatalogSources

CONSTANT Jobs     \* set of [ds, config]: what the queue may deliver

PollInit == poll = Idle /\ outcome = NoOutcome

TakeJob == \E job \in Jobs : Begin(job.ds, job.config)

AdapterStep ==
    \/ WW3Next \/ BulletinNext \/ StationNext \/ AlertSourceNext \/ CatalogNext

PollNext == TakeJob \/ AdapterStep

\* A request is answered or times out (every urlopen has a timeout), so a fetch
\* that can take a step takes it.
PollSpec == PollInit /\ [][PollNext]_pollVars /\ WF_pollVars(AdapterStep)

-----------------------------------------------------------------------------
\* A poll is reported healthy (success or empty) only when every part it set
\* out to read was answered and verified: a failed probe, bulletin, chart,
\* gauge, feature or district degrades it or fails it (the result_state rules
\* of the adapters: "an upstream failure must not be reported as a healthy
\* empty poll").  search_all is no poll and has a property of its own.
HealthyMeansComplete ==
    /\ outcome # NoOutcome
    /\ outcome.state \in {"success", "empty"}
    /\ outcome.ds # "mosdac_search_all"
    => outcome.lost = {}

\* A failed job is acknowledged, and so never retried, only in the states an
\* operator has to resolve, and those are found before the first request:
\* no failure of the network or of a document is ever acknowledged away.
OnlyOperatorStatesAreDropped ==
    outcome # NoOutcome /\ outcome.state \in Errors /\ outcome.settled = "acked"
    => ~outcome.asked

\* Once every probe around a point has been answered, what is reported as the
\* roughest node is at least as rough as every wet node inside the radius, at
\* every instant at which there is one: a sheltered node never hides an exposed
\* one (records_from_samples).
RoughestIsReported ==
    (poll.stage = "probe" /\ poll.point.left = {}
        /\ \A part \in poll.lost : part[1] # poll.at)
    => \A p \in InRadius, t \in Times :
          Wet(poll.point.sea[p][t]) /\ NodeDist[p] <= SearchRadius =>
            \E r \in RecordsFromSamples(poll.point.samples, FALSE) :
               /\ r.time = t /\ r.parameter = "HS"
               /\ r.selection # "nearest_wet_node"
               /\ r.value >= poll.point.sea[p][t]["HS"]

\* search_all returns everything MOSDAC lists when each entry has an id and the
\* listing fits the pages it may ask for.
SearchFindsAll ==
    [][(/\ poll.stage = "page" /\ poll' = Idle /\ outcome'.state = "success"
        /\ \A i \in DOMAIN poll.listing : poll.listing[i]
        /\ Len(poll.listing) <= PageSize * MaxPages)
       => outcome'.records = DOMAIN poll.listing]_pollVars

\* Every fetch ends: the download session re-authenticates and waits out a rate
\* limit at most once each, paging and probing come to their last request.
PollsEnd == poll # Idle ~> poll = Idle
=============================================================================
