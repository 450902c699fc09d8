--------------------------- MODULE MCMarineQueries --------------------------
(* Instance of MarineQueries: every endpoint, alerts and observations near,   *)
(* far, without and with an unreadable geometry, expired and rejected ones.   *)
EXTENDS MarineQueries, TLC

Row(uid, table, kind, geom, quality, from, until) ==
    [uid |-> uid, table |-> table, kind |-> kind, geom |-> geom,
     quality |-> quality, from |-> from, until |-> until]

MCAlertNear == Row("a1", "alert", "high_wave", 1, "accepted", Never, 1)
MCAlertFarther == Row("a2", "alert", "cyclone", 2, "accepted", 2, Never)
MCAlertFar == Row("a3", "alert", "squall", 9, "accepted", Never, Never)
MCAlertShapeless == Row("a4", "alert", "gale", NoGeometry, "accepted", Never, Never)
MCAlertBad == Row("a5", "alert", "gale", BadGeometry, "rejected", Never, Never)

MCPoint(uid, table, kind, geom, from, valued, rough) ==
    [valued |-> valued, rough |-> rough] @@ Row(uid, table, kind, geom, "accepted", from, Never)
MCWind == MCPoint("o1", "observation", "wind", 1, 1, TRUE, FALSE)
MCSst == MCPoint("o2", "observation", "sst", NoGeometry, 2, TRUE, FALSE)
MCLevel == MCPoint("o3", "observation", "water_level", 2, 1, FALSE, FALSE)
MCForecast == MCPoint("f1", "forecast", "wind", 1, 2, TRUE, TRUE)

MCPfz(uid, geom) ==
    [snapshot |-> Never, retrieved |-> Never]
      @@ Row(uid, "pfz", "destination_point", geom, "accepted", Never, Never)

MCZone(uid, kind, geom, until, crossed) ==
    [crossed |-> crossed] @@ Row(uid, "zone", kind, geom, "accepted", Never, until)
MCEez == MCZone("z1", "eez_boundary", 0, Never, TRUE)
MCPark == MCZone("z2", "marine_protected_area", 2, 1, FALSE)
MCOthers == {MCZone("z4", "restricted_area", 9, Never, FALSE),
             MCZone("z5", "naval_firing_area", 9, Never, TRUE)}
MCBroken == MCZone("z3", "marine_protected_area", BadGeometry, Never, FALSE)

MCFeedOf ==
    [incois_pfz |-> {{}, {MCPfz("p1", 1)}, {MCPfz("p1", 9)}},
     imd_cap |-> {{}, {MCAlertNear}, {MCAlertFarther}},
     incois_hwa |-> {{}, {MCAlertFar, MCAlertBad}},
     imd_marine_bulletin |-> {{MCAlertShapeless}},
     incois_buoy |-> {{}, {MCWind}, {MCSst}},
     incois_tide |-> {{}, {MCLevel}},
     imd_nwp |-> {{}, {MCForecast}},
     marine_regions_eez_india |-> {{}, {MCEez}},
     operator_gis |-> {{MCPark} \union MCOthers, {MCBroken}}]
=============================================================================
