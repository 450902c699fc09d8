--------------------------- MODULE CatalogSources ---------------------------
(* The adapters that fetch catalogues and files without canonical records:   *)
(* ERDDAP (incois_erddap.py), MOSDAC search with its paging                  *)
(* (mosdac_search.py) and the MOSDAC download session with its tokens, its   *)
(* single re-authentication and its single rate-limit retry                  *)
(* (mosdac_download.py).                                                     *)
EXTENDS SourceContract

CONSTANTS SearchListings,   \* what MOSDAC holds: sequences of BOOLEAN, TRUE = has an id
          PageSize, MaxPages

ASSUME PageAssumption ==
    /\ PageSize \in Nat \ {0} /\ MaxPages \in Nat \ {0}
    /\ SearchListings \subseteq Seq(BOOLEAN)

CatalogDatasets == {"incois_erddap", "mosdac_search", "mosdac_search_all", "mosdac_download"}

CatalogDisabled ==
    /\ poll.stage = "gate" /\ poll.ds \in CatalogDatasets /\ ~poll.config.enabled
    /\ Raise("disabled")

\* ERDDAP and a one-page search: the body is the result, whatever it holds.
CatalogGate ==
    /\ poll.stage = "gate" /\ poll.ds \in {"incois_erddap", "mosdac_search"}
    /\ poll.config.enabled
    /\ Continue([stage |-> "body"])
ReadBody == poll.stage = "body" /\ (Raise("error") \/ Deliver("success", {}, {}))

-----------------------------------------------------------------------------
(* search_all: pages of PageSize entries.  Entries without an id are left    *)
(* out of the parsed page, and a parsed page shorter than asked for ends the *)
(* search, as do an empty page and the announced total.                      *)

SearchGate ==
    /\ poll.stage = "gate" /\ poll.ds = "mosdac_search_all" /\ poll.config.enabled
    /\ \E listing \in SearchListings, announced \in BOOLEAN :
         Continue([stage |-> "page", listing |-> listing, announced |-> announced,
                   start |-> 0, pages |-> 0])

PageEntries ==
    {i \in DOMAIN poll.listing : i > poll.start /\ i <= poll.start + PageSize}
ParsedPage == {i \in PageEntries : poll.listing[i]}

MutantSearchEnds ==    \* a full page taken for the last one
    ParsedPage = {} \/ Cardinality(ParsedPage) <= PageSize \/ poll.pages + 1 = MaxPages

SearchEnds ==
    \/ ParsedPage = {}
    \/ poll.announced /\ poll.start + PageSize >= Len(poll.listing)
    \/ Cardinality(ParsedPage) < PageSize
    \/ poll.pages + 1 = MaxPages

ReadPage ==
    LET found == poll.records \union ParsedPage
    IN /\ poll.stage = "page"
       /\ \/ Raise("error")
          \/ /\ SearchEnds
             /\ Deliver("success", found, {})
          \/ /\ ~SearchEnds
             /\ Continue([records |-> found, start |-> poll.start + PageSize,
                          pages |-> poll.pages + 1])

-----------------------------------------------------------------------------
(* The download session.  access and refresh say whether the client holds    *)
(* the token; whether the server still honours it shows in its answer.       *)

Session(stage, then) == [stage |-> stage, then |-> then, reauthed |-> FALSE, retried |-> FALSE,
                      access |-> FALSE, refresh |-> FALSE]

DownloadGate ==
    /\ poll.stage = "gate" /\ poll.ds = "mosdac_download" /\ poll.config.enabled
    /\ IF ~poll.config.credentials THEN Raise("auth_blocked")
       ELSE Continue(Session("gettoken", IF poll.config.release THEN "check" ELSE "download"))

\* authenticate, for the first request of the session or to replace a token.
GetToken ==
    /\ poll.stage = "gettoken"
    /\ \/ Raise("error")
       \/ \E refresh \in BOOLEAN :
            Continue([stage |-> poll.then, access |-> TRUE, refresh |-> refresh])

\* Any 401 or rate limit here ends the fetch: only download handles them.
CheckReleased ==
    /\ poll.stage = "check"
    /\ \/ Raise("error")
       \/ Continue([stage |-> "download"])

MutantTokenRejected ==    \* reauthed never set
    /\ poll.stage = "download"
    /\ Continue([then |-> "download",
                 stage |-> IF poll.refresh THEN "refresh" ELSE "gettoken"])

TokenRejected ==
    /\ poll.stage = "download"
    /\ IF poll.reauthed THEN Raise("error")
       ELSE Continue([reauthed |-> TRUE,
                      then |-> "download",
                      stage |-> IF poll.refresh THEN "refresh" ELSE "gettoken"])

\* A refused refresh token is not replaced: the 401 leaves the download.
RefreshToken ==
    /\ poll.stage = "refresh"
    /\ \/ Raise("error")
       \/ Continue([stage |-> "download"])

MinuteLimited ==
    /\ poll.stage = "download"
    /\ IF poll.retried THEN Raise("error")
       ELSE Continue([retried |-> TRUE])

\* The daily limit, a resource not released, any other failure; or the file.
Download ==
    /\ poll.stage = "download"
    /\ Raise("error") \/ Deliver("success", {}, {})

CatalogNext ==
    \/ CatalogDisabled \/ CatalogGate \/ ReadBody
    \/ SearchGate \/ ReadPage
    \/ DownloadGate \/ GetToken \/ CheckReleased \/ TokenRejected
    \/ RefreshToken \/ MinuteLimited \/ Download
=============================================================================
