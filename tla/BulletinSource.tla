--------------------------- MODULE BulletinSource ---------------------------
(* The IMD coastal and sea-area bulletins (sources/imd_marine_bulletin.py).  *)
(* A bulletin is a run of text nodes: an area name opens a block, a field    *)
(* label arms the next node as its value.  A text node carries, besides what *)
(* it says, the area it was written for, which the parser cannot see.        *)
EXTENDS SourceContract

CONSTANTS Bulletins,     \* sequence of the <<kind, centre>> pairs of the job
          AreaVocabulary,\* verified area names of a pair; a pair without is not polled
          Documents      \* the documents a bulletin page may serve

\* Labels are kept by the name of the field they arm.
Area(name) == [is |-> "area", name |-> name, said |-> "a name"]
Label(field) == [is |-> "label", field |-> field]
Text(said) == [is |-> "text", said |-> said]

Blank == [areas |-> <<>>, synoptic |-> {}, pending |-> "none"]

\* A verified name opens a block; any other name is text like the rest.
OpenArea(st, node) ==
    [st EXCEPT !.areas = Append(@, [name |-> node.name, fields |-> <<>>]),
               !.pending = "none"]

\* The node after a label is its value; the first value of a field stays.
TakeValue(st, node) ==
    LET fields == Last(st.areas).fields
    IN [st EXCEPT
          !.pending = "none",
          !.synoptic = IF st.pending = "synoptic_situation" /\ @ = {} THEN {node} ELSE @,
          !.areas = IF st.pending = "synoptic_situation" \/ @ = <<>>
                       \/ st.pending \in DOMAIN fields THEN @
                    ELSE [@ EXCEPT ![Len(@)].fields = fields @@ (st.pending :> node)]]

ParseNode(st, node, vocabulary) ==
    IF node.is = "area" /\ node.name \in vocabulary THEN OpenArea(st, node)
    ELSE IF node.is = "label" THEN [st EXCEPT !.pending = node.field]
    ELSE IF st.pending # "none" THEN TakeValue(st, node)
    ELSE st

\* The blocks of a document, none when the document breaks the contract: no
\* text, another centre's page, or no verified area in it.
ParseBulletin(doc, vocabulary) ==
    IF ~doc.centre THEN <<>>
    ELSE FoldLeft(LAMBDA st, node : ParseNode(st, node, vocabulary), Blank, doc.nodes).areas

Field(area, f) == IF f \in DOMAIN area.fields THEN {area.fields[f]} ELSE {}

\* A numeric wind range in a unit that is not verified aborts the bulletin.
UnverifiedWind(areas) ==
    \E i \in DOMAIN areas : \E t \in Field(areas[i], "wind") : t.said = "furlongs"

\* What an area's fields become: the upper bound of a numeric wind, the sea
\* state as a category (listed or not), and an alert for each warning in force.
AreaRecords(area) ==
    LET rec(parameter, t) ==
            [area |-> area.name, parameter |-> parameter, said |-> t.said]
    IN {rec("wind_speed", t) : t \in {u \in Field(area, "wind") : u.said = "20-30 kt"}}
       \union {rec("sea_state_category", t) : t \in Field(area, "sea_condition")}
       \union {rec("alert", t) : t \in {u \in Field(area, "port_signal") : u.said # "nil"}}

BuildRecords(areas) == UNION {AreaRecords(areas[i]) : i \in DOMAIN areas}

Pollable == SelectSeq(Bulletins, LAMBDA b : b \in DOMAIN AreaVocabulary)

BulletinGate ==
    /\ poll.stage = "gate" /\ poll.ds = "imd_marine_bulletin"
    /\ \/ ~poll.config.enabled /\ Raise("disabled")
       \/ /\ poll.config.enabled /\ Pollable # <<>>
          /\ Continue([stage |-> "bulletin", at |-> 1])
       \/ poll.config.enabled /\ Pollable = <<>> /\ Deliver("empty", {}, {})

\* One bulletin of the loop is done: succeeded, or failed with a diagnostic.
\* After the last one the poll ends.
EndBulletin(failed, records) ==
    LET errors == poll.errors \union failed
        all == poll.records \union records
    IN IF poll.at < Len(Pollable)
       THEN Continue([at |-> poll.at + 1, errors |-> errors, records |-> all,
                      lost |-> errors])
       ELSE IF errors = Range(Pollable) THEN Raise("contract_error")
       ELSE Deliver(ResultState(errors, all), all, errors)

BulletinFails ==
    /\ poll.stage = "bulletin"
    /\ \/ Raise("error")
       \/ EndBulletin({Pollable[poll.at]}, {})

BulletinAnswers ==
    /\ poll.stage = "bulletin"
    /\ \E doc \in Documents :
         LET b == Pollable[poll.at]
             areas == ParseBulletin(doc, AreaVocabulary[b])
         IN IF areas = <<>> \/ UnverifiedWind(areas)
            THEN EndBulletin({b}, {})
            ELSE EndBulletin({}, BuildRecords(areas))

BulletinNext == BulletinGate \/ BulletinFails \/ BulletinAnswers
=============================================================================
