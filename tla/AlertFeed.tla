----------------------------- MODULE AlertFeed -----------------------------
(***************************************************************************)
(* What one API process promises the clients of its alert stream: a log of *)
(* events; a session that joins receives the last Replay of them and every *)
(* later one, in order, none twice and none skipped, until it leaves.      *)
(* A restarted process starts a new history in the same log.               *)
(***************************************************************************)
EXTENDS Integers, Sequences

CONSTANTS Feeds, Sessions, Events, Replay, Nobody

VARIABLES
    log,     \* feed -> every event published on it
    base,    \* feed -> length of the log when its process was started
    status,  \* session -> "new", "open" or "closed"
    feed,    \* session -> the feed it joined
    start,   \* session -> the log position it joined at
    got      \* session -> the events it has received

feedVars == <<log, base, status, feed, start, got>>

Init ==
    /\ log = [f \in Feeds |-> <<>>]
    /\ base = [f \in Feeds |-> 0]
    /\ status = [s \in Sessions |-> "new"]
    /\ feed = [s \in Sessions |-> Nobody]
    /\ start = [s \in Sessions |-> 0]
    /\ got = [s \in Sessions |-> <<>>]

Publish(f, e) ==
    /\ log' = [log EXCEPT ![f] = Append(@, e)]
    /\ UNCHANGED <<base, status, feed, start, got>>

(* The log position from which a session that joins f now is served. *)
ReplayFrom(f) == IF Len(log[f]) - base[f] > Replay THEN Len(log[f]) - Replay ELSE base[f]

Join(s, f) ==
    /\ status[s] = "new"
    /\ status' = [status EXCEPT ![s] = "open"]
    /\ feed' = [feed EXCEPT ![s] = f]
    /\ start' = [start EXCEPT ![s] = ReplayFrom(f)]
    /\ UNCHANGED <<log, base, got>>

Behind(s) == status[s] = "open" /\ start[s] + Len(got[s]) < Len(log[feed[s]])

Deliver(s) ==
    /\ Behind(s)
    /\ got' = [got EXCEPT ![s] = Append(@, log[feed[s]][start[s] + Len(@) + 1])]
    /\ UNCHANGED <<log, base, status, feed, start>>

Leave(s) ==
    /\ status[s] # "closed"
    /\ status' = [status EXCEPT ![s] = "closed"]
    /\ UNCHANGED <<log, base, feed, start, got>>

Restart(f) ==
    /\ base' = [base EXCEPT ![f] = Len(log[f])]
    /\ \E gone \in SUBSET Sessions :
         /\ {s \in Sessions : status[s] = "open" /\ feed[s] = f} \subseteq gone
         /\ status' = [s \in Sessions |-> IF s \in gone THEN "closed" ELSE status[s]]
    /\ UNCHANGED <<log, feed, start, got>>

Next ==
    \/ \E f \in Feeds, e \in Events : Publish(f, e)
    \/ \E s \in Sessions, f \in Feeds : Join(s, f)
    \/ \E s \in Sessions : Deliver(s) \/ Leave(s)
    \/ \E f \in Feeds : Restart(f)

Spec == Init /\ [][Next]_feedVars

(* A session that is behind receives the next event or is gone. *)
FairSpec == Spec /\ \A s \in Sessions : WF_feedVars(Behind(s) /\ (Deliver(s) \/ Leave(s)))
=============================================================================
