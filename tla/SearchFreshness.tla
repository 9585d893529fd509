-------------------------- MODULE SearchFreshness --------------------------
(***************************************************************************)
(* executeSearch of search/service.ts beside the ledger and the outbox     *)
(* drainer: one search reads the public cursor, then the backlog of the    *)
(* handoff, then a window of the lexical index, the page it answers with,  *)
(* and the window again.  Nothing holds the ledger or the drainer still    *)
(* between these reads.  The query is one that every statement matches.    *)
(*                                                                         *)
(* Not modelled: a moderator's content controls, which keep a claim out of *)
(* every read and touch neither the index nor the outbox.                  *)
(***************************************************************************)
EXTENDS KraterOutbox

VARIABLES
    at,      \* what the search has read so far
    upTo,    \* source_cursor, as the last event it covers
    lag,     \* the index_pending or index_freshness_unknown omission
    found    \* the version of each claim that the window pins, 0 if none

searchVars == <<at, upTo, lag, found>>
searchingVars == <<outboxVars, searchVars>>

SearchInit ==
    /\ OutboxInit
    /\ at = "start"
    /\ upTo = 0
    /\ lag = FALSE
    /\ found = [c \in Claims |-> 0]

\* Mutant: quarantined handoffs are not counted as backlog.
Backlog_Pending == Pending # {}

(* SELECT COUNT(...) FROM outbox WHERE state <> 'delivered': a quarantined   *)
(* row keeps the state it had, so it counts.                                 *)
Backlog == \E i \in DOMAIN rows : rows[i].state # "delivered"

ReadCursor ==
    /\ at = "start"
    /\ at' = "cursor"
    /\ upTo' = Len(rows)
    /\ UNCHANGED <<lag, found>>

\* A count that fails is reported as index_freshness_unknown.
ReadBacklog ==
    /\ at = "cursor"
    /\ at' = "backlog"
    /\ lag' \in {Backlog, TRUE}
    /\ UNCHANGED <<upTo, found>>

\* The join of an index entry on its claim's head: an entry made of an older version is
\* dropped unless the two have the same wording, and so is a withdrawn head.
Listed(c) ==
    IF fts[c] = 0 \/ HeadOf(c) \in redacted THEN {0}
    ELSE IF fts[c] = HeadOf(c) THEN {HeadOf(c)}
    ELSE {0, HeadOf(c)}

ReadSearchWindow ==
    /\ at = "backlog"
    /\ at' = "window"
    /\ found' \in {f \in [Claims -> 0..Len(rows)] : \A c \in Claims : f[c] \in Listed(c)}
    /\ UNCHANGED <<upTo, lag>>

\* A page whose pins do not hold any more is refused with SearchContinuationError, and so is
\* one whose ranks have moved, which any other change of the index can cause.
HydrateSearchPage ==
    /\ at = "window"
    /\ at' \in {"changed"}
         \cup {w \in {"page"} : \A c \in Claims : found[c] # 0 => found[c] \in Listed(c)}
    /\ UNCHANGED <<upTo, lag, found>>

\* The window is read once more and must be the one the page was cut from.
RecheckWindow ==
    /\ at = "page"
    /\ at' \in {"changed"} \cup {w \in {"answered"} : \A c \in Claims : found[c] \in Listed(c)}
    /\ UNCHANGED <<upTo, lag, found>>

ExecuteSearch ==
    /\ ReadCursor \/ ReadBacklog \/ ReadSearchWindow \/ HydrateSearchPage \/ RecheckWindow
    /\ UNCHANGED outboxVars

SearchNext == ExecuteSearch \/ (OutboxNext /\ UNCHANGED searchVars)

SearchSpec == SearchInit /\ [][SearchNext]_searchingVars

(* A search that reports no lag has found the head of every claim that was   *)
(* published before its cursor was read and has been neither revised since   *)
(* nor withdrawn: a delayed or a quarantined handoff is a notice.  A claim   *)
(* revised between the cursor and the window is dropped without one.         *)
NoSilentMiss ==
    at = "answered" /\ ~lag =>
        \A c \in Claims :
            HeadOf(c) \in 1..upTo /\ HeadOf(c) \notin redacted => found[c] = HeadOf(c)
=============================================================================
