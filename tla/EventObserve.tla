---------------------------- MODULE EventObserve ----------------------------
(***************************************************************************)
(* event.observe.v0: a reader pulls journal events page by page with a     *)
(* cursor.  A filter is the set of events it lets through (by kind, run,   *)
(* session or principal); it is applied before the page is cut off, so the *)
(* cursor moves over the filtered events.  A sequence number is the        *)
(* position in the journal.                                                *)
(***************************************************************************)
EXTENDS Integers, FiniteSets, Sequences, SequencesExt

CONSTANT PageLimit   \* the limit of a query

ASSUME ObserveAssumption == PageLimit \in Nat \ {0}

\* The sequence numbers a query selects, without the limit.
Matching(journal, after, filter) == {i \in DOMAIN journal : i > after /\ journal[i] \in filter}

\* ORDER BY sequence LIMIT n: the rows with fewer than n before them.
FirstRows(n, rows) == {i \in rows : Cardinality({j \in rows : j < i}) < n}

\* Faulty variant: the cursor is taken from the extra row that tells has_more.
observe_cursor_from_extra_row(journal, after, filter) ==
    LET fetched == FirstRows(PageLimit + 1, Matching(journal, after, filter))
        more == Cardinality(fetched) > PageLimit
        page == IF more THEN FirstRows(PageLimit, fetched) ELSE fetched
    IN [events |-> page,
        next_cursor |-> IF fetched = {} THEN after ELSE Max(fetched),
        has_more |-> more]

\* One query: a row more than the limit is fetched to tell whether there is
\* another page, then cut off again.
observe_events(journal, after, filter) ==
    LET fetched == FirstRows(PageLimit + 1, Matching(journal, after, filter))
        more == Cardinality(fetched) > PageLimit
        page == IF more THEN FirstRows(PageLimit, fetched) ELSE fetched
    IN [events |-> page,
        next_cursor |-> IF page = {} THEN after ELSE Max(page),
        has_more |-> more]
=============================================================================
