-------------------------------- MODULE Paging --------------------------------
(***************************************************************************)
(* A client that reads a collection while others write to it: the pages of *)
(* streamItems, followed by their next links, or one export, as lines or   *)
(* as Parquet row groups (src/main.go).  Each page is one statement, whose *)
(* rows are those of the moment it ran; the handler scans them one by one. *)
(*                                                                         *)
(* A feature is its id here: whether it matches the request's filters, and *)
(* under which version of the row, is part of being stored.                *)
(***************************************************************************)
EXTENDS Integers, Sequences, FiniteSets, SequencesExt, FiniteSetsExt

CONSTANTS
    Id,             \* the ids of features
    Asked,          \* what clients ask for as limit (0: nothing usable)
    DefaultLimit,
    MaxLimit,
    ExportBatch,    \* the most rows of an export (0: all)
    RowGroup,       \* the rows of a Parquet row group
    MaxWrites       \* bound: the insertions and deletions

ASSUME PagingAssumption ==
    /\ Id \subseteq Nat \ {0}
    /\ Asked \subseteq Nat
    /\ {DefaultLimit, MaxLimit, RowGroup} \subseteq Nat \ {0}
    /\ {ExportBatch, MaxWrites} \subseteq Nat
    /\ IsFiniteSet(Id)

VARIABLES
    stored,     \* the features stored that match
    writes,     \* the number of writes so far
    format,     \* "items", "ndjson" or "parquet"
    limit,      \* what the request asks for
    after,      \* the request's keyset cursor (0: none)
    pc,         \* "request", "rows", "done"
    rows,       \* the rows of the statement not yet scanned
    count,      \* the features of this page
    batch,      \* the rows of a row group not yet written
    got,        \* the features the client has received, over all pages
    truncated,  \* history: a page broke off before its last row
    always,     \* history: the features stored since the client's first request
    ever        \* history: those stored at some time since

pageVars   == <<pc, rows, count, batch, got, truncated>>
clientVars == <<format, limit, after>>
storeVars  == <<stored, writes, always, ever>>
pagingVars == <<pageVars, clientVars, storeVars>>

PagingInit ==
    /\ stored \in SUBSET Id
    /\ writes = 0
    /\ format \in {"items", "ndjson", "parquet"}
    /\ limit \in Asked
    /\ after = 0
    /\ pc = "request"
    /\ rows = <<>>
    /\ count = 0
    /\ batch = <<>>
    /\ got = <<>>
    /\ truncated = FALSE
    /\ always = stored
    /\ ever = stored

-----------------------------------------------------------------------------
\* Mutant: what the client asks for is not clamped.
EffectiveUnclamped ==
    IF format # "items" THEN ExportBatch
    ELSE IF limit > 0 THEN limit ELSE DefaultLimit

\* The limit a page applies: an export's is the server's own.
Effective ==
    IF format # "items" THEN ExportBatch
    ELSE IF limit > 0 THEN Min({limit, MaxLimit}) ELSE Min({DefaultLimit, MaxLimit})

\* Mutant: the cursor is included.
AfterIncluded == {i \in stored : i >= after}

\* itemFilters' keyset condition.
After == {i \in stored : i > after}

\* ORDER BY id LIMIT n: the least n of ids, or all of them, in order (n = 0: no limit).
IsPage(s, ids, n) ==
    /\ \A i, j \in DOMAIN s : i < j => s[i] < s[j]
    /\ Range(s) \subseteq ids
    /\ \A x \in ids \ Range(s) : n # 0 /\ Len(s) = n /\ \A y \in Range(s) : y < x
    /\ n # 0 => Len(s) <= n

\* db.Query.  When it fails the client is answered 500 and may ask again.
Query ==
    /\ pc = "request"
    /\ rows' \in BoundedSeq(After, Cardinality(After))
    /\ IsPage(rows', After, Effective)
    /\ count' = 0
    /\ pc' = "rows"
    /\ UNCHANGED <<batch, got, truncated, clientVars, storeVars>>

\* One turn of the loop over rows: a feature or a line is written ...
WriteRow ==
    /\ pc = "rows" /\ rows # <<>> /\ format # "parquet"
    /\ got' = Append(got, Head(rows))
    /\ rows' = Tail(rows)
    /\ count' = count + 1
    /\ UNCHANGED <<pc, batch, truncated, clientVars, storeVars>>

\* Mutant: a full row group replaces the rows before it.
BatchRowDropping ==
    /\ pc = "rows" /\ rows # <<>> /\ format = "parquet"
    /\ LET full == Append(batch, Head(rows))
       IN  IF Len(full) >= RowGroup
           THEN batch' = <<>> /\ got' = full
           ELSE batch' = full /\ UNCHANGED got
    /\ rows' = Tail(rows)
    /\ count' = count + 1
    /\ UNCHANGED <<pc, truncated, clientVars, storeVars>>

\* ... or joins the row group, which is written when it is full.
BatchRow ==
    /\ pc = "rows" /\ rows # <<>> /\ format = "parquet"
    /\ LET full == Append(batch, Head(rows))
       IN  IF Len(full) = RowGroup
           THEN batch' = <<>> /\ got' = got \o full
           ELSE batch' = full /\ UNCHANGED got
    /\ rows' = Tail(rows)
    /\ count' = count + 1
    /\ UNCHANGED <<pc, truncated, clientVars, storeVars>>

\* A row does not scan, a feature does not build, or the connection is lost: the loop
\* breaks, and the page ends as if there were no more rows.
Break ==
    /\ pc = "rows" /\ rows # <<>>
    /\ rows' = <<>>
    /\ truncated' = TRUE
    /\ UNCHANGED <<pc, count, batch, got, clientVars, storeVars>>

\* Mutant: every page has a next link.
LinkAlways == format = "items"

\* A full page has a next link.
HasLink == format = "items" /\ count = Effective

\* The end of the page: the last row group, and the next link, which the client follows.
\* The link carries the limit applied and the id of the last row.
EndPage ==
    /\ pc = "rows" /\ rows = <<>>
    /\ got' = got \o batch
    /\ batch' = <<>>
    /\ IF HasLink
       THEN /\ pc' = "request"
            /\ limit' = Effective
            /\ after' = IF got = <<>> THEN after ELSE Last(got)
       ELSE pc' = "done" /\ UNCHANGED <<limit, after>>
    /\ UNCHANGED <<rows, count, truncated, format, storeVars>>

Read == Query \/ WriteRow \/ BatchRow \/ EndPage

-----------------------------------------------------------------------------
\* Another client's write makes a feature match, or match no more.
Insert(i) ==
    /\ writes < MaxWrites /\ i \notin stored
    /\ stored' = stored \cup {i}
    /\ writes' = writes + 1
    /\ ever' = ever \cup {i}
    /\ UNCHANGED <<always, pageVars, clientVars>>

Delete(i) ==
    /\ writes < MaxWrites /\ i \in stored
    /\ stored' = stored \ {i}
    /\ writes' = writes + 1
    /\ always' = always \ {i}
    /\ UNCHANGED <<ever, pageVars, clientVars>>

PagingDone == pc = "done" /\ UNCHANGED pagingVars

PagingNext ==
    \/ Read \/ Break
    \/ \E i \in Id : Insert(i) \/ Delete(i)
    \/ PagingDone

PagingSafetySpec == PagingInit /\ [][PagingNext]_pagingVars

\* The handler runs, and the client follows its links.
PagingSpec == PagingSafetySpec /\ WF_pagingVars(Read)

-----------------------------------------------------------------------------
(* Properties                                                              *)

\* The variables have their types, a page of items is never longer than maxLimit and a row
\* group in memory never longer than parquetRG (streamItems, streamParquet).
PagingTypeOK ==
    /\ stored \subseteq Id
    /\ writes \in 0..MaxWrites
    /\ format \in {"items", "ndjson", "parquet"}
    /\ limit \in Nat
    /\ after \in Id \cup {0}
    /\ pc \in {"request", "rows", "done"}
    /\ rows \in Seq(Id)
    /\ format = "items" => count + Len(rows) <= MaxLimit
    /\ batch \in Seq(Id) /\ Len(batch) < RowGroup
    /\ got \in Seq(Id)
    /\ truncated \in BOOLEAN
    /\ always \subseteq ever /\ ever \subseteq Id

\* What a client receives, over all its pages, is in the order of ids, so that it never
\* receives a feature twice, even one deleted and created again behind its cursor; and
\* everything it receives was there while it was reading.
InKeysetOrder ==
    LET all == got \o batch
    IN  /\ \A i, j \in DOMAIN all : i < j => all[i] < all[j]
        /\ Range(all) \subseteq ever

\* A client that has followed the links to the last page, none of them broken off, has
\* every feature that was stored all the time, whatever was inserted and deleted around it.
Complete ==
    pc = "done" /\ ~truncated /\ (format = "items" \/ ExportBatch = 0)
      => always \subseteq Range(got)

\* Following the links comes to an end, also while features are inserted ahead.
ReadingEnds == <>(pc = "done")
=============================================================================
