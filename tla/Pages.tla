-------------------------------- MODULE Pages --------------------------------
(***************************************************************************)
(* Lists read page by page: the scan by skip of clients/network-subgraph.ts*)
(* and of the scoped queries of clients/qos-subgraph.ts, the scan by       *)
(* cursor of the latter's broad queries, and what is computed from the     *)
(* rows: the query volumes, their ranking and the weighted means.  The     *)
(* subgraph is external: each page is read from its table as it stands     *)
(* when the page is served.                                                *)
(***************************************************************************)
EXTENDS Integers, Sequences, FiniteSets, Functions

CONSTANTS
  Row,        \* the rows there may be, ordered by id
  Place,      \* a row's place in the order of the scans by skip
  Owner,      \* its deployment, or None
  Volume,     \* its query count
  Weight,     \* its data point count
  Metric,     \* its latency, success rate or lag, or None
  None,
  PageSize, MaxPages,
  Limit,      \* how many deployments a ranking asks for
  MaxChanges  \* bound of the changes of the table during a scan

ASSUME PagesAssumption ==
  /\ Row \subseteq Nat \ {0} /\ IsFiniteSet(Row)
  /\ Place \in [Row -> Int] /\ \A i, j \in Row : Place[i] = Place[j] => i = j
  /\ \A i \in Row : Volume[i] \in Nat /\ Weight[i] \in Int /\ Metric[i] \in Int \cup {None}
  /\ PageSize \in Nat \ {0} /\ MaxPages \in Nat \ {0}
  /\ Limit \in Nat /\ MaxChanges \in Nat

VARIABLES
  table,    \* the rows that match the query
  scan,     \* the scan: its mode, page, cursor and what it has read
  scanAborted,  \* the caller's signal has fired
  stayed,   \* history: the rows that matched all along
  moves     \* history: how often the table has changed

scanVars == <<table, scan, scanAborted, stayed, moves>>

-----------------------------------------------------------------------------
Modes == {"skip", "cursor"}

(* The members of S in the order of a relation that is total on S: each    *)
(* stands behind as many as come before it.                                *)
Ordered(S, before) ==
  [n \in 1 .. Cardinality(S) |->
     CHOOSE i \in S : Cardinality({j \in S : <<j, i>> \in before}) = n - 1]

ByPlace == {p \in Row \X Row : Place[p[1]] < Place[p[2]]}
ById == {p \in Row \X Row : p[1] < p[2]}

First(s, n) == SubSeq(s, 1, IF Len(s) < n THEN Len(s) ELSE n)

(* orderBy a changing attribute, the first rows skipped.                   *)
SkipPage(page) ==
  LET rows == Ordered(table, ByPlace) IN
  First(SubSeq(rows, page * PageSize + 1, Len(rows)), PageSize)

(* Mutant: the cursor includes the row it points to. *)
CursorPageFrom(last) == First(Ordered({i \in table : i >= last}, ById), PageSize)

(* orderBy id, id_gt: lastId. *)
CursorPage(last) == First(Ordered({i \in table : i > last}, ById), PageSize)

(* The answer to the page under way.  A gateway that does not advance the  *)
(* cursor repeats the page it served last.                                 *)
Batches ==
  IF scan.mode = "skip" THEN {SkipPage(scan.page)}
  ELSE {CursorPage(scan.last)}
       \cup (IF scan.page = 0 THEN {}
             ELSE {SubSeq(scan.rows, Len(scan.rows) - PageSize + 1, Len(scan.rows))})

-----------------------------------------------------------------------------
ScanInit ==
  /\ table \in SUBSET Row
  /\ scan = [pc |-> "idle", mode |-> "skip", page |-> 0, last |-> 0, rows |-> <<>>,
             truncated |-> FALSE]
  /\ scanAborted = FALSE
  /\ stayed = table /\ moves = 0

(* A getter of the clients: the first page is asked for. *)
Begin(mode) ==
  /\ scan.pc = "idle" /\ ~scanAborted
  /\ scan' = [scan EXCEPT !.pc = "asking", !.mode = mode]
  /\ stayed' = table
  /\ UNCHANGED <<table, scanAborted, moves>>

Return(rows, truncated) ==
  scan' = [scan EXCEPT !.pc = "done", !.rows = rows, !.truncated = truncated]

(* throwIfAborted, then the next page. *)
AskNext(rows, last) ==
  scan' = IF scanAborted THEN [scan EXCEPT !.pc = "failed", !.rows = <<>>]
          ELSE [scan EXCEPT !.page = @ + 1, !.last = last, !.rows = rows]

(* Mutant: one page more than the cap. *)
PastCap == scan.page = MaxPages

AtCap == scan.page + 1 = MaxPages

(* Mutant: a scan by skip that stops at the cap ends like any other. *)
EndsAtCap(batch) == Len(batch) < PageSize \/ (AtCap /\ scan.mode = "skip")

(* A page that is not full is the last one. *)
Ends(batch) == Len(batch) < PageSize

PageArrives ==
  /\ scan.pc = "asking"
  /\ \E batch \in Batches :
       LET rows == scan.rows \o batch
           tail == batch[Len(batch)] IN
       IF Ends(batch) THEN Return(rows, FALSE)
       ELSE IF (scan.mode = "cursor" /\ tail = scan.last) \/ AtCap
            THEN Return(rows, TRUE)
            ELSE AskNext(rows, IF scan.mode = "cursor" THEN tail ELSE 0)
  /\ UNCHANGED <<table, scanAborted, stayed, moves>>

(* An error or an abort of the request: the whole scan throws. *)
PageFails ==
  /\ scan.pc = "asking"
  /\ scan' = [scan EXCEPT !.pc = "failed", !.rows = <<>>]
  /\ UNCHANGED <<table, scanAborted, stayed, moves>>

AbortScan ==
  /\ ~scanAborted /\ scanAborted' = TRUE
  /\ UNCHANGED <<table, scan, stayed, moves>>

(* A row comes to match the query, or no longer does. *)
TableChanges(i) ==
  /\ scan.pc = "asking" /\ moves < MaxChanges
  /\ table' = IF i \in table THEN table \ {i} ELSE table \cup {i}
  /\ stayed' = stayed \ {i}
  /\ moves' = moves + 1
  /\ UNCHANGED <<scan, scanAborted>>

ScanNext ==
  \/ \E mode \in Modes : Begin(mode)
  \/ PageArrives \/ PageFails \/ AbortScan
  \/ \E i \in Row : TableChanges(i)

ScanSpec == ScanInit /\ [][ScanNext]_scanVars

-----------------------------------------------------------------------------
(* What is made of the rows. *)

Has(rows, i) == \E n \in DOMAIN rows : rows[n] = i

Owners(rows) == {Owner[rows[n]] : n \in DOMAIN rows} \ {None}

(* aggregateQueryVolume: rows without a deployment are passed over.        *)
VolumeOf(rows, d) ==
  SumFunctionOnSet([n \in DOMAIN rows |-> Volume[rows[n]]], {n \in DOMAIN rows : Owner[rows[n]] = d})

(* Deployments by volume, the larger first; the sort is stable, and before *)
(* it they stand in the order of their first rows.                         *)
Seen(rows, d) ==
  CHOOSE n \in DOMAIN rows : Owner[rows[n]] = d /\ \A m \in 1 .. n - 1 : Owner[rows[m]] # d

ByVolume(rows) ==
  {p \in Owners(rows) \X Owners(rows) :
     \/ VolumeOf(rows, p[1]) > VolumeOf(rows, p[2])
     \/ VolumeOf(rows, p[1]) = VolumeOf(rows, p[2]) /\ Seen(rows, p[1]) < Seen(rows, p[2])}

(* Mutant: the limit is applied before the sort. *)
RankedCut(rows) ==
  LET seen == {p \in Owners(rows) \X Owners(rows) : Seen(rows, p[1]) < Seen(rows, p[2])}
      kept == First(Ordered(Owners(rows), seen), Limit) IN
  Ordered({kept[n] : n \in DOMAIN kept}, ByVolume(rows))

(* getTopQueriedDeployments: sorted by volume, cut at the limit. *)
Ranked(rows) == First(Ordered(Owners(rows), ByVolume(rows)), Limit)

(* aggregateIndexerQoS: rows of no weight do not count, a row without the  *)
(* metric adds its weight and no value, a negative value counts as none.   *)
Weighing(rows) == {n \in DOMAIN rows : Weight[rows[n]] > 0}

Measured(rows) == {n \in Weighing(rows) : Metric[rows[n]] # None}

Value(i) == IF Metric[i] < 0 THEN 0 ELSE Metric[i]

Weighted(rows) ==
  SumFunctionOnSet([n \in DOMAIN rows |-> Weight[rows[n]] * Value(rows[n])], Measured(rows))

(* Mutant: the sum is divided by the number of rows. *)
MeanOfRows(rows) == Weighted(rows) \div Cardinality(Measured(rows))

Mean(rows) ==
  Weighted(rows) \div SumFunctionOnSet([n \in DOMAIN rows |-> Weight[rows[n]]], Weighing(rows))

-----------------------------------------------------------------------------
ScanTypeOK ==
  /\ table \subseteq Row /\ stayed \subseteq table
  /\ scan \in [pc : {"idle", "asking", "done", "failed"}, mode : Modes,
               page : 0 .. MaxPages - 1, last : Row \cup {0}, rows : Seq(Row),
               truncated : BOOLEAN]
  /\ scanAborted \in BOOLEAN /\ moves \in 0 .. MaxChanges

Complete == scan.pc = "done" /\ ~scan.truncated

(* "picks up exactly where this one stopped -- no gaps, no duplicates":    *)
(* whatever comes and goes between two pages, a scan by cursor that is not *)
(* marked as truncated has every row that stayed, and no row twice.        *)
CursorNoGapsNoDuplicates ==
  Complete /\ scan.mode = "cursor" =>
    /\ \A i \in stayed : Has(scan.rows, i)
    /\ \A m, n \in DOMAIN scan.rows : scan.rows[m] = scan.rows[n] => m = n

(* Either scan returns the table itself, each row once, when the table is  *)
(* left alone and the result is not marked as truncated.                   *)
StillTableIsRead ==
  Complete /\ moves = 0 =>
    /\ {scan.rows[n] : n \in DOMAIN scan.rows} = table
    /\ Len(scan.rows) = Cardinality(table)

(* "silently produce a wrong top-N": of an unmarked broad scan of a table  *)
(* at rest no deployment outside the ranking has more queries than one in  *)
(* it, and the ranking is as long as it can be.                            *)
RankingIsTop ==
  Complete /\ scan.mode = "cursor" /\ moves = 0 =>
    LET top == Ranked(scan.rows)
        listed == {top[n] : n \in DOMAIN top}
        total(d) == SumFunctionOnSet(Volume, {i \in table : Owner[i] = d})
        all == {Owner[i] : i \in table} \ {None} IN
    /\ Len(top) = IF Cardinality(all) < Limit THEN Cardinality(all) ELSE Limit
    /\ \A d \in listed, e \in all \ listed : total(d) >= total(e)
    /\ \A m, n \in DOMAIN top : m < n => total(top[m]) >= total(top[n])

(* The weighted mean lies between the values it is the mean of, unless a   *)
(* row that counts lacks the metric: then it can only be too low.          *)
MeanIsBetween ==
  Complete /\ Measured(scan.rows) # {} =>
    /\ \E n \in Measured(scan.rows) : Mean(scan.rows) <= Value(scan.rows[n])
    /\ Measured(scan.rows) = Weighing(scan.rows) =>
         \E n \in Measured(scan.rows) : Value(scan.rows[n]) <= Mean(scan.rows)
=============================================================================
