----------------------------- MODULE ReadTools -----------------------------
(***************************************************************************)
(* The read tools that answer a page at a time (src/src/tools/list-*.ts,   *)
(* search*.ts, get-report.ts, get-org-report.ts), and a model that follows *)
(* nextOffset from the first page to the last while the lists change.      *)
(*                                                                         *)
(* Most lists are paged by the API, some of whose rows a tool leaves out:  *)
(* of the other side, of a type it does not know.  Others come whole and   *)
(* are paged here.  The comments and the status changes of a report are    *)
(* paged together, from the newest back.                                   *)
(***************************************************************************)
EXTENDS Integers, FiniteSets, SequencesExt

CONSTANTS
  PageSizes,    \* values of `limit`
  MaxOffset,    \* the greatest offset that is accepted
  HISTORY_LIMIT,
  MaxLength,    \* rows of a list at first
  MaxChanges    \* rows that are added or go while the model reads

ASSUME ReadAssumption ==
  /\ PageSizes \subseteq Nat \ {0} /\ HISTORY_LIMIT \in Nat \ {0}
  /\ {MaxOffset, MaxLength, MaxChanges} \subseteq Nat

VARIABLES
  asked,    \* the tool, and what the token reaches
  lists,    \* two lists, newest row first; the second of history only
  atFirst,  \* the rows there were at first
  gone,     \* how many rows have gone from each list
  changes,  \* how many there have been
  at,       \* the offset of the next page
  ended,    \* how the reading ended
  shown     \* the rows shown, of each list

readVars == <<asked, lists, atFirst, gone, changes, at, ended, shown>>

List == {1, 2}

ReportLists == {"list_my_reports", "list_org_reports"}
Catalogues == {"search_programs", "list_org_programs"}
AccountLists == {"list_org_certificates", "list_notifications"}
\* The API answers with the page.
PagedByApi == ReportLists \cup Catalogues \cup AccountLists \cup {"search"}
\* The API answers with everything.
PagedHere == {"list_my_certificates", "list_badges", "get_taxonomy"}
History == {"get_report", "get_org_report"}
ReadTool == PagedByApi \cup PagedHere \cup History

\* A row is wanted if it is of the side, the types and the state asked for, and
\* no internal note.  Which lists hold others:
Mixed(a) ==
  IF a.tool \in ReportLists THEN a.bothSides
  ELSE a.tool \in PagedHere \cup History \cup {"search"}

\* requireViewerWhenAmbiguous
Ambiguous(a) == a.tool \in ReportLists \cup History /\ ~a.viewer /\ a.bothSides
\* assertNotPlatformStaff
StaffAsks(a) == a.tool = "list_org_certificates" /\ a.staff
\* assertOwnReport, assertNotOwnReport
WrongSide(a) == a.tool \in History /\ a.viewer /\ ~a.rightSide
RefusedRead(a) == Ambiguous(a) \/ StaffAsks(a) \/ WrongSide(a)

\* A side is told by the reporter, so only when the viewer is known.
KeptRow(a, row) == row.wanted \/ (a.tool \in ReportLists /\ ~a.viewer)

-----------------------------------------------------------------------------
(* shared/common.ts, shared/report.ts *)

NoMore == 0 - 1
Least(a, b) == IF a < b THEN a ELSE b
Slice(rows, from, to) == SubSeq(rows, from + 1, Least(to, Len(rows)))

\* page: of what the API returned, and not of what is kept.
NextOffset_OfKept(a, rows, offset) ==
  IF Len(SelectSeq(rows, LAMBDA r : KeptRow(a, r))) >= a.limit THEN offset + a.limit ELSE NoMore
NextOffset(a, rows, offset) == IF Len(rows) >= a.limit THEN offset + a.limit ELSE NoMore

\* Filtering a list keeps the rows at some places of it, in their order; what is
\* kept of row i is then in this place.
Place(kept, i) == Cardinality({j \in kept : j <= i})

pageOf(kept, a, offset) ==
  LET end == offset + a.limit
  IN  [items |-> {i \in kept : Place(kept, i) \in (offset + 1)..end},
       next |-> IF end < Cardinality(kept) THEN end ELSE NoMore]

\* Internal notes are dropped first.
toComments(comments) == {i \in DOMAIN comments : comments[i].wanted}

\* The lists here have the newest row first, the code's the oldest.
Greatest(a, b) == IF a > b THEN a ELSE b
Chronological(kept, i) == Cardinality(kept) - Place(kept, i) + 1
historyPage(kept, offset) ==
  LET end == Greatest(0, Cardinality(kept) - offset)
  IN  {i \in kept : Chronological(kept, i) \in (Greatest(0, end - HISTORY_LIMIT) + 1)..end}
historyMeta(comments, transitions, offset) ==
  IF Greatest(comments, transitions) > offset + HISTORY_LIMIT THEN offset + HISTORY_LIMIT ELSE NoMore

-----------------------------------------------------------------------------
(* The tools *)

Rows(list) == ToSet(list)
RowsAt(l, places) == {lists[l][i] : i \in places}

\* paginationInput, historyInput: a greater offset is refused.
Go(next) ==
  /\ at' = IF next \in 0..MaxOffset THEN next ELSE at
  /\ ended' = IF next = NoMore THEN "end" ELSE IF next > MaxOffset THEN "capped" ELSE "no"

Reading == ended = "no"

ReadPage ==
  /\ Reading /\ asked.tool \in PagedByApi /\ ~RefusedRead(asked)
  /\ LET rows == Slice(lists[1], at, at + asked.limit) IN
     /\ shown' = [shown EXCEPT ![1] = @ \cup {r \in Rows(rows) : KeptRow(asked, r)}]
     /\ Go(NextOffset(asked, rows, at))
  /\ UNCHANGED <<asked, lists, atFirst, gone, changes>>

ReadPart ==
  /\ Reading /\ asked.tool \in PagedHere
  /\ LET part == pageOf({i \in DOMAIN lists[1] : KeptRow(asked, lists[1][i])}, asked, at) IN
     /\ shown' = [shown EXCEPT ![1] = @ \cup RowsAt(1, part.items)]
     /\ Go(part.next)
  /\ UNCHANGED <<asked, lists, atFirst, gone, changes>>

ReadHistory ==
  /\ Reading /\ asked.tool \in History /\ ~RefusedRead(asked)
  /\ LET comments == toComments(lists[1])
         transitions == DOMAIN lists[2]
     IN  /\ shown' = <<shown[1] \cup RowsAt(1, historyPage(comments, at)),
                       shown[2] \cup RowsAt(2, historyPage(transitions, at))>>
         /\ Go(historyMeta(Cardinality(comments), Cardinality(transitions), at))
  /\ UNCHANGED <<asked, lists, atFirst, gone, changes>>

ReadRefused ==
  /\ Reading /\ RefusedRead(asked)
  /\ ended' = "refused"
  /\ UNCHANGED <<asked, lists, atFirst, gone, changes, at, shown>>

-----------------------------------------------------------------------------
(* The lists *)

\* Rows of a list, numbered from n.
Numbered(wants, n) == [i \in 1..Len(wants) |-> [id |-> n + i, wanted |-> wants[i]]]
\* Which of the rows of a list are wanted.
Wants(values) == UNION {[1..n -> values] : n \in 0..MaxLength}
ListsOf(a) ==
  {<<Numbered(w, 0), Numbered(v, MaxLength)>> :
     w \in Wants(IF Mixed(a) THEN BOOLEAN ELSE {TRUE}),
     v \in IF a.tool \in History THEN Wants({TRUE}) ELSE {<<>>}}

\* A token that reaches one side reaches no report of the other.
ReadInit ==
  /\ asked \in [tool : ReadTool, limit : PageSizes, viewer : BOOLEAN, bothSides : BOOLEAN,
               rightSide : BOOLEAN, staff : BOOLEAN]
  /\ asked.rightSide \/ (asked.tool \in History /\ asked.bothSides)
  /\ asked.staff => asked.tool = "list_org_certificates"
  /\ lists \in ListsOf(asked)
  /\ atFirst = <<Rows(lists[1]), Rows(lists[2])>>
  /\ gone = <<0, 0>> /\ changes = 0 /\ at = 0 /\ ended = "no" /\ shown = <<{}, {}>>

\* History grows at its newest end, other lists anywhere.
RowAdded ==
  /\ Reading /\ changes < MaxChanges
  /\ \E l \in List, wanted \in BOOLEAN :
       /\ l = 1 \/ (asked.tool \in History /\ wanted)
       /\ wanted \/ Mixed(asked)
       /\ \E i \in 1..(IF asked.tool \in History THEN 1 ELSE Len(lists[l]) + 1) :
            lists' = [lists EXCEPT ![l] =
              InsertAt(@, i, [id |-> 2 * MaxLength + changes + 1, wanted |-> wanted])]
  /\ changes' = changes + 1
  /\ UNCHANGED <<asked, atFirst, gone, at, ended, shown>>

\* Deleted, or no longer what the filters ask for.
RowGone ==
  /\ Reading /\ changes < MaxChanges
  /\ \E l \in List : \E i \in 1..Len(lists[l]) :
       /\ lists' = [lists EXCEPT ![l] = RemoveAt(@, i)]
       /\ gone' = [gone EXCEPT ![l] = @ + 1]
  /\ changes' = changes + 1
  /\ UNCHANGED <<asked, atFirst, at, ended, shown>>

ReadNext == ReadPage \/ ReadPart \/ ReadHistory \/ ReadRefused \/ RowAdded \/ RowGone

ReadSpec == ReadInit /\ [][ReadNext]_readVars

-----------------------------------------------------------------------------
(* Properties *)

\* Of the first n rows of a list, those that were there all the time, are
\* wanted, and have not been shown.
Missed(l, n) ==
  {r \in Rows(Slice(lists[l], 0, n)) : r \in atFirst[l] /\ r.wanted /\ asked.rightSide} \ shown[l]

\* Following nextOffset to its end shows a list in whole, whatever is left out of
\* its pages and whatever is added meanwhile, but one row for each that has gone;
\* and it shows nothing of the other side, and no internal note.  The cap on
\* offsets ends it later than the rows the cap stands for.
ListShown ==
  /\ \A l \in List : \A r \in shown[l] : r.wanted /\ asked.rightSide
  /\ ended \in {"end", "capped"} =>
       \A l \in List : Cardinality(Missed(l, IF ended = "end" THEN Len(lists[l]) ELSE MaxOffset)) <= gone[l]

-----------------------------------------------------------------------------
(* The inductive invariant of ListShown *)

Row == [id : Nat, wanted : BOOLEAN]

ReadTypeOK ==
  /\ asked \in [tool : ReadTool, limit : PageSizes, viewer : BOOLEAN, bothSides : BOOLEAN,
                rightSide : BOOLEAN, staff : BOOLEAN]
  /\ lists \in [List -> Seq(Row)] /\ atFirst \in [List -> SUBSET Row] /\ shown \in [List -> SUBSET Row]
  /\ gone \in [List -> Nat] /\ changes \in Nat /\ at \in Nat /\ ended \in {"no", "end", "capped", "refused"}

\* Which rows there can be: none is taken for one of the first.
RowsRight ==
  /\ asked.rightSide \/ (asked.tool \in History /\ asked.bothSides)
  /\ \A l \in List : \A r \in atFirst[l] : r.id <= 2 * MaxLength
  /\ \A i \in DOMAIN lists[1] : lists[1][i].wanted \/ Mixed(asked)
  /\ \A i \in DOMAIN lists[2] : lists[2][i].wanted /\ asked.tool \in History

\* The places of a list that offsets count.
Counted(l) == {i \in DOMAIN lists[l] : asked.tool \in PagedByApi \/ lists[l][i].wanted}

\* What was before the next page and should have been shown.
Passed(l) == {i \in Counted(l) : Place(Counted(l), i) <= at}
Owed(l) == {r \in atFirst[l] : r.wanted /\ asked.rightSide} \ shown[l]

ReadInv ==
  /\ ReadTypeOK /\ RowsRight /\ ListShown
  /\ Reading => \A l \in List : Cardinality(RowsAt(l, Passed(l)) \cap Owed(l)) <= gone[l]
=============================================================================
