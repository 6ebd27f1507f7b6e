----------------------------- MODULE PaymentSearch -----------------------------
(***************************************************************************)
(* A merchant walks the pages of GET /payments (into_filter in             *)
(* api/dto/payment.rs, search in infrastructure/postgres/repositories.rs)  *)
(* while payments are created and change status.                           *)
(*                                                                         *)
(* One page is two statements on the pool, without a transaction: the items *)
(* first, then the count. Each sees what is committed when it runs. The     *)
(* order is created_at alone, newest first; created_at is taken in          *)
(* Payment::new, before the provider is called, so payments are committed   *)
(* in any order of it, and two may share one. The filters on merchant, date *)
(* and reference never change for a payment: Payment are those that pass    *)
(* them. Status and provider do change: they are the one filter byStatus.   *)
(***************************************************************************)
EXTENDS Integers, FiniteSets

CONSTANTS
  Payment,       \* the payments that pass the filters that never change
  Stamp,         \* values of created_at
  AskedPage,     \* what a merchant may ask for in page,
  AskedLimit,    \* and in limit
  DefaultLimit,  \* DEFAULT_LIMIT
  MaxLimit,      \* MAX_LIMIT
  None           \* an absent parameter; no created_at yet

ASSUME FiniteAssumption == IsFiniteSet(Payment)
ASSUME StampAssumption == Stamp \subseteq Int /\ None \notin Stamp
ASSUME LimitAssumption == /\ MaxLimit \in Nat \ {0}
                          /\ DefaultLimit \in 1..MaxLimit
ASSUME AskedAssumption == AskedPage \cup AskedLimit \subseteq Int \cup {None}

VARIABLES
  created,   \* created_at of every committed payment
  inStatus,  \* the payments with the status one may filter by
  walk,      \* the merchant's walk: parameters, and the answer being built
  start,     \* history: the payments that matched when the walk began,
  seen,      \* those the walk was shown,
  left       \* and whether one stopped matching since

vars == <<created, inStatus, walk, start, seen, left>>

-----------------------------------------------------------------------------
Stage == {"idle", "refused", "items", "count", "answered", "failed", "done"}

Walk == [stage : Stage, byStatus : BOOLEAN, first : Nat \ {0},
         page : Nat \ {0}, limit : 1..MaxLimit,
         items : SUBSET Payment, total : Nat]

Stored == {p \in Payment : created[p] # None}

Matching == IF walk.byStatus THEN Stored \cap inStatus ELSE Stored

TypeOK ==
  /\ created \in [Payment -> Stamp \cup {None}]
  /\ inStatus \subseteq Payment
  /\ walk \in Walk
  /\ start \subseteq Payment
  /\ seen \subseteq Payment
  /\ left \in BOOLEAN

Fresh(stage, byStatus, page, limit) ==
  [stage |-> stage, byStatus |-> byStatus, first |-> page, page |-> page,
   limit |-> limit, items |-> {}, total |-> 0]

Init ==
  /\ created = [p \in Payment |-> None]
  /\ inStatus = {}
  /\ walk = Fresh("idle", FALSE, 1, DefaultLimit)
  /\ start = {} /\ seen = {} /\ left = FALSE

-----------------------------------------------------------------------------
(* The rest of the service.                                                *)

(* A create commits: its row carries the created_at it was made with. *)
Commit(p, t) ==
  /\ created[p] = None
  /\ created' = [created EXCEPT ![p] = t]
  /\ UNCHANGED <<inStatus, walk, start, seen, left>>

(* A payment enters or leaves the status. *)
Move(p) ==
  /\ p \in Stored
  /\ inStatus' = IF p \in inStatus THEN inStatus \ {p} ELSE inStatus \cup {p}
  /\ left' = (left \/ (walk.byStatus /\ p \in inStatus))
  /\ UNCHANGED <<created, walk, start, seen>>

-----------------------------------------------------------------------------
(* into_filter.                                                            *)

Over == walk.stage \in {"idle", "refused", "failed", "done"}

Given(asked, default) == IF asked = None THEN default ELSE asked

GoodPage(asked) == Given(asked, 1) >= 1

(* Slip: MAX_LIMIT itself is one too few. *)
GoodLimitOneMore(asked) == Given(asked, DefaultLimit) \in 1..(MaxLimit + 1)

GoodLimit(asked) == Given(asked, DefaultLimit) \in 1..MaxLimit

(* The page is asked for; the walk begins. *)
Begin(byStatus, page, limit) ==
  /\ Over
  /\ GoodPage(page) /\ GoodLimit(limit)
  /\ walk' = Fresh("items", byStatus, Given(page, 1), Given(limit, DefaultLimit))
  /\ start' = IF byStatus THEN Stored \cap inStatus ELSE Stored
  /\ seen' = {} /\ left' = FALSE
  /\ UNCHANGED <<created, inStatus>>

(* 400: one of the two is out of bounds. *)
Refused(page, limit) ==
  /\ Over
  /\ ~GoodPage(page) \/ ~GoodLimit(limit)
  /\ walk' = Fresh("refused", FALSE, 1, DefaultLimit)
  /\ start' = {} /\ seen' = {} /\ left' = FALSE
  /\ UNCHANGED <<created, inStatus>>

-----------------------------------------------------------------------------
(* search: the two queries, and what the merchant makes of the answer.     *)

Offset == (walk.page - 1) * walk.limit

Least(m, n) == IF m < n THEN m ELSE n

(* All of xs come before all of ys, or tie with them. *)
NoneNewer(xs, ys) == \A x \in xs, y \in ys : created[x] >= created[y]

(* What ORDER BY created_at DESC LIMIT OFFSET may return: the rows before   *)
(* the page and the page itself, ties broken in any way.                   *)
Page(S) == \E before \in SUBSET (Matching \ S) :
  /\ Cardinality(before) = Least(Offset, Cardinality(Matching))
  /\ Cardinality(S) = Least(walk.limit, Cardinality(Matching \ before))
  /\ NoneNewer(before, Matching \ before)
  /\ NoneNewer(S, Matching \ (before \cup S))

FetchItems(S) ==
  /\ walk.stage = "items"
  /\ Page(S)
  /\ walk' = [walk EXCEPT !.stage = "count", !.items = S]
  /\ UNCHANGED <<created, inStatus, start, seen, left>>

Answered(total) ==
  /\ walk.stage = "count"
  /\ walk' = [walk EXCEPT !.stage = "answered", !.total = total]
  /\ seen' = seen \cup walk.items
  /\ UNCHANGED <<created, inStatus, start, left>>

(* Slip: the count is taken of the page. *)
CountTotalOfPage == Answered(Cardinality(walk.items))

CountTotal == Answered(Cardinality(Matching))

(* Either query fails: the page is answered with an error. *)
QueryFails ==
  /\ walk.stage \in {"items", "count"}
  /\ walk' = [walk EXCEPT !.stage = "failed", !.items = {}, !.total = 0]
  /\ UNCHANGED <<created, inStatus, start, seen, left>>

(* Slip: the last page forgotten unless it is full. *)
TotalPagesFull == walk.total \div walk.limit

TotalPages == (walk.total + walk.limit - 1) \div walk.limit

Ask(page) == walk' = [walk EXCEPT !.stage = "items", !.page = page,
                                  !.items = {}, !.total = 0]

(* The merchant asks for the next page while there is one. *)
Follow ==
  /\ walk.stage = "answered" /\ walk.page < TotalPages
  /\ Ask(walk.page + 1)
  /\ UNCHANGED <<created, inStatus, start, seen, left>>

(* The merchant asks again for a page that failed. *)
AskAgain ==
  /\ walk.stage = "failed"
  /\ Ask(walk.page)
  /\ UNCHANGED <<created, inStatus, start, seen, left>>

Finish ==
  /\ walk.stage = "answered" /\ walk.page >= TotalPages
  /\ walk' = [walk EXCEPT !.stage = "done", !.items = {}, !.total = 0]
  /\ UNCHANGED <<created, inStatus, start, seen, left>>

-----------------------------------------------------------------------------
Next ==
  \/ \E p \in Payment, t \in Stamp : Commit(p, t)
  \/ \E p \in Payment : Move(p)
  \/ \E byStatus \in BOOLEAN, page \in AskedPage, limit \in AskedLimit :
       Begin(byStatus, page, limit)
  \/ \E page \in AskedPage, limit \in AskedLimit : Refused(page, limit)
  \/ \E S \in SUBSET Matching : FetchItems(S)
  \/ CountTotal \/ QueryFails
  \/ Follow \/ AskAgain \/ Finish

Spec == Init /\ [][Next]_vars

-----------------------------------------------------------------------------
(* Safety.                                                                 *)

(* The count of search is never behind its items: an answer does not show   *)
(* more than it says there is, whatever is committed between the two        *)
(* queries, unless a payment left the status.                              *)
ItemsWithinTotal ==
  walk.stage = "answered" /\ walk.items # {} /\ ~left
    => Offset + Cardinality(walk.items) <= walk.total

(* A walk from the first page to the last as search and total_pages answer  *)
(* it shows every payment that matched when it began, although pages shift  *)
(* under it; except for payments that share their created_at, which         *)
(* Postgres may order differently from page to page, and for walks during   *)
(* which a payment left the status.                                        *)
Untied(p) == \A q \in Matching \ {p} : created[q] # created[p]

NothingMissed ==
  walk.stage = "done" /\ walk.first = 1 /\ ~left
    => \A p \in start : Untied(p) => p \in seen
=============================================================================
