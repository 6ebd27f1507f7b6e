-------------------------- MODULE PaymentSearch_proofs --------------------------
(***************************************************************************)
(* Proofs about PaymentSearch: the count is never behind the items, and a   *)
(* walk over all pages misses nothing that it could have shown.             *)
(***************************************************************************)
EXTENDS PaymentSearch, FiniteSetTheorems, TLAPS

(* The payments that come before p in every order of the list. *)
Newer(p) == {q \in Matching : created[q] > created[p]}

Rank(p) == Cardinality(Newer(p))

(* Of the payments to be shown, those of which fewer than n come before. *)
Due(n) == {p \in start : Untied(p) /\ Rank(p) < n}

(* What a walk from the first page has shown at each stage. The rank of a   *)
(* payment only grows: once due on a page before, it never is on a later.   *)
ShownSoFar ==
  walk.first = 1 /\ ~left =>
    /\ walk.stage \notin {"idle", "refused"} => start \subseteq Matching
    /\ walk.stage \in {"items", "count", "failed"} => Due(Offset) \subseteq seen
    /\ walk.stage = "count" => Due(Offset + walk.limit) \subseteq seen \cup walk.items
    /\ walk.stage = "answered" =>
         /\ Due(Offset + walk.limit) \subseteq seen
         /\ walk.total <= Offset + walk.limit =>
              \A p \in start : Untied(p) => p \in seen
    /\ walk.stage = "done" => \A p \in start : Untied(p) => p \in seen

(* The items are there to be counted until they are. *)
ItemsCounted ==
  walk.stage = "count" /\ walk.items # {} /\ ~left
    => Offset + Cardinality(walk.items) <= Cardinality(Matching)


-----------------------------------------------------------------------------
(* Arithmetic of pages.                                                    *)

LEMMA NextOffset ==
  ASSUME NEW k \in Int, NEW l \in Int
  PROVE  (k + 1 - 1) * l = (k - 1) * l + l
  OBVIOUS

LEMMA OffsetType ==
  ASSUME NEW k \in Nat \ {0}, NEW l \in Nat \ {0}
  PROVE  (k - 1) * l \in Nat
  OBVIOUS

(* k pages of l hold n rows if there are no more pages than k. *)
LEMMA PagesHold ==
  ASSUME NEW n \in Nat, NEW l \in Nat \ {0}, NEW k \in Nat \ {0},
         k >= (n + l - 1) \div l
  PROVE  n <= (k - 1) * l + l
  <1> DEFINE m == n + l - 1
             q == m \div l
  <1>1. m \in Nat /\ q \in Int
    OBVIOUS
  <1>2. m < q * l + l
    BY <1>1
  <1>3. q * l <= k * l
    BY <1>1
  <1>4. k * l = (k - 1) * l + l
    OBVIOUS
  <1>5. m = n + l - 1 /\ k * l \in Int /\ q * l \in Int
    BY <1>1
  <1> HIDE DEF m, q
  <1>6. QED
    BY <1>2, <1>3, <1>4, <1>5

-----------------------------------------------------------------------------
(* The list.                                                               *)

LEMMA MatchingFinite ==
  ASSUME TypeOK, NEW S \in SUBSET Matching
  PROVE  /\ Matching \subseteq Payment /\ IsFiniteSet(Matching)
         /\ IsFiniteSet(S) /\ Cardinality(S) \in Nat
         /\ Cardinality(S) <= Cardinality(Matching)
  <1>1. Matching \subseteq Payment
    BY DEF Matching, Stored
  <1>2. IsFiniteSet(Matching)
    BY <1>1, FiniteAssumption, FS_Subset
  <1>3. QED
    BY <1>1, <1>2, FS_Subset, FS_CardinalityType

LEMMA RankType ==
  ASSUME TypeOK, NEW p
  PROVE  /\ Newer(p) \subseteq Matching /\ IsFiniteSet(Newer(p))
         /\ Rank(p) \in Nat
  <1>1. Newer(p) \subseteq Matching
    BY DEF Newer
  <1>2. QED
    BY <1>1, MatchingFinite DEF Rank

LEMMA StampsAreNumbers ==
  ASSUME TypeOK, NEW p \in Matching
  PROVE  created[p] \in Int
  BY StampAssumption DEF TypeOK, Matching, Stored

(* The bounds of a walk. *)
LEMMA WalkBounds ==
  ASSUME TypeOK
  PROVE  /\ walk.limit \in Nat \ {0} /\ walk.limit \in 1..MaxLimit
         /\ walk.page \in Nat \ {0} /\ walk.total \in Nat
         /\ walk.stage \in Stage /\ walk.items \subseteq Payment
         /\ Offset \in Nat
  <1>1. /\ walk.limit \in Nat \ {0} /\ walk.limit \in 1..MaxLimit
        /\ walk.page \in Nat \ {0} /\ walk.total \in Nat
        /\ walk.stage \in Stage /\ walk.items \subseteq Payment
    BY LimitAssumption DEF TypeOK, Walk
  <1>2. QED
    BY <1>1, OffsetType DEF Offset

(* A payment of the list that ties with none is on the page if its rank is  *)
(* one of the page's.                                                      *)
LEMMA PageHasItsRanks ==
  ASSUME TypeOK, NEW S \in SUBSET Matching, Page(S),
         NEW p \in Matching, Untied(p), Offset <= Rank(p),
         Rank(p) < Offset + walk.limit
  PROVE  p \in S
  <1> SUFFICES ASSUME p \notin S PROVE FALSE
    OBVIOUS
  <1> PICK B \in SUBSET (Matching \ S) :
        /\ Cardinality(B) = Least(Offset, Cardinality(Matching))
        /\ Cardinality(S) = Least(walk.limit, Cardinality(Matching \ B))
        /\ NoneNewer(B, Matching \ B)
        /\ NoneNewer(S, Matching \ (B \cup S))
    BY DEF Page
  <1> DEFINE N == Newer(p)
             R == Matching \ B
  <1>1. /\ IsFiniteSet(N) /\ N \subseteq Matching /\ Cardinality(N) = Rank(p)
        /\ Rank(p) \in Nat
    BY RankType DEF Rank
  <1>2. /\ IsFiniteSet(B) /\ IsFiniteSet(S) /\ IsFiniteSet(R)
        /\ Cardinality(B) \in Nat /\ Cardinality(S) \in Nat
        /\ Cardinality(R) \in Nat /\ Cardinality(Matching) \in Nat
    BY MatchingFinite
  <1>3. Offset \in Nat /\ walk.limit \in Nat \ {0}
    BY WalkBounds
  <1>4. \A q \in Matching : created[q] \in Int
    BY StampsAreNumbers
  <1>5. p \notin B
    <2> SUFFICES ASSUME p \in B PROVE FALSE
      OBVIOUS
    <2>1. N \subseteq B
      BY <1>4 DEF Newer, NoneNewer
    <2>2. p \notin N
      BY <1>4 DEF Newer
    <2>3. Cardinality(N \cup {p}) = Rank(p) + 1
      BY <1>1, <2>2, FS_AddElement
    <2>4. Cardinality(N \cup {p}) <= Cardinality(B)
      BY <1>2, <2>1, FS_Subset
    <2>5. Cardinality(B) <= Offset
      BY <1>2, <1>3 DEF Least
    <2>6. QED
      BY <1>1, <1>2, <1>3, <2>3, <2>4, <2>5
  <1>6. B \subseteq N /\ S \subseteq N
    BY <1>4, <1>5 DEF Newer, NoneNewer, Untied
  <1>7. Cardinality(B \cup S) = Cardinality(B) + Cardinality(S)
    <2>1. Cardinality(B \cap S) = 0
      <3>1. B \cap S = {}
        OBVIOUS
      <3>2. QED
        BY <3>1, FS_EmptySet
    <2>2. Cardinality(B \cup S)
            = Cardinality(B) + Cardinality(S) - Cardinality(B \cap S)
      BY <1>2, FS_Union
    <2>3. QED
      BY <1>2, <2>1, <2>2
  <1>8. Cardinality(B) + Cardinality(S) <= Rank(p)
    BY <1>1, <1>6, <1>7, FS_Subset
  <1>9. Cardinality(B) = Offset
    <2>1. Cardinality(B) # Cardinality(Matching)
      BY <1>5, MatchingFinite, FS_Subset
    <2>2. QED
      BY <2>1, <1>2, <1>3 DEF Least
  <1>10. Cardinality(S) = walk.limit
    <2>1. S \subseteq R /\ p \in R
      BY <1>5
    <2>2. Cardinality(S) # Cardinality(R)
      BY <1>2, <2>1, FS_Subset
    <2>3. QED
      BY <2>2, <1>2, <1>3 DEF Least
  <1>11. QED
    BY <1>1, <1>3, <1>8, <1>9, <1>10

(* A page with items lies within the list. *)
LEMMA PageWithinList ==
  ASSUME TypeOK, NEW S \in SUBSET Matching, Page(S), S # {}
  PROVE  Offset + Cardinality(S) <= Cardinality(Matching)
  <1> PICK B \in SUBSET (Matching \ S) :
        Cardinality(B) = Least(Offset, Cardinality(Matching))
    BY DEF Page
  <1>1. /\ IsFiniteSet(B) /\ IsFiniteSet(S) /\ IsFiniteSet(Matching)
        /\ Cardinality(B) \in Nat /\ Cardinality(S) \in Nat
        /\ Cardinality(Matching) \in Nat /\ Offset \in Nat
    BY MatchingFinite, WalkBounds
  <1>2. Cardinality(B) = Offset
    <2>1. B # Matching
      OBVIOUS
    <2>2. Cardinality(B) # Cardinality(Matching)
      BY <1>1, <2>1, FS_Subset
    <2>3. QED
      BY <1>1, <2>2 DEF Least
  <1>3. Cardinality(B \cup S) = Cardinality(B) + Cardinality(S)
    <2>1. Cardinality(B \cap S) = 0
      <3>1. B \cap S = {}
        OBVIOUS
      <3>2. QED
        BY <3>1, FS_EmptySet
    <2>2. Cardinality(B \cup S)
            = Cardinality(B) + Cardinality(S) - Cardinality(B \cap S)
      BY <1>1, FS_Union
    <2>3. QED
      BY <1>1, <2>1, <2>2
  <1>4. Cardinality(B \cup S) <= Cardinality(Matching)
    BY <1>1, FS_Subset
  <1>5. QED
    BY <1>1, <1>2, <1>3, <1>4

-----------------------------------------------------------------------------
(* Types.                                                                  *)

LEMMA FreshType ==
  ASSUME NEW stage \in Stage, NEW b \in BOOLEAN, NEW k \in Nat \ {0},
         NEW l \in 1..MaxLimit
  PROVE  Fresh(stage, b, k, l) \in Walk
  BY DEF Fresh, Walk

LEMMA InitType == Init => TypeOK
  <1> SUFFICES ASSUME Init PROVE TypeOK
    OBVIOUS
  <1>1. walk \in Walk
    BY LimitAssumption DEF Init, Fresh, Walk, Stage
  <1>2. created \in [Payment -> Stamp \cup {None}]
    BY DEF Init
  <1>3. QED
    BY <1>1, <1>2, Zenon DEF Init, TypeOK

LEMMA BeginType ==
  ASSUME TypeOK, NEW b \in BOOLEAN, NEW k \in AskedPage, NEW l \in AskedLimit,
         Begin(b, k, l)
  PROVE  TypeOK'
  <1>1. Given(k, 1) \in Nat \ {0}
    BY AskedAssumption DEF Begin, GoodPage, Given
  <1>2. Given(l, DefaultLimit) \in 1..MaxLimit
    BY DEF Begin, GoodLimit
  <1>3. walk' \in Walk
    BY <1>1, <1>2, FreshType DEF Begin, Stage
  <1>4. QED
    BY <1>3 DEF Begin, TypeOK, Stored

LEMMA TypeStep == TypeOK /\ [Next]_vars => TypeOK'
  <1> SUFFICES ASSUME TypeOK, [Next]_vars PROVE TypeOK'
    OBVIOUS
  <1>1. ASSUME NEW p \in Payment, NEW t \in Stamp, Commit(p, t) PROVE TypeOK'
    BY <1>1 DEF Commit, TypeOK
  <1>2. ASSUME NEW p \in Payment, Move(p) PROVE TypeOK'
    BY <1>2, Zenon DEF Move, TypeOK
  <1>3. ASSUME NEW b \in BOOLEAN, NEW k \in AskedPage, NEW l \in AskedLimit,
               Begin(b, k, l)
        PROVE  TypeOK'
    BY <1>3, BeginType
  <1>4. ASSUME NEW k \in AskedPage, NEW l \in AskedLimit, Refused(k, l)
        PROVE  TypeOK'
    <2>1. Fresh("refused", FALSE, 1, DefaultLimit) \in Walk
      BY LimitAssumption DEF Fresh, Walk, Stage
    <2>2. QED
      BY <1>4, <2>1, Zenon DEF Refused, TypeOK
  <1>5. ASSUME NEW S \in SUBSET Matching, FetchItems(S) PROVE TypeOK'
    <2>1. S \subseteq Payment
      BY DEF Matching, Stored
    <2>2. QED
      BY <1>5, <2>1 DEF FetchItems, TypeOK, Walk, Stage
  <1>6. CASE CountTotal
    <2>1. Cardinality(Matching) \in Nat
      BY MatchingFinite
    <2>2. QED
      BY <1>6, <2>1 DEF CountTotal, Answered, TypeOK, Walk, Stage
  <1>7. CASE QueryFails
    BY <1>7 DEF QueryFails, TypeOK, Walk, Stage
  <1>8. CASE Follow
    <2>1. walk.page + 1 \in Nat \ {0}
      BY WalkBounds
    <2>2. QED
      BY <1>8, <2>1 DEF Follow, Ask, TypeOK, Walk, Stage
  <1>9. CASE AskAgain
    BY <1>9 DEF AskAgain, Ask, TypeOK, Walk, Stage
  <1>10. CASE Finish
    BY <1>10 DEF Finish, TypeOK, Walk, Stage
  <1>11. CASE UNCHANGED vars
    BY <1>11 DEF vars, TypeOK
  <1>12. QED
    BY <1>1, <1>2, <1>3, <1>4, <1>5, <1>6, <1>7, <1>8, <1>9, <1>10, <1>11
       DEF Next

(* The parameters, the answers and the counts of a walk stay within their   *)
(* bounds.                                                                 *)
THEOREM TypeCorrect == Spec => []TypeOK
  BY InitType, TypeStep, PTL DEF Spec

-----------------------------------------------------------------------------
(* What steps do to the list.                                              *)

(* The list only grew. *)
Grew == /\ Matching \subseteq Matching'
        /\ \A q \in Matching : created'[q] = created[q]

LEMMA GrowthMovesBack ==
  ASSUME TypeOK, TypeOK', Grew, NEW p \in Matching
  PROVE  /\ Rank(p) \in Nat /\ Rank(p)' \in Nat /\ Rank(p) <= Rank(p)'
         /\ Untied(p)' => Untied(p)
  <1>1. Newer(p) \subseteq Newer(p)'
    BY DEF Grew, Newer
  <1>2. IsFiniteSet(Newer(p)')
    <2>1. Newer(p)' \subseteq Payment
      BY DEF Newer, Matching, Stored
    <2>2. QED
      BY <2>1, FiniteAssumption, FS_Subset
  <1>3. /\ Rank(p) \in Nat /\ Rank(p)' \in Nat
        /\ Rank(p) <= Rank(p)'
    BY <1>1, <1>2, RankType, FS_Subset, FS_CardinalityType DEF Rank
  <1>4. Untied(p)' => Untied(p)
    BY DEF Grew, Untied
  <1>5. QED
    BY <1>3, <1>4

(* Commits and moves leave the walk alone, and the list grows unless they    *)
(* are seen to have taken a payment out of it.                             *)
LEMMA ServiceSteps ==
  ASSUME TypeOK, NEW p \in Payment,
         (\E t \in Stamp : Commit(p, t)) \/ Move(p)
  PROVE  /\ UNCHANGED <<walk, start, seen>>
         /\ ~left' => ~left /\ Grew
  <1>1. CASE \E t \in Stamp : Commit(p, t)
    BY <1>1, StampAssumption DEF Commit, Grew, Matching, Stored, TypeOK
  <1>2. CASE Move(p)
    BY <1>2 DEF Move, Grew, Matching, Stored, TypeOK
  <1>3. QED
    BY <1>1, <1>2

(* A step of a walk under way leaves the list as it is. *)
LEMMA WalkSteps ==
  ASSUME UNCHANGED <<created, inStatus>>, walk'.byStatus = walk.byStatus
  PROVE  /\ Matching' = Matching
         /\ \A p : Rank(p)' = Rank(p) /\ (Untied(p)' <=> Untied(p))
  <1>1. Matching' = Matching
    BY DEF Matching, Stored
  <1>2. ASSUME NEW p PROVE Newer(p)' = Newer(p)
    BY <1>1 DEF Newer
  <1>3. ASSUME NEW p PROVE Untied(p)' <=> Untied(p)
    BY <1>1 DEF Untied
  <1>4. QED
    BY <1>1, <1>2, <1>3 DEF Rank

-----------------------------------------------------------------------------
(* The items are counted in time.                                          *)

LEMMA InitCounted == Init => ItemsCounted /\ ItemsWithinTotal
  BY DEF Init, Fresh, ItemsCounted, ItemsWithinTotal

LEMMA ServiceKeepsCount ==
  ASSUME TypeOK, TypeOK', ItemsCounted, ItemsWithinTotal,
         UNCHANGED walk, ~left' => ~left /\ Grew
  PROVE  ItemsCounted' /\ ItemsWithinTotal'
  <1>1. Offset' = Offset
    BY DEF Offset
  <1>2. ItemsWithinTotal'
    BY <1>1 DEF ItemsWithinTotal
  <1>3. ItemsCounted'
    <2> SUFFICES ASSUME walk.stage = "count", walk.items # {}, ~left'
                 PROVE  Offset + Cardinality(walk.items) <= Cardinality(Matching')
      BY <1>1 DEF ItemsCounted
    <2>1. Offset + Cardinality(walk.items) <= Cardinality(Matching)
      BY DEF ItemsCounted
    <2>2. Matching' \subseteq Payment /\ IsFiniteSet(Matching')
      <3>1. Matching' \subseteq Payment
        BY DEF Matching, Stored
      <3>2. QED
        BY <3>1, FiniteAssumption, FS_Subset
    <2>3. Matching \subseteq Matching'
      BY DEF Grew
    <2>4. Cardinality(Matching) <= Cardinality(Matching')
      BY <2>2, <2>3, FS_Subset
    <2>5. /\ Cardinality(Matching) \in Nat /\ Cardinality(Matching') \in Nat
          /\ Offset \in Nat
      BY <2>2, MatchingFinite, WalkBounds, FS_CardinalityType
    <2>6. Cardinality(walk.items) \in Nat
      BY WalkBounds, FiniteAssumption, FS_Subset, FS_CardinalityType
    <2>7. QED
      BY <2>1, <2>4, <2>5, <2>6
  <1>4. QED
    BY <1>2, <1>3

LEMMA CountStep ==
  TypeOK /\ TypeOK' /\ ItemsCounted /\ ItemsWithinTotal /\ [Next]_vars
    => ItemsCounted' /\ ItemsWithinTotal'
  <1> SUFFICES ASSUME TypeOK, TypeOK', ItemsCounted, ItemsWithinTotal, [Next]_vars
               PROVE  ItemsCounted' /\ ItemsWithinTotal'
    OBVIOUS
  <1>1. ASSUME NEW p \in Payment, (\E t \in Stamp : Commit(p, t)) \/ Move(p)
        PROVE  ItemsCounted' /\ ItemsWithinTotal'
    BY <1>1, ServiceSteps, ServiceKeepsCount
  <1>2. ASSUME walk'.stage \notin {"count", "answered"}
        PROVE  ItemsCounted' /\ ItemsWithinTotal'
    BY <1>2 DEF ItemsCounted, ItemsWithinTotal
  <1>3. ASSUME NEW b \in BOOLEAN, NEW k \in AskedPage, NEW l \in AskedLimit,
               Begin(b, k, l) \/ Refused(k, l)
        PROVE  ItemsCounted' /\ ItemsWithinTotal'
    BY <1>3, <1>2 DEF Begin, Refused, Fresh
  <1>4. ASSUME NEW S \in SUBSET Matching, FetchItems(S)
        PROVE  ItemsCounted' /\ ItemsWithinTotal'
    <2>1. /\ walk' = [walk EXCEPT !.stage = "count", !.items = S]
          /\ UNCHANGED <<created, inStatus>> /\ Page(S)
      BY <1>4 DEF FetchItems
    <2>2. /\ walk'.stage = "count" /\ walk'.items = S /\ Offset' = Offset
          /\ walk'.byStatus = walk.byStatus
      BY <2>1 DEF Offset, TypeOK, Walk
    <2>3. Matching' = Matching
      BY <2>1, <2>2, WalkSteps
    <2>4. S # {} => Offset + Cardinality(S) <= Cardinality(Matching)
      BY <2>1, PageWithinList
    <2>5. QED
      BY <2>2, <2>3, <2>4 DEF ItemsCounted, ItemsWithinTotal
  <1>5. CASE CountTotal
    <2>1. /\ walk.stage = "count" /\ left' = left
          /\ walk' = [walk EXCEPT !.stage = "answered", !.total = Cardinality(Matching)]
      BY <1>5 DEF CountTotal, Answered
    <2>2. /\ walk'.stage = "answered" /\ walk'.items = walk.items
          /\ walk'.total = Cardinality(Matching) /\ Offset' = Offset
      BY <2>1 DEF Offset, TypeOK, Walk
    <2>3. QED
      BY <2>1, <2>2 DEF ItemsCounted, ItemsWithinTotal
  <1>6. CASE QueryFails \/ Follow \/ AskAgain \/ Finish
    <2>1. walk'.stage \notin {"count", "answered"}
      BY <1>6 DEF QueryFails, Follow, AskAgain, Finish, Ask, TypeOK, Walk
    <2>2. QED
      BY <2>1, <1>2
  <1>7. CASE UNCHANGED vars
    BY <1>7 DEF vars, ItemsCounted, ItemsWithinTotal, Offset, Matching, Stored
  <1>8. QED
    BY <1>1, <1>3, <1>4, <1>5, <1>6, <1>7 DEF Next

(* No answer shows more payments than it counts, whatever commits between   *)
(* its two queries, as long as no payment leaves the status.               *)
THEOREM ItemsAlwaysWithinTotal == Spec => []ItemsWithinTotal
  <1> DEFINE Counted == ItemsCounted /\ ItemsWithinTotal
  <1>1. Init => Counted
    BY InitCounted
  <1>2. TypeOK /\ TypeOK' /\ Counted /\ [Next]_vars => Counted'
    BY CountStep
  <1>3. Counted => ItemsWithinTotal
    OBVIOUS
  <1> HIDE DEF Counted
  <1>4. QED
    BY <1>1, <1>2, <1>3, TypeCorrect, PTL DEF Spec

-----------------------------------------------------------------------------
(* Nothing is missed.                                                      *)

LEMMA InitShown == Init => ShownSoFar
  BY DEF Init, Fresh, ShownSoFar

LEMMA ServiceKeepsShown ==
  ASSUME TypeOK, TypeOK', ShownSoFar,
         UNCHANGED <<walk, start, seen>>, ~left' => ~left /\ Grew
  PROVE  ShownSoFar'
  <1> SUFFICES ASSUME walk.first = 1, ~left', walk.stage \notin {"idle", "refused"}
               PROVE  ShownSoFar'
    BY DEF ShownSoFar
  <1>1. ~left /\ Grew /\ start \subseteq Matching
    BY DEF ShownSoFar
  <1>2. Offset' = Offset /\ Offset \in Nat /\ walk.limit \in Nat
    BY WalkBounds DEF Offset
  <1>3. ASSUME NEW n \in Int
        PROVE  {p \in start : Untied(p)' /\ Rank(p)' < n} \subseteq Due(n)
    <2> SUFFICES ASSUME NEW p \in start, Untied(p)', Rank(p)' < n
                 PROVE  p \in Due(n)
      OBVIOUS
    <2>1. /\ Untied(p) /\ Rank(p) <= Rank(p)'
          /\ Rank(p) \in Nat /\ Rank(p)' \in Nat
      BY <1>1, GrowthMovesBack
    <2>2. QED
      BY <2>1 DEF Due
  <1>4. /\ Due(Offset)' \subseteq Due(Offset)
        /\ Due(Offset + walk.limit)' \subseteq Due(Offset + walk.limit)
    BY <1>2, <1>3 DEF Due
  <1>5. \A p \in start : Untied(p)' => Untied(p)
    BY <1>1, GrowthMovesBack
  <1>6. start \subseteq Matching'
    BY <1>1 DEF Grew
  <1>7. QED
    BY <1>1, <1>2, <1>4, <1>5, <1>6 DEF ShownSoFar

(* A walk begins with nothing due. *)
LEMMA BeginShown ==
  ASSUME TypeOK, NEW b \in BOOLEAN, NEW k \in AskedPage, NEW l \in AskedLimit,
         Begin(b, k, l), TypeOK'
  PROVE  ShownSoFar'
  <1> SUFFICES ASSUME walk'.first = 1 PROVE ShownSoFar'
    BY DEF ShownSoFar
  <1>1. /\ walk'.stage = "items" /\ walk'.page = 1 /\ walk'.byStatus = b
        /\ walk'.limit = Given(l, DefaultLimit)
    BY DEF Begin, Fresh
  <1>2. Offset' = 0
    BY <1>1, LimitAssumption DEF Offset, Begin, GoodLimit
  <1>3. start' = Matching'
    BY <1>1 DEF Begin, Matching, Stored
  <1>4. Due(Offset)' = {}
    <2> SUFFICES ASSUME NEW p, Rank(p)' < 0 PROVE FALSE
      BY <1>2 DEF Due
    <2>1. Rank(p)' \in Nat
      <3>1. Newer(p)' \subseteq Payment
        BY DEF Newer, Matching, Stored
      <3>2. QED
        BY <3>1, FiniteAssumption, FS_Subset, FS_CardinalityType DEF Rank
    <2>2. QED
      BY <2>1
  <1>5. QED
    BY <1>1, <1>3, <1>4 DEF ShownSoFar

(* The page has what is due on it. *)
LEMMA FetchShown ==
  ASSUME TypeOK, ShownSoFar, NEW S \in SUBSET Matching, FetchItems(S)
  PROVE  ShownSoFar'
  <1> SUFFICES ASSUME walk'.first = 1, ~left' PROVE ShownSoFar'
    BY DEF ShownSoFar
  <1>1. /\ walk.stage = "items" /\ Page(S) /\ ~left
        /\ walk' = [walk EXCEPT !.stage = "count", !.items = S]
        /\ UNCHANGED <<created, inStatus, start, seen>>
    BY DEF FetchItems
  <1>2. /\ walk'.stage = "count" /\ walk'.items = S /\ walk.first = 1
        /\ walk'.limit = walk.limit /\ Offset' = Offset
        /\ walk'.byStatus = walk.byStatus
    BY <1>1 DEF Offset, TypeOK, Walk
  <1>3. /\ Matching' = Matching
        /\ \A p : Rank(p)' = Rank(p) /\ (Untied(p)' <=> Untied(p))
    BY <1>1, <1>2, WalkSteps
  <1>4. start \subseteq Matching /\ Due(Offset) \subseteq seen
    BY <1>1, <1>2 DEF ShownSoFar
  <1>5. Due(Offset)' = Due(Offset)
    BY <1>1, <1>2, <1>3 DEF Due
  <1>6. Due(Offset + walk.limit)' \subseteq seen \cup S
    <2> SUFFICES ASSUME NEW p \in start, Untied(p), Rank(p) < Offset + walk.limit
                 PROVE  p \in seen \cup S
      BY <1>1, <1>2, <1>3 DEF Due
    <2>1. Rank(p) \in Nat /\ Offset \in Nat
      BY RankType, WalkBounds
    <2>2. CASE Rank(p) < Offset
      BY <1>4, <2>2 DEF Due
    <2>3. CASE Offset <= Rank(p)
      BY <1>1, <1>4, <2>3, PageHasItsRanks
    <2>4. QED
      BY <2>1, <2>2, <2>3
  <1>7. QED
    BY <1>1, <1>2, <1>3, <1>4, <1>5, <1>6 DEF ShownSoFar

(* A count that fits the pages so far says that nothing is left to show. *)
LEMMA CountShown ==
  ASSUME TypeOK, ShownSoFar, CountTotal
  PROVE  ShownSoFar'
  <1> SUFFICES ASSUME walk'.first = 1, ~left' PROVE ShownSoFar'
    BY DEF ShownSoFar
  <1>1. /\ walk.stage = "count" /\ ~left
        /\ walk' = [walk EXCEPT !.stage = "answered", !.total = Cardinality(Matching)]
        /\ seen' = seen \cup walk.items
        /\ UNCHANGED <<created, inStatus, start>>
    BY DEF CountTotal, Answered
  <1>2. /\ walk'.stage = "answered" /\ walk.first = 1
        /\ walk'.limit = walk.limit /\ Offset' = Offset
        /\ walk'.total = Cardinality(Matching)
        /\ walk'.byStatus = walk.byStatus
    BY <1>1 DEF Offset, TypeOK, Walk
  <1>3. /\ Matching' = Matching
        /\ \A p : Rank(p)' = Rank(p) /\ (Untied(p)' <=> Untied(p))
    BY <1>1, <1>2, WalkSteps
  <1>4. start \subseteq Matching /\ Due(Offset + walk.limit) \subseteq seen'
    BY <1>1, <1>2 DEF ShownSoFar
  <1>5. Due(Offset + walk.limit)' = Due(Offset + walk.limit)
    BY <1>1, <1>2, <1>3 DEF Due
  <1>6. ASSUME Cardinality(Matching) <= Offset + walk.limit,
               NEW p \in start, Untied(p)
        PROVE  p \in seen'
    <2>1. p \in Matching /\ p \notin Newer(p)
      BY <1>4, StampsAreNumbers DEF Newer
    <2>2. Newer(p) \subseteq Matching /\ Newer(p) # Matching
      BY <2>1, RankType
    <2>3. Rank(p) < Cardinality(Matching)
      <3>1. Rank(p) <= Cardinality(Matching) /\ Rank(p) # Cardinality(Matching)
        BY <2>2, MatchingFinite, FS_Subset DEF Rank
      <3>2. QED
        BY <3>1, RankType, MatchingFinite
    <2>4. Rank(p) < Offset + walk.limit
      BY <1>6, <2>3, RankType, MatchingFinite, WalkBounds
    <2>5. QED
      BY <1>4, <1>6, <2>4 DEF Due
  <1>7. QED
    BY <1>1, <1>2, <1>3, <1>4, <1>5, <1>6 DEF ShownSoFar

(* The merchant turns the page, asks again, or is told that this was the    *)
(* last.                                                                   *)
LEMMA TurnShown ==
  ASSUME TypeOK, ShownSoFar, QueryFails \/ Follow \/ AskAgain \/ Finish
  PROVE  ShownSoFar'
  <1> SUFFICES ASSUME walk'.first = 1, ~left' PROVE ShownSoFar'
    BY DEF ShownSoFar
  <1>1. /\ walk.first = 1 /\ walk'.byStatus = walk.byStatus
        /\ walk'.limit = walk.limit
        /\ ~left /\ UNCHANGED <<created, inStatus, start, seen>>
    BY DEF QueryFails, Follow, AskAgain, Finish, Ask, TypeOK, Walk
  <1>2. /\ Matching' = Matching
        /\ \A p : Rank(p)' = Rank(p) /\ (Untied(p)' <=> Untied(p))
    BY <1>1, WalkSteps
  <1>3. start \subseteq Matching
    BY <1>1 DEF QueryFails, Follow, AskAgain, Finish, ShownSoFar
  <1>4. CASE QueryFails \/ AskAgain
    <2>1. walk'.stage \in {"failed", "items"} /\ Offset' = Offset
      BY <1>4 DEF QueryFails, AskAgain, Ask, Offset, TypeOK, Walk
    <2>2. Due(Offset) \subseteq seen
      BY <1>1, <1>4 DEF QueryFails, AskAgain, ShownSoFar
    <2>3. Due(Offset)' = Due(Offset)
      BY <1>1, <1>2, <2>1 DEF Due
    <2>4. QED
      BY <1>1, <1>2, <1>3, <2>1, <2>2, <2>3 DEF ShownSoFar
  <1>5. CASE Follow
    <2>1. walk'.stage = "items" /\ walk'.page = walk.page + 1
      BY <1>5 DEF Follow, Ask, TypeOK, Walk
    <2>2. Offset' = Offset + walk.limit
      BY <1>1, <2>1, NextOffset, WalkBounds DEF Offset
    <2>3. Due(Offset + walk.limit) \subseteq seen
      BY <1>1, <1>5 DEF Follow, ShownSoFar
    <2>4. Due(Offset)' = Due(Offset + walk.limit)
      BY <1>1, <1>2, <2>2 DEF Due
    <2>5. QED
      BY <1>1, <1>2, <1>3, <2>1, <2>3, <2>4 DEF ShownSoFar
  <1>6. CASE Finish
    <2>1. walk'.stage = "done" /\ walk.stage = "answered" /\ walk.page >= TotalPages
      BY <1>6 DEF Finish, TypeOK, Walk
    <2>2. walk.total <= Offset + walk.limit
      BY <2>1, PagesHold, WalkBounds DEF TotalPages, Offset
    <2>3. \A p \in start : Untied(p) => p \in seen
      BY <1>1, <2>1, <2>2 DEF ShownSoFar
    <2>4. QED
      BY <1>1, <1>2, <1>3, <2>1, <2>3 DEF ShownSoFar
  <1>7. QED
    BY <1>4, <1>5, <1>6

LEMMA ShownStep ==
  TypeOK /\ TypeOK' /\ ShownSoFar /\ [Next]_vars => ShownSoFar'
  <1> SUFFICES ASSUME TypeOK, TypeOK', ShownSoFar, [Next]_vars PROVE ShownSoFar'
    OBVIOUS
  <1>1. ASSUME NEW p \in Payment, (\E t \in Stamp : Commit(p, t)) \/ Move(p)
        PROVE  ShownSoFar'
    BY <1>1, ServiceSteps, ServiceKeepsShown
  <1>2. ASSUME NEW b \in BOOLEAN, NEW k \in AskedPage, NEW l \in AskedLimit,
               Begin(b, k, l)
        PROVE  ShownSoFar'
    BY <1>2, BeginShown
  <1>3. ASSUME NEW k \in AskedPage, NEW l \in AskedLimit, Refused(k, l)
        PROVE  ShownSoFar'
    BY <1>3 DEF Refused, Fresh, ShownSoFar
  <1>4. ASSUME NEW S \in SUBSET Matching, FetchItems(S)
        PROVE  ShownSoFar'
    BY <1>4, FetchShown
  <1>5. CASE CountTotal
    BY <1>5, CountShown
  <1>6. CASE QueryFails \/ Follow \/ AskAgain \/ Finish
    BY <1>6, TurnShown
  <1>7. CASE UNCHANGED vars
    <2>1. UNCHANGED <<walk, start, seen, left>> /\ Grew
      BY <1>7 DEF vars, Grew, Matching, Stored
    <2>2. QED
      BY <2>1, ServiceKeepsShown
  <1>8. QED
    BY <1>1, <1>2, <1>3, <1>4, <1>5, <1>6, <1>7 DEF Next

(* A walk over all pages shows every payment that matched when it began and *)
(* ties with none, unless a payment left the status under it.              *)
THEOREM NothingIsMissed == Spec => []NothingMissed
  <1>1. Init => ShownSoFar
    BY InitShown
  <1>2. TypeOK /\ TypeOK' /\ ShownSoFar /\ [Next]_vars => ShownSoFar'
    BY ShownStep
  <1>3. ShownSoFar => NothingMissed
    BY DEF ShownSoFar, NothingMissed
  <1>4. QED
    BY <1>1, <1>2, <1>3, TypeCorrect, PTL DEF Spec
=============================================================================
