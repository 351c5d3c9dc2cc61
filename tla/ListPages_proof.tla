-------------------------- MODULE ListPages_proof --------------------------
(***************************************************************************)
(* Proofs about ListPages for every table of rows, order of creation, page  *)
(* size and number of writes.  The ordering of the rows gives each of them  *)
(* a place in the list; what a walk has missed or will repeat is counted    *)
(* among the rows in front of, or behind, the offset it has read up to.     *)
(***************************************************************************)
EXTENDS ListPages, FunctionTheorems, FiniteSetTheorems, TLAPS

(* How many of the rows come before this one.                               *)
Ahead(rows, row) == {other \in rows : Before(other, row)}
Place(rows, row) == Cardinality(Ahead(rows, row))

(* The rows that a client has been given, counting the page in work, and     *)
(* how far down the list it has read.                                       *)
Read == IF request.found = NotYet THEN walk.seen ELSE walk.seen \cup request.found
Upto ==
    Skip(request.page, request.limit) + IF request.found = NotYet THEN 0 ELSE request.limit

(* Rows that it has passed without being given them, and rows that it has    *)
(* been given and that are still ahead of it.                               *)
Passed(rows, unread, upto) == {row \in unread : ~Tied(row) /\ Place(rows, row) < upto}
Behind(rows, read, upto) == {row \in read \intersect rows : Place(rows, row) >= upto}
Unshown == {row \in walk.steady \ Read : ~Tied(row)}
Twice == IF request.found = NotYet THEN {} ELSE request.found \intersect walk.seen
NoTies == \A row \in Rows : ~Tied(row)

(* The types, fully.                                                        *)
RequestOK ==
    /\ request \in [page : Nat \ {0}, limit : Limits \cup {1}, found : (SUBSET Rows) \cup {NotYet},
                    total : 0..Cardinality(Rows) \cup {NotYet}, changed : BOOLEAN, late : Nat]
    /\ request.found # NotYet =>
          request.found \subseteq Rows /\ Cardinality(request.found) <= request.limit
WalkOK ==
    /\ walk \in [until : {"last", "short"}, steady : SUBSET Rows, seen : SUBSET Rows,
                 repeats : Nat, came : Nat, went : Nat, done : BOOLEAN]
    /\ ~walk.done => walk.steady \subseteq listed
Types ==
    /\ list \in {"log", "items"} /\ createdAt \in Creations /\ listed \subseteq Rows
    /\ RequestOK /\ WalkOK

(* While nothing was written since the first of two queries, each answer     *)
(* still fits the list.                                                     *)
OnPage(n, skip, limit) == ((skip + 1)..(skip + limit)) \intersect (1..n)
PageSize(n) ==
    Cardinality(OnPage(n, Skip(request.page, request.limit), request.limit))
Cut ==
    /\ walk.done => ~Half
    /\ ~request.changed /\ Half =>
          /\ request.found # NotYet => Cardinality(request.found) = PageSize(Cardinality(listed))
          /\ request.total # NotYet => request.total = Cardinality(listed)
    /\ ~request.changed /\ Answered => Cardinality(request.found) = PageSize(request.total)

(* The account of a walk: what it passed without showing it has a departure   *)
(* to blame, or an arrival that its last total did not count.               *)
Misses ==
    /\ ~walk.done =>
          /\ Cardinality(Passed(listed, walk.steady \ Read, Upto)) <= walk.went
          /\ request.found # NotYet /\ Cardinality(request.found) < request.limit =>
                Cardinality(Unshown) <= walk.went
          /\ Answered /\ request.total <= Upto =>
                Cardinality(Unshown) <= walk.went + request.late
          /\ request.total # NotYet /\ request.found = NotYet =>
                Cardinality(listed) <= request.total + request.late
    /\ walk.done =>
          Cardinality({row \in walk.steady \ walk.seen : ~Tied(row)})
              <= walk.went + (IF walk.until = "last" THEN request.late ELSE 0)

(* What it was shown twice, or may be, came again or was pushed down.        *)
Repeats ==
    NoTies => IF walk.done THEN walk.repeats <= walk.came
              ELSE walk.repeats + Cardinality(Twice)
                      + Cardinality(Behind(listed, Read, Upto)) <= walk.came

IInv == Types /\ Cut /\ Misses /\ Repeats
-----------------------------------------------------------------------------
(* Finite sets of rows.                                                     *)
LEMMA SizeOfRows ==
    ASSUME NEW S \in SUBSET Rows
    PROVE  IsFiniteSet(S) /\ Cardinality(S) \in Nat
BY RowsAssumption, FS_Subset, FS_CardinalityType

LEMMA SmallerSize ==
    ASSUME NEW S \in SUBSET Rows, NEW T \in SUBSET S
    PROVE  Cardinality(T) <= Cardinality(S)
BY SizeOfRows, FS_Subset

LEMMA OneMoreSize ==
    ASSUME NEW S \in SUBSET Rows, NEW row \in Rows, NEW T \in SUBSET (S \cup {row})
    PROVE  Cardinality(T) <= Cardinality(S) + 1
<1>1. S \cup {row} \in SUBSET Rows /\ IsFiniteSet(S) /\ Cardinality(S) \in Nat
  BY SizeOfRows
<1>2. Cardinality(S \cup {row}) <= Cardinality(S) + 1
  BY <1>1, FS_AddElement
<1>3. Cardinality(T) <= Cardinality(S \cup {row}) /\ Cardinality(S \cup {row}) \in Nat
  BY <1>1, SmallerSize, SizeOfRows
<1>4. Cardinality(T) \in Nat
  BY <1>1, SizeOfRows
<1> QED
  BY <1>1, <1>2, <1>3, <1>4

LEMMA SumOfSizes ==
    ASSUME NEW S \in SUBSET Rows, NEW T \in SUBSET Rows, S \intersect T = {}
    PROVE  Cardinality(S \cup T) = Cardinality(S) + Cardinality(T)
<1>1. Cardinality(S \cup T) = Cardinality(S) + Cardinality(T) - Cardinality({})
  BY SizeOfRows, FS_Union
<1> QED
  BY <1>1, SizeOfRows, FS_EmptySet

-----------------------------------------------------------------------------
(* The order of the rows, and their places.                                 *)
LEMMA Times ==
    ASSUME Types, NEW row \in Rows
    PROVE  createdAt[row] \in Int /\ row \in Nat
BY CreationsAssumption, RowsAssumption DEF Types

LEMMA BeforeIsAnOrder ==
    ASSUME Types, NEW a \in Rows, NEW b \in Rows, NEW c \in Rows
    PROVE  /\ ~Before(a, a)
           /\ Before(a, b) => ~Before(b, a)
           /\ Before(a, b) /\ Before(b, c) => Before(a, c)
BY Times DEF Before

LEMMA UntiedIsCompared ==
    ASSUME Types, NEW a \in Rows, NEW b \in Rows, ~Tied(a), a # b
    PROVE  Before(a, b) \/ Before(b, a)
<1>1. list = "log" \/ createdAt[a] # createdAt[b]
  BY DEF Types, Tied
<1> QED
  BY <1>1, Times DEF Before

LEMMA PlaceType ==
    ASSUME NEW S \in SUBSET Rows, NEW row
    PROVE  Ahead(S, row) \in SUBSET Rows /\ Place(S, row) \in Nat
BY SizeOfRows DEF Place, Ahead

(* Each row has a place of its own, and the places end with the list.        *)
LEMMA PlacesGrow ==
    ASSUME Types, NEW S \in SUBSET Rows, NEW a \in S, NEW b \in S, Before(a, b)
    PROVE  Place(S, a) + 1 <= Place(S, b)
<1>1. a \notin Ahead(S, a) /\ Ahead(S, a) \cup {a} \subseteq Ahead(S, b)
  BY BeforeIsAnOrder DEF Ahead
<1>2. Cardinality(Ahead(S, a) \cup {a}) = Place(S, a) + 1
  BY <1>1, PlaceType, SizeOfRows, FS_AddElement DEF Place
<1> QED
  BY <1>1, <1>2, PlaceType, SmallerSize DEF Place

LEMMA PlacesDiffer ==
    ASSUME Types, NEW S \in SUBSET Rows, NEW a \in S, NEW b \in S, ~Tied(a), a # b
    PROVE  Place(S, a) # Place(S, b)
<1>1. Before(a, b) \/ Before(b, a)
  BY UntiedIsCompared
<1> QED
  BY <1>1, PlacesGrow, PlaceType

LEMMA PlacesEnd ==
    ASSUME Types, NEW S \in SUBSET Rows, NEW row \in S
    PROVE  Place(S, row) < Cardinality(S)
<1>1. row \notin Ahead(S, row) /\ Ahead(S, row) \cup {row} \subseteq S
  BY BeforeIsAnOrder DEF Ahead
<1>2. Cardinality(Ahead(S, row) \cup {row}) = Place(S, row) + 1
  BY <1>1, PlaceType, SizeOfRows, FS_AddElement DEF Place
<1> QED
  BY <1>1, <1>2, PlaceType, SizeOfRows, SmallerSize

(* An arrival pushes the rows after it down by one, nothing else.            *)
LEMMA PlacesAfterArrival ==
    ASSUME NEW S \in SUBSET Rows, NEW new \in Rows \ S, NEW row
    PROVE  /\ Before(new, row) => Place(S \cup {new}, row) = Place(S, row) + 1
           /\ ~Before(new, row) => Place(S \cup {new}, row) = Place(S, row)
<1>1. CASE Before(new, row)
  <2>1. Ahead(S \cup {new}, row) = Ahead(S, row) \cup {new} /\ new \notin Ahead(S, row)
    BY <1>1 DEF Ahead
  <2> QED
    BY <1>1, <2>1, PlaceType, SizeOfRows, FS_AddElement DEF Place
<1>2. CASE ~Before(new, row)
  <2>1. Ahead(S \cup {new}, row) = Ahead(S, row)
    BY <1>2 DEF Ahead
  <2> QED
    BY <1>2, <2>1 DEF Place
<1> QED
  BY <1>1, <1>2

-----------------------------------------------------------------------------
(* Rankings: what the database may answer from.                             *)
LEMMA RankingIsBijection ==
    ASSUME Types, NEW rank \in Rankings
    PROVE  rank \in Bijection(listed, 1..Cardinality(listed))
<1>1. IsFiniteSet(listed) /\ Cardinality(listed) \in Nat
  BY SizeOfRows DEF Types
<1>2. rank \in [listed -> 1..Cardinality(listed)] /\ \A a, b \in listed : rank[a] = rank[b] => a = b
  BY DEF Rankings
<1>3. rank \in Injection(listed, 1..Cardinality(listed))
  BY <1>2, Fun_IsInj
<1>4. /\ IsFiniteSet(1..Cardinality(listed))
      /\ Cardinality(1..Cardinality(listed)) = Cardinality(listed)
  BY <1>1, FS_Interval
<1>5. rank \in Surjection(listed, 1..Cardinality(listed))
  BY <1>3, <1>4, FS_Injection
<1> QED
  BY <1>3, <1>5, Fun_IsBij

LEMMA RankingFacts ==
    ASSUME Types, NEW rank \in Rankings
    PROVE  /\ rank \in [listed -> 1..Cardinality(listed)]
           /\ \A a, b \in listed : rank[a] = rank[b] => a = b
           /\ \A n \in 1..Cardinality(listed) : \E row \in listed : rank[row] = n
<1> DEFINE T == 1..Cardinality(listed)
<1>1. rank \in Bijection(listed, T)
  BY RankingIsBijection
<1> HIDE DEF T
<1>2. /\ rank \in [listed -> T]
      /\ \A a, b \in listed : rank[a] = rank[b] => a = b
      /\ \A n \in T : \E row \in listed : rank[row] = n
  BY <1>1, Fun_BijectionProperties
<1> QED
  BY <1>2 DEF T

(* The rows whose ranks are of a certain set are as many as those ranks.     *)
LEMMA RanksCount ==
    ASSUME Types, NEW rank \in Rankings, NEW N \in SUBSET (1..Cardinality(listed))
    PROVE  Cardinality({row \in listed : rank[row] \in N}) = Cardinality(N)
<1> DEFINE R == {row \in listed : rank[row] \in N}
<1> DEFINE f == [row \in R |-> rank[row]]
<1>1. rank \in [listed -> 1..Cardinality(listed)]
      /\ (\A a, b \in listed : rank[a] = rank[b] => a = b)
      /\ (\A n \in 1..Cardinality(listed) : \E row \in listed : rank[row] = n)
  BY RankingFacts
<1>2. f \in [R -> N] /\ \A a, b \in R : f[a] = f[b] => a = b
  BY <1>1
<1>3. \A n \in N : \E row \in R : f[row] = n
  BY <1>1
<1>4. f \in Bijection(R, N)
  BY <1>2, <1>3, Fun_IsBij
<1>5. ExistsBijection(R, N) /\ IsFiniteSet(R)
  BY <1>4, SizeOfRows DEF ExistsBijection, Types
<1> QED
  BY <1>5, FS_Bijection

(* A page has as many rows as there are places on it.                        *)
LEMMA WindowFillsThePage ==
    ASSUME Types, NEW rank \in Rankings, NEW skip \in Nat, NEW limit \in Nat
    PROVE  /\ Window(rank, skip, limit) \in SUBSET listed
           /\ Cardinality(Window(rank, skip, limit))
                 = Cardinality(OnPage(Cardinality(listed), skip, limit))
<1> DEFINE N == OnPage(Cardinality(listed), skip, limit)
<1>1. rank \in [listed -> 1..Cardinality(listed)]
  BY RankingFacts
<1>2. Window(rank, skip, limit) = {row \in listed : rank[row] \in N}
  BY <1>1 DEF Window, OnPage
<1>3. N \in SUBSET (1..Cardinality(listed))
  BY DEF OnPage
<1> HIDE DEF N
<1> QED
  BY <1>2, <1>3, RanksCount DEF N

(* A row that no other shares its time with has the rank of its place.       *)
LEMMA RankIsPlace ==
    ASSUME Types, NEW rank \in Rankings, NEW row \in listed, ~Tied(row)
    PROVE  rank[row] = Place(listed, row) + 1
<1> DEFINE N == 1..(rank[row] - 1)
<1>1. Cardinality(listed) \in Nat /\ rank \in [listed -> 1..Cardinality(listed)]
      /\ (\A a, b \in listed : rank[a] = rank[b] => a = b)
  BY RankingFacts, SizeOfRows DEF Types
<1>2. /\ rank[row] \in Nat \ {0} /\ rank[row] <= Cardinality(listed)
      /\ N \in SUBSET (1..Cardinality(listed))
  BY <1>1
<1>3. \A a, b \in listed : Before(a, b) => rank[a] < rank[b]
  <2>1. \A a, b \in listed : Before(a, b) => a # b
    BY BeforeIsAnOrder DEF Types
  <2> QED
    BY <2>1 DEF Rankings
<1>4. ASSUME NEW other \in listed PROVE Before(other, row) <=> rank[other] \in N
  <2>1. rank[other] \in Nat \ {0}
    BY <1>1
  <2>2. Before(other, row) => rank[other] \in N
    BY <1>2, <1>3, <1>4, <2>1
  <2>3. other = row => rank[other] \notin N
    BY <1>2
  <2>4. other # row => Before(other, row) \/ Before(row, other)
    BY <1>4, UntiedIsCompared DEF Types
  <2>5. Before(row, other) => rank[other] \notin N
    BY <1>2, <1>3, <1>4, <2>1
  <2> QED
    BY <2>2, <2>3, <2>4, <2>5
<1>5. Ahead(listed, row) = {other \in listed : rank[other] \in N}
  BY <1>4 DEF Ahead
<1>6. Place(listed, row) = Cardinality(N)
  <2> HIDE DEF N
  <2> QED
    BY <1>2, <1>5, RanksCount DEF Place
<1>7. Cardinality(N) = rank[row] - 1
  <2> DEFINE n == rank[row] - 1
  <2>1. n \in Nat
    BY <1>2
  <2> HIDE DEF n
  <2>2. Cardinality(1..n) = n
    BY <2>1, FS_Interval
  <2> QED
    BY <2>2 DEF n
<1> QED
  BY <1>2, <1>6, <1>7

(* A page has the rows whose places are on it, as far as they are compared.  *)
LEMMA WindowByPlace ==
    ASSUME Types, NEW rank \in Rankings, NEW skip \in Nat, NEW limit \in Nat,
           NEW row \in listed, ~Tied(row)
    PROVE  row \in Window(rank, skip, limit)
               <=> (skip <= Place(listed, row) /\ Place(listed, row) < skip + limit)
<1>1. rank \in [listed -> 1..Cardinality(listed)]
  BY RankingFacts
<1>2. rank[row] = Place(listed, row) + 1 /\ Place(listed, row) \in Nat
  BY RankIsPlace, PlaceType DEF Types
<1> QED
  BY <1>1, <1>2 DEF Window

-----------------------------------------------------------------------------
(* What an arrival or a departure does to the rows passed and behind.        *)
LEMMA PassedAfterArrival ==
    ASSUME NEW S \in SUBSET Rows, NEW new \in Rows \ S, NEW unread, NEW upto \in Nat
    PROVE  Passed(S \cup {new}, unread, upto) \subseteq Passed(S, unread, upto)
<1> SUFFICES ASSUME NEW row \in unread, Place(S \cup {new}, row) < upto
             PROVE  Place(S, row) < upto
  BY DEF Passed
<1>1. Place(S \cup {new}, row) = Place(S, row) \/ Place(S \cup {new}, row) = Place(S, row) + 1
  BY PlacesAfterArrival
<1>2. Place(S, row) \in Nat
  BY PlaceType
<1> QED
  BY <1>1, <1>2

LEMMA PassedAfterDeparture ==
    ASSUME Types, NEW S \in SUBSET Rows, NEW old \in S, NEW unread \in SUBSET (S \ {old}),
           NEW upto \in Nat
    PROVE  Cardinality(Passed(S \ {old}, unread, upto))
               <= Cardinality(Passed(S, unread, upto)) + 1
<1> DEFINE T == S \ {old}
           P == Passed(S, unread, upto)
           Q == Passed(T, unread, upto)
<1>1. T \in SUBSET Rows /\ old \in Rows \ T /\ S = T \cup {old}
  OBVIOUS
<1>2. P \in SUBSET Rows /\ Q \in SUBSET Rows
  BY DEF Passed
<1>3. ASSUME NEW row \in Q \ P PROVE Place(S, row) = upto /\ row \in S /\ ~Tied(row)
  <2>1. row \in unread /\ ~Tied(row) /\ Place(T, row) < upto /\ ~(Place(S, row) < upto)
    BY <1>3 DEF Passed
  <2>2. Place(S, row) = Place(T, row) \/ Place(S, row) = Place(T, row) + 1
    <3> HIDE DEF T
    <3> QED
      BY <1>1, PlacesAfterArrival
  <2>3. Place(S, row) \in Nat /\ Place(T, row) \in Nat
    BY PlaceType
  <2> QED
    BY <2>1, <2>2, <2>3
<1>4. CASE Q \subseteq P
  <2>1. Cardinality(Q) <= Cardinality(P)
    BY <1>2, <1>4, SmallerSize
  <2> QED
    BY <1>2, <2>1, SizeOfRows
<1>5. ASSUME NEW z \in Q \ P PROVE Cardinality(Q) <= Cardinality(P) + 1
  <2>1. Q \subseteq P \cup {z}
    BY <1>3, <1>5, PlacesDiffer
  <2> QED
    BY <1>2, <1>5, <2>1, OneMoreSize
<1> QED
  BY <1>4, <1>5

LEMMA BehindAfterDeparture ==
    ASSUME NEW S \in SUBSET Rows, NEW old \in S, NEW read, NEW upto \in Nat
    PROVE  Behind(S \ {old}, read, upto) \subseteq Behind(S, read, upto)
<1> DEFINE T == S \ {old}
<1>1. T \in SUBSET Rows /\ old \in Rows \ T /\ S = T \cup {old}
  OBVIOUS
<1> SUFFICES ASSUME NEW row \in read \intersect T, Place(T, row) >= upto
             PROVE  row \in S /\ Place(S, row) >= upto
  BY DEF Behind
<1>2. row \in S
  OBVIOUS
<1> HIDE DEF T
<1>3. Place(S, row) = Place(T, row) \/ Place(S, row) = Place(T, row) + 1
  BY <1>1, PlacesAfterArrival
<1> QED
  BY <1>1, <1>2, <1>3, PlaceType

LEMMA BehindAfterArrival ==
    ASSUME Types, NoTies, NEW S \in SUBSET Rows, NEW new \in Rows \ S,
           NEW read \in SUBSET Rows, NEW upto \in Nat
    PROVE  Cardinality(Behind(S \cup {new}, read, upto))
               <= Cardinality(Behind(S, read, upto)) + 1
<1> DEFINE T == S \cup {new}
           B == Behind(S, read, upto)
           C == Behind(T, read, upto)
<1>1. T \in SUBSET Rows /\ new \in T /\ new \in Rows /\ S \subseteq T
  OBVIOUS
<1>2. B \in SUBSET Rows /\ C \in SUBSET Rows
  BY DEF Behind
<1>3. ASSUME NEW row \in C \ B, row # new
      PROVE  /\ row \in S /\ Before(new, row)
             /\ Place(T, row) = Place(S, row) + 1 /\ Place(S, row) < upto
             /\ Place(T, row) >= upto
  <2>1. row \in read /\ row \in T /\ Place(T, row) >= upto
    BY <1>3 DEF Behind
  <2>2. row \in S
    BY <1>3, <2>1
  <2>3. ~(Place(S, row) >= upto)
    BY <1>3, <2>1, <2>2 DEF Behind
  <2> HIDE DEF T
  <2>4. Place(S, row) \in Nat /\ Place(T, row) \in Nat
    BY <1>1, PlaceType
  <2>5. /\ Before(new, row) => Place(T, row) = Place(S, row) + 1
        /\ ~Before(new, row) => Place(T, row) = Place(S, row)
    BY PlacesAfterArrival DEF T
  <2> QED
    BY <2>1, <2>2, <2>3, <2>4, <2>5
<1>4. CASE Place(T, new) >= upto
  <2>1. ASSUME NEW row \in C \ B PROVE row = new
    <3> SUFFICES ASSUME row # new PROVE FALSE
      OBVIOUS
    <3>1. row \in T /\ Before(new, row) /\ Place(T, row) = Place(S, row) + 1
          /\ Place(S, row) < upto
      BY <1>3, <2>1
    <3>2. Place(T, new) + 1 <= Place(T, row)
      BY <1>1, <3>1, PlacesGrow
    <3>3. Place(T, new) \in Nat /\ Place(S, row) \in Nat
      BY <1>1, PlaceType
    <3> QED
      BY <1>4, <3>1, <3>2, <3>3
  <2>2. C \subseteq B \cup {new}
    BY <2>1
  <2> QED
    BY <1>1, <1>2, <2>2, OneMoreSize
<1>5. CASE ~(Place(T, new) >= upto)
  <2>1. new \notin C
    BY <1>5 DEF Behind
  <2>2. ASSUME NEW row \in C \ B PROVE row \in T /\ ~Tied(row) /\ Place(T, row) = upto
    <3>1. row \in S /\ Place(T, row) = Place(S, row) + 1 /\ Place(S, row) < upto
          /\ Place(T, row) >= upto
      BY <1>3, <2>1, <2>2
    <3>2. Place(S, row) \in Nat
      BY PlaceType
    <3> QED
      BY <1>1, <3>1, <3>2 DEF NoTies
  <2>3. CASE C \subseteq B
    <3>1. Cardinality(C) <= Cardinality(B)
      BY <1>2, <2>3, SmallerSize
    <3> QED
      BY <1>2, <3>1, SizeOfRows
  <2>4. ASSUME NEW z \in C \ B PROVE Cardinality(C) <= Cardinality(B) + 1
    <3> HIDE DEF T
    <3>1. C \subseteq B \cup {z}
      BY <1>1, <2>2, <2>4, PlacesDiffer
    <3> QED
      BY <1>2, <2>4, <3>1, OneMoreSize
  <2> QED
    BY <2>3, <2>4
<1> QED
  BY <1>4, <1>5

(* The order itself never changes.                                          *)
LEMMA SameOrder ==
    ASSUME UNCHANGED <<list, createdAt>>
    PROVE  /\ \A row : Tied(row)' <=> Tied(row)
           /\ NoTies' <=> NoTies
           /\ Passed(listed, walk.steady \ Read, Upto)'
                 = Passed(listed', walk.steady' \ Read', Upto')
           /\ Behind(listed, Read, Upto)' = Behind(listed', Read', Upto')
           /\ Unshown' = {row \in walk.steady' \ Read' : ~Tied(row)}
<1>1. \A row : Tied(row)' <=> Tied(row)
  BY DEF Tied
<1>2. \A a, b : Before(a, b)' <=> Before(a, b)
  BY DEF Before
<1>3. \A row : Place(listed, row)' = Place(listed', row)
  <2> SUFFICES ASSUME NEW row PROVE Place(listed, row)' = Place(listed', row)
    OBVIOUS
  <2>1. Ahead(listed, row)' = Ahead(listed', row)
    BY <1>2 DEF Ahead
  <2> QED
    BY <2>1 DEF Place
<1> QED
  BY <1>1, <1>3 DEF NoTies, Passed, Behind, Unshown

-----------------------------------------------------------------------------
(* Numbers of a request.                                                    *)
LEMMA LimitType == \A limit \in Limits \cup {1} : limit \in Nat \ {0}
BY LimitsAssumption

LEMMA Product == ASSUME NEW a \in Nat, NEW b \in Nat PROVE a * b \in Nat
OBVIOUS

LEMMA Offsets ==
    ASSUME Types
    PROVE  /\ request.page \in Nat \ {0} /\ request.limit \in Nat \ {0}
           /\ Skip(request.page, request.limit) \in Nat
           /\ Upto \in Nat
           /\ request.found = NotYet => Upto = Skip(request.page, request.limit)
           /\ request.found # NotYet =>
                 Upto = Skip(request.page, request.limit) + request.limit
           /\ Read \in SUBSET Rows
<1>1. request.page \in Nat \ {0} /\ request.limit \in Nat \ {0}
  BY LimitType DEF Types, RequestOK
<1>2. Skip(request.page, request.limit) \in Nat
  <2>1. request.page - 1 \in Nat
    BY <1>1
  <2> QED
    BY <1>1, <2>1, Product DEF Skip
<1>3. Read \in SUBSET Rows
  BY DEF Types, RequestOK, WalkOK, Read
<1> QED
  BY <1>1, <1>2, <1>3 DEF Upto

LEMMA NextOffset ==
    ASSUME NEW page \in Nat \ {0}, NEW limit \in Nat
    PROVE  Skip(page + 1, limit) = Skip(page, limit) + limit
BY DEF Skip

-----------------------------------------------------------------------------
(* Rows come and go.                                                        *)
Written(in, out) ==
    /\ UNCHANGED <<list, createdAt>>
    /\ walk.done => UNCHANGED <<request, walk>>
    /\ ~walk.done =>
          /\ walk'.done = FALSE /\ walk'.seen = walk.seen /\ walk'.repeats = walk.repeats
          /\ walk'.steady = walk.steady \intersect listed'
          /\ walk'.came = walk.came + in /\ walk'.went = walk.went + out
          /\ request'.page = request.page /\ request'.limit = request.limit
          /\ request'.found = request.found /\ request'.total = request.total
          /\ request'.changed = (request.changed \/ Half)
          /\ request'.late = IF request.total # NotYet /\ request.found = NotYet
                             THEN request.late + in ELSE request.late

LEMMA WroteWritten ==
    ASSUME Types, NEW in \in Nat, NEW out \in Nat, Wrote(in, out), listed' \subseteq Rows,
           UNCHANGED <<list, createdAt>>
    PROVE  Types' /\ Written(in, out)
<1>1. CASE walk.done
  <2>1. UNCHANGED <<request, walk>>
    BY <1>1 DEF Wrote
  <2>2. Types'
    BY <1>1, <2>1 DEF Types, RequestOK, WalkOK
  <2> QED
    BY <1>1, <2>1, <2>2 DEF Written
<1>2. CASE ~walk.done
  <2>1. walk' = [walk EXCEPT !.came = @ + in, !.went = @ + out,
                             !.steady = @ \intersect listed']
    BY <1>2 DEF Wrote
  <2>2. request' = [request EXCEPT
                !.changed = @ \/ Half,
                !.late = IF request.total # NotYet /\ request.found = NotYet
                         THEN @ + in ELSE @]
    BY <1>2 DEF Wrote
  <2>3. Half \in BOOLEAN
    BY DEF Half
  <2>4. walk.done = FALSE
    BY <1>2 DEF Types, WalkOK
  <2>5. WalkOK'
    <3>1. /\ walk.steady \intersect listed' \in SUBSET Rows
          /\ walk.came + in \in Nat /\ walk.went + out \in Nat
      BY DEF Types, WalkOK
    <3>2. walk' \in [until : {"last", "short"}, steady : SUBSET Rows, seen : SUBSET Rows,
                     repeats : Nat, came : Nat, went : Nat, done : BOOLEAN]
      BY <2>1, <3>1 DEF Types, WalkOK
    <3>3. walk'.steady = walk.steady \intersect listed'
      BY <2>1 DEF Types, WalkOK
    <3> QED
      BY <3>2, <3>3 DEF WalkOK
  <2>6. RequestOK'
    <3> DEFINE c == request.changed \/ Half
               l == IF request.total # NotYet /\ request.found = NotYet
                    THEN request.late + in ELSE request.late
    <3>1. l \in Nat
      BY DEF Types, RequestOK
    <3>2. c \in BOOLEAN
      OBVIOUS
    <3>3. request' = [request EXCEPT !.changed = c, !.late = l]
      BY <2>2
    <3> HIDE DEF c, l
    <3>4. request' \in [page : Nat \ {0}, limit : Limits \cup {1},
                        found : (SUBSET Rows) \cup {NotYet},
                        total : 0..Cardinality(Rows) \cup {NotYet},
                        changed : BOOLEAN, late : Nat]
      BY <3>1, <3>2, <3>3 DEF Types, RequestOK
    <3>5. request'.found = request.found /\ request'.limit = request.limit
      BY <3>3 DEF Types, RequestOK
    <3> QED
      BY <3>4, <3>5 DEF Types, RequestOK
  <2>7. /\ walk'.done = FALSE /\ walk'.seen = walk.seen /\ walk'.repeats = walk.repeats
        /\ walk'.steady = walk.steady \intersect listed'
        /\ walk'.came = walk.came + in /\ walk'.went = walk.went + out
    BY <2>1, <2>4 DEF Types, WalkOK
  <2>8. /\ request'.page = request.page /\ request'.limit = request.limit
        /\ request'.found = request.found /\ request'.total = request.total
        /\ request'.changed = (request.changed \/ Half)
        /\ request'.late = IF request.total # NotYet /\ request.found = NotYet
                           THEN request.late + in ELSE request.late
    BY <2>2 DEF Types, RequestOK
  <2> QED
    BY <1>2, <2>5, <2>6, <2>7, <2>8 DEF Types, Written
<1> QED
  BY <1>1, <1>2

LEMMA EnterTypes ==
    ASSUME Types, NEW row \in Rows, Enter(row)
    PROVE  Types' /\ Written(1, 0) /\ row \in Rows \ listed /\ listed' = listed \cup {row}
<1>1. listed' \subseteq Rows
  BY DEF Enter, Types
<1> QED
  BY <1>1, WroteWritten DEF Enter

LEMMA LeaveTypes ==
    ASSUME Types, NEW row \in Rows, Leave(row)
    PROVE  Types' /\ Written(0, 1) /\ row \in listed /\ listed' = listed \ {row}
<1>1. listed' \subseteq Rows
  BY DEF Leave, Types
<1> QED
  BY <1>1, WroteWritten DEF Leave

-----------------------------------------------------------------------------
(* A page is asked for, found and counted, and answered.                     *)
LEMMA FindManyTypes ==
    ASSUME Types, FindMany
    PROVE  /\ Types' /\ UNCHANGED <<list, createdAt, listed, walk>>
           /\ ~walk.done /\ request.found = NotYet
           /\ request'.page = request.page /\ request'.limit = request.limit
           /\ request'.total = request.total /\ request'.changed = request.changed
           /\ request'.late = request.late
           /\ \E rank \in Rankings :
                 request'.found = Window(rank, Skip(request.page, request.limit), request.limit)
<1>1. PICK rank \in Rankings :
          request' = [request EXCEPT
              !.found = Window(rank, Skip(request.page, request.limit), request.limit)]
  BY DEF FindMany
<1> DEFINE W == Window(rank, Skip(request.page, request.limit), request.limit)
           n == Skip(request.page, request.limit)
           N == (n + 1)..(n + request.limit)
<1>2. W \in SUBSET listed
      /\ Cardinality(W) = Cardinality(OnPage(Cardinality(listed), n, request.limit))
  BY Offsets, WindowFillsThePage
<1>3. Cardinality(W) <= request.limit
  <2>1. n \in Nat /\ request.limit \in Nat \ {0}
    BY Offsets
  <2>2. Cardinality(N) = request.limit /\ IsFiniteSet(N)
    <3> DEFINE a == n + 1
               b == n + request.limit
    <3>1. a \in Int /\ b \in Int /\ a <= b /\ b - a + 1 = request.limit
      BY <2>1
    <3> HIDE DEF a, b
    <3>2. Cardinality(a..b) = b - a + 1 /\ IsFiniteSet(a..b)
      BY <3>1, FS_Interval
    <3> QED
      BY <3>1, <3>2 DEF a, b
  <2>3. OnPage(Cardinality(listed), n, request.limit) \in SUBSET N
    BY DEF OnPage
  <2> HIDE DEF N, n
  <2>4. Cardinality(OnPage(Cardinality(listed), n, request.limit)) <= Cardinality(N)
    BY <2>2, <2>3, FS_Subset
  <2> QED
    BY <1>2, <2>2, <2>4
<1>4. /\ request'.page = request.page /\ request'.limit = request.limit
      /\ request'.total = request.total /\ request'.changed = request.changed
      /\ request'.late = request.late /\ request'.found = W
  BY <1>1 DEF Types, RequestOK
<1>5. W \in SUBSET Rows
  BY <1>2 DEF Types
<1> HIDE DEF W
<1>6. RequestOK'
  BY <1>1, <1>3, <1>4, <1>5 DEF W, Types, RequestOK
<1> QED
  BY <1>4, <1>6 DEF FindMany, Types, WalkOK, W

LEMMA CountTypes ==
    ASSUME Types, Count
    PROVE  /\ Types' /\ UNCHANGED <<list, createdAt, listed, walk>>
           /\ ~walk.done /\ request.total = NotYet
           /\ request'.page = request.page /\ request'.limit = request.limit
           /\ request'.found = request.found /\ request'.changed = request.changed
           /\ request'.late = request.late /\ request'.total = Cardinality(listed)
<1>1. request' = [request EXCEPT !.total = Cardinality(listed)]
  BY DEF Count
<1>2. Cardinality(listed) \in 0..Cardinality(Rows)
  <2>1. listed \in SUBSET Rows /\ Rows \in SUBSET Rows
    BY DEF Types
  <2>2. Cardinality(listed) <= Cardinality(Rows)
    BY <2>1, SmallerSize
  <2>3. Cardinality(listed) \in Nat /\ Cardinality(Rows) \in Nat
    BY <2>1, SizeOfRows
  <2> QED
    BY <2>2, <2>3
<1>3. RequestOK'
  BY <1>1, <1>2 DEF Types, RequestOK
<1>4. /\ request'.page = request.page /\ request'.limit = request.limit
      /\ request'.found = request.found /\ request'.changed = request.changed
      /\ request'.late = request.late /\ request'.total = Cardinality(listed)
  BY <1>1 DEF Types, RequestOK
<1> QED
  BY <1>3, <1>4 DEF Count, Types, WalkOK

LEMMA RequestFields ==
    ASSUME NEW page \in Nat \ {0}, NEW limit \in Limits \cup {1}, request' = Request(page, limit)
    PROVE  /\ RequestOK'
           /\ request'.page = page /\ request'.limit = limit
           /\ request'.found = NotYet /\ request'.total = NotYet
           /\ request'.changed = FALSE /\ request'.late = 0
<1>1. request' = [page |-> page, limit |-> limit, found |-> NotYet, total |-> NotYet,
                  changed |-> FALSE, late |-> 0]
  BY DEF Request
<1>2. request' \in [page : Nat \ {0}, limit : Limits \cup {1}, found : (SUBSET Rows) \cup {NotYet},
                    total : 0..Cardinality(Rows) \cup {NotYet}, changed : BOOLEAN, late : Nat]
  <2>1. NotYet \in (SUBSET Rows) \cup {NotYet} /\ NotYet \in 0..Cardinality(Rows) \cup {NotYet}
    OBVIOUS
  <2> QED
    BY <1>1, <2>1
<1>3. /\ request'.page = page /\ request'.limit = limit
      /\ request'.found = NotYet /\ request'.total = NotYet
      /\ request'.changed = FALSE /\ request'.late = 0
  BY <1>1
<1> QED
  BY <1>2, <1>3 DEF RequestOK

LEMMA BeginTypes ==
    ASSUME Types, NEW until \in {"last", "short"}, NEW page \in Pages, NEW limit \in Limits,
           Begin(until, page, limit)
    PROVE  /\ Types' /\ UNCHANGED <<list, createdAt, listed>>
           /\ request'.page = page /\ request'.limit = limit
           /\ request'.found = NotYet /\ request'.total = NotYet
           /\ request'.changed = FALSE /\ request'.late = 0
           /\ walk'.done = FALSE /\ walk'.seen = {} /\ walk'.repeats = 0
           /\ walk'.came = 0 /\ walk'.went = 0
           /\ walk'.steady = IF page = 1 THEN listed ELSE {}
<1>1. page \in Nat \ {0} /\ limit \in Limits \cup {1}
  BY LimitsAssumption
<1>2. request' = Request(page, limit) /\ UNCHANGED <<list, createdAt, listed>>
  BY DEF Begin
<1>3. walk' = [until |-> until, steady |-> IF page = 1 THEN listed ELSE {}, seen |-> {},
               repeats |-> 0, came |-> 0, went |-> 0, done |-> FALSE]
  BY DEF Begin, Walk
<1>4. WalkOK'
  BY <1>2, <1>3 DEF WalkOK, Types
<1> QED
  BY <1>1, <1>2, <1>3, <1>4, RequestFields DEF Types

LEMMA RespondTypes ==
    ASSUME Types, Respond
    PROVE  /\ Types' /\ UNCHANGED <<list, createdAt, listed>>
           /\ ~walk.done /\ request.found # NotYet /\ request.total # NotYet
           /\ walk'.done = IsLast /\ walk'.seen = walk.seen \cup request.found
           /\ walk'.repeats = walk.repeats + Cardinality(request.found \intersect walk.seen)
           /\ walk'.came = walk.came /\ walk'.went = walk.went
           /\ walk'.steady = walk.steady /\ walk'.until = walk.until
           /\ IsLast => request' = request
           /\ ~IsLast => /\ request'.page = request.page + 1 /\ request'.limit = request.limit
                         /\ request'.found = NotYet /\ request'.total = NotYet
                         /\ request'.changed = FALSE /\ request'.late = 0
<1>1. walk' = [walk EXCEPT
            !.seen = @ \cup request.found,
            !.repeats = @ + Cardinality(request.found \intersect walk.seen),
            !.done = IsLast]
  BY DEF Respond
<1>2. IsLast \in BOOLEAN
  <2>1. CASE walk.until = "last"
    BY <2>1 DEF IsLast
  <2>2. CASE walk.until = "short"
    BY <2>2 DEF IsLast
  <2> QED
    BY <2>1, <2>2 DEF Types, WalkOK
<1>3. request.found \in SUBSET Rows
  BY DEF Respond, Answered, Types, RequestOK
<1>4. Cardinality(request.found \intersect walk.seen) \in Nat
  BY <1>3, SizeOfRows
<1>5. WalkOK'
  <2>1. /\ walk.seen \cup request.found \in SUBSET Rows
        /\ walk.repeats + Cardinality(request.found \intersect walk.seen) \in Nat
    BY <1>3, <1>4 DEF Types, WalkOK
  <2>2. walk' \in [until : {"last", "short"}, steady : SUBSET Rows, seen : SUBSET Rows,
                   repeats : Nat, came : Nat, went : Nat, done : BOOLEAN]
    BY <1>1, <1>2, <2>1 DEF Types, WalkOK
  <2>3. walk'.steady = walk.steady /\ ~walk.done /\ listed' = listed
    BY <1>1 DEF Types, WalkOK, Respond
  <2> QED
    BY <2>2, <2>3 DEF Types, WalkOK
<1>6. /\ walk'.done = IsLast /\ walk'.seen = walk.seen \cup request.found
      /\ walk'.repeats = walk.repeats + Cardinality(request.found \intersect walk.seen)
      /\ walk'.came = walk.came /\ walk'.went = walk.went
      /\ walk'.steady = walk.steady /\ walk'.until = walk.until
  BY <1>1 DEF Types, WalkOK
<1>7. CASE IsLast
  <2>1. request' = request
    BY <1>7 DEF Respond
  <2>2. RequestOK'
    BY <2>1 DEF Types, RequestOK
  <2> QED
    BY <1>5, <1>6, <1>7, <2>1, <2>2 DEF Respond, Answered, Types
<1>8. CASE ~IsLast
  <2>1. request' = Request(request.page + 1, request.limit)
    BY <1>8 DEF Respond
  <2>2. request.page + 1 \in Nat \ {0} /\ request.limit \in Limits \cup {1}
    BY DEF Types, RequestOK
  <2>3. /\ RequestOK'
        /\ request'.page = request.page + 1 /\ request'.limit = request.limit
        /\ request'.found = NotYet /\ request'.total = NotYet
        /\ request'.changed = FALSE /\ request'.late = 0
    BY <2>1, <2>2, RequestFields
  <2> QED
    BY <1>5, <1>6, <1>8, <2>3 DEF Respond, Answered, Types
<1> QED
  BY <1>7, <1>8

-----------------------------------------------------------------------------
(* Pages in numbers.                                                        *)
LEMMA QuotientBounds ==
    ASSUME NEW a \in Nat, NEW d \in Nat \ {0}
    PROVE  a \div d \in Nat /\ d * (a \div d) <= a /\ a < d * (a \div d) + d
<1>1. d * (a \div d) <= a /\ a < d * (a \div d) + d /\ a \div d \in Int
  OBVIOUS
<1>2. a \div d \in Nat
  OBVIOUS
<1> QED
  BY <1>1, <1>2

LEMMA ProductsGrow ==
    ASSUME NEW d \in Nat \ {0}, NEW p \in Int, NEW q \in Int, p < q
    PROVE  d * p + d <= d * q
OBVIOUS

(* A client that trusts the total stops no earlier than at the last row.     *)
LEMMA LastPageIsLast ==
    ASSUME NEW total \in Nat, NEW limit \in Nat \ {0}, NEW page \in Nat \ {0},
           page >= TotalPages(total, limit)
    PROVE  total <= Skip(page, limit) + limit
<1> DEFINE n == total + limit - 1
           q == n \div limit
<1>1. n \in Nat /\ q \in Nat /\ n < limit * q + limit
  <2>1. n \in Nat
    OBVIOUS
  <2> HIDE DEF n
  <2> QED
    BY <2>1, QuotientBounds
<1>2. page >= q
  <2> HIDE DEF q
  <2>1. TotalPages(total, limit) = IF q < 1 THEN 1 ELSE q
    BY DEF TotalPages, AtLeastOne, q
  <2> QED
    BY <1>1, <2>1
<1> HIDE DEF q
<1>3. limit * q <= limit * page /\ limit * q \in Int /\ limit * page \in Int
  BY <1>1, <1>2, ProductsGrow
<1>4. Skip(page, limit) + limit = limit * page
  BY DEF Skip
<1> QED
  BY <1>1, <1>3, <1>4

LEMMA FullPage ==
    ASSUME NEW n \in Nat, NEW skip \in Nat, NEW limit \in Nat \ {0}, skip + limit <= n
    PROVE  Cardinality(OnPage(n, skip, limit)) = limit
<1> DEFINE a == skip + 1
           b == skip + limit
<1>1. OnPage(n, skip, limit) = a..b
  BY DEF OnPage
<1>2. a \in Int /\ b \in Int /\ a <= b /\ b - a + 1 = limit
  OBVIOUS
<1> HIDE DEF a, b
<1>3. Cardinality(a..b) = b - a + 1
  BY <1>2, FS_Interval
<1> QED
  BY <1>1, <1>2, <1>3

(* Rows far down the list are few if the list is not much longer.            *)
LEMMA FarRows ==
    ASSUME Types, NEW S \in SUBSET Rows, NEW T \in SUBSET S, NEW m \in Nat, NEW k \in Nat,
           \A row \in T : ~Tied(row) /\ Place(S, row) >= m, Cardinality(S) <= m + k
    PROVE  Cardinality(T) <= k
<1> DEFINE b == m + k - 1
           f == [row \in T |-> Place(S, row)]
<1>1. f \in [T -> m..b]
  <2>1. ASSUME NEW row \in T PROVE Place(S, row) \in m..b
    <3>1. Place(S, row) \in Nat /\ Place(S, row) < Cardinality(S) /\ Cardinality(S) \in Nat
      BY PlaceType, PlacesEnd, SizeOfRows
    <3> QED
      BY <3>1
  <2> QED
    BY <2>1
<1>2. \A x, y \in T : f[x] = f[y] => x = y
  BY PlacesDiffer
<1>3. b \in Int /\ (m > b => k = 0) /\ (~(m > b) => b - m + 1 = k)
  OBVIOUS
<1> HIDE DEF f, b
<1>4. f \in Injection(T, m..b)
  BY <1>1, <1>2, Fun_IsInj
<1>5. IsFiniteSet(m..b) /\ Cardinality(m..b) = k
  BY <1>3, FS_Interval
<1> QED
  BY <1>4, <1>5, FS_Injection

-----------------------------------------------------------------------------
(* The account of a walk, action by action.                                  *)
LEMMA Tallied ==
    ASSUME Types
    PROVE  /\ Passed(listed, walk.steady \ Read, Upto) \in SUBSET Rows
           /\ Unshown \in SUBSET Rows /\ Twice \in SUBSET Rows
           /\ Behind(listed, Read, Upto) \in SUBSET Rows
           /\ Cardinality(Passed(listed, walk.steady \ Read, Upto)) \in Nat
           /\ Cardinality(Unshown) \in Nat /\ Cardinality(Twice) \in Nat
           /\ Cardinality(Behind(listed, Read, Upto)) \in Nat
           /\ Cardinality(listed) \in Nat
<1>1. /\ Passed(listed, walk.steady \ Read, Upto) \in SUBSET Rows
      /\ Unshown \in SUBSET Rows /\ Twice \in SUBSET Rows
      /\ Behind(listed, Read, Upto) \in SUBSET Rows /\ listed \in SUBSET Rows
  BY DEF Types, WalkOK, Passed, Unshown, Twice, Behind
<1> QED
  BY <1>1, SizeOfRows

(* A step that leaves the client's view as it was.                          *)
SameView ==
    /\ UNCHANGED <<list, createdAt, listed, walk>>
    /\ request'.page = request.page /\ request'.limit = request.limit
    /\ request'.found = request.found /\ request'.total = request.total
    /\ request'.late = request.late

LEMMA SameViewSameAccount ==
    ASSUME Types, SameView
    PROVE  (Misses => Misses') /\ (Repeats => Repeats')
<1>1. UNCHANGED <<list, createdAt, listed, walk>>
  BY DEF SameView
<1>2. Read' = Read /\ Upto' = Upto /\ Twice' = Twice /\ (Answered' <=> Answered)
  BY DEF SameView, Read, Upto, Twice, Answered
<1>3. /\ Passed(listed, walk.steady \ Read, Upto)' = Passed(listed, walk.steady \ Read, Upto)
      /\ Behind(listed, Read, Upto)' = Behind(listed, Read, Upto)
      /\ Unshown' = Unshown /\ (NoTies' <=> NoTies)
  BY <1>1, <1>2, SameOrder DEF Unshown
<1>4. {row \in walk.steady \ walk.seen : ~Tied(row)}'
          = {row \in walk.steady \ walk.seen : ~Tied(row)}
  BY <1>1, SameOrder
<1>5. Misses => Misses'
  BY <1>1, <1>2, <1>3, <1>4 DEF SameView, Misses
<1>6. Repeats => Repeats'
  BY <1>1, <1>2, <1>3 DEF Repeats
<1> QED
  BY <1>5, <1>6

(* While no client walks, the rest is of no account.                         *)
LEMMA DoneSameAccount ==
    ASSUME Types, walk.done, UNCHANGED <<list, createdAt, request, walk>>
    PROVE  (Misses => Misses') /\ (Repeats => Repeats')
<1>1. {row \in walk.steady \ walk.seen : ~Tied(row)}'
          = {row \in walk.steady \ walk.seen : ~Tied(row)}
  BY SameOrder
<1>2. NoTies' <=> NoTies
  BY SameOrder
<1>3. Misses => Misses'
  BY <1>1 DEF Misses
<1> QED
  BY <1>2, <1>3 DEF Repeats

(* The client's view while rows come and go.                                 *)
LEMMA WrittenView ==
    ASSUME Types, NEW in, NEW out, Written(in, out), ~walk.done
    PROVE  /\ walk'.done = FALSE /\ Read' = Read /\ Upto' = Upto /\ Twice' = Twice
           /\ (Answered' <=> Answered)
BY DEF Written, Read, Upto, Twice, Answered

LEMMA EnterMisses ==
    ASSUME Types, Misses, NEW row \in Rows, Enter(row)
    PROVE  Misses'
<1>1. Types' /\ Written(1, 0) /\ row \in Rows \ listed /\ listed' = listed \cup {row}
  BY EnterTypes
<1>2. CASE walk.done
  BY <1>1, <1>2, DoneSameAccount DEF Written
<1>3. CASE ~walk.done
  <2>1. /\ walk'.done = FALSE /\ Read' = Read /\ Upto' = Upto /\ (Answered' <=> Answered)
    BY <1>1, <1>3, WrittenView
  <2>2. walk'.steady = walk.steady
    BY <1>1, <1>3 DEF Written, Types, WalkOK
  <2>3. walk'.went = walk.went
    BY <1>1, <1>3 DEF Written, Types, WalkOK
  <2>4. Unshown' = Unshown
    BY <1>1, <2>1, <2>2, SameOrder DEF Unshown, Written
  <2>5. Passed(listed, walk.steady \ Read, Upto)'
            \subseteq Passed(listed, walk.steady \ Read, Upto)
    <3>1. Passed(listed, walk.steady \ Read, Upto)'
              = Passed(listed \cup {row}, walk.steady \ Read, Upto)
      BY <1>1, <2>1, <2>2, SameOrder DEF Written
    <3> QED
      BY <1>1, <3>1, PassedAfterArrival, Offsets DEF Types
  <2>6. Cardinality(Passed(listed, walk.steady \ Read, Upto)') <= walk'.went
    <3>1. Cardinality(Passed(listed, walk.steady \ Read, Upto)')
              <= Cardinality(Passed(listed, walk.steady \ Read, Upto))
      BY <2>5, Tallied, SmallerSize
    <3>2. Cardinality(Passed(listed, walk.steady \ Read, Upto)') \in Nat
      BY <1>1, <2>5, Tallied, SizeOfRows
    <3> QED
      BY <1>3, <2>3, <3>1, <3>2, Tallied DEF Misses, Types, WalkOK
  <2>7. request'.late \in Nat /\ request.late \in Nat /\ request'.late >= request.late
    BY <1>1, <1>3 DEF Written, Types, RequestOK
  <2>8. request'.found = request.found /\ request'.total = request.total
        /\ request'.limit = request.limit
    BY <1>1, <1>3 DEF Written
  <2>9. Answered /\ request.total <= Upto => Cardinality(Unshown) <= walk.went + request'.late
    BY <1>3, <2>7, Tallied DEF Misses, Types, WalkOK
  <2>10. request.total # NotYet /\ request.found = NotYet =>
             Cardinality(listed') <= request.total + request'.late
    <3> SUFFICES ASSUME request.total # NotYet, request.found = NotYet
                 PROVE  Cardinality(listed') <= request.total + request'.late
      OBVIOUS
    <3>1. Cardinality(listed') = Cardinality(listed) + 1
      BY <1>1, SizeOfRows, FS_AddElement DEF Types
    <3>2. request'.late = request.late + 1
      BY <1>1, <1>3 DEF Written
    <3>3. Cardinality(listed) <= request.total + request.late
      BY <1>3 DEF Misses
    <3>4. request.total \in Int
      BY DEF Types, RequestOK
    <3> QED
      BY <2>7, <3>1, <3>2, <3>3, <3>4, Tallied
  <2> QED
    BY <1>3, <2>1, <2>3, <2>4, <2>6, <2>8, <2>9, <2>10 DEF Misses
<1> QED
  BY <1>2, <1>3

LEMMA LeaveMisses ==
    ASSUME Types, Misses, NEW row \in Rows, Leave(row)
    PROVE  Misses'
<1>1. Types' /\ Written(0, 1) /\ row \in listed /\ listed' = listed \ {row}
  BY LeaveTypes
<1>2. CASE walk.done
  BY <1>1, <1>2, DoneSameAccount DEF Written
<1>3. CASE ~walk.done
  <2>1. /\ walk'.done = FALSE /\ Read' = Read /\ Upto' = Upto /\ (Answered' <=> Answered)
    BY <1>1, <1>3, WrittenView
  <2>2. walk'.steady = walk.steady \ {row} /\ walk.steady \subseteq listed
    BY <1>1, <1>3 DEF Written, Types, WalkOK
  <2>3. walk'.went = walk.went + 1 /\ walk.went \in Nat
    BY <1>1, <1>3 DEF Written, Types, WalkOK
  <2>4. Cardinality(Unshown') <= Cardinality(Unshown) /\ Cardinality(Unshown') \in Nat
    <3>1. Unshown' \subseteq Unshown
      BY <1>1, <2>1, <2>2, SameOrder DEF Unshown, Written
    <3> QED
      BY <3>1, Tallied, SmallerSize, SizeOfRows
  <2>5. Cardinality(Passed(listed, walk.steady \ Read, Upto)') <= walk'.went
    <3> DEFINE unread == walk'.steady \ Read
    <3>1. Passed(listed, walk.steady \ Read, Upto)' = Passed(listed \ {row}, unread, Upto)
      BY <1>1, <2>1, <2>2, SameOrder DEF Written
    <3>2. unread \in SUBSET (listed \ {row})
      BY <2>2
    <3>3. Cardinality(Passed(listed \ {row}, unread, Upto))
              <= Cardinality(Passed(listed, unread, Upto)) + 1
      <4> HIDE DEF unread
      <4> QED
        BY <1>1, <3>2, PassedAfterDeparture, Offsets DEF Types
    <3>4. Passed(listed, unread, Upto) \subseteq Passed(listed, walk.steady \ Read, Upto)
      BY <2>2 DEF Passed
    <3>5. Cardinality(Passed(listed, unread, Upto))
              <= Cardinality(Passed(listed, walk.steady \ Read, Upto))
      BY <3>4, Tallied, SmallerSize
    <3>6. Cardinality(Passed(listed, unread, Upto)) \in Nat
      BY <3>4, Tallied, SizeOfRows
    <3>7. Passed(listed \ {row}, unread, Upto) \in SUBSET Rows
      BY <3>2 DEF Passed, Types
    <3>8. Cardinality(Passed(listed \ {row}, unread, Upto)) \in Nat
      BY <3>7, SizeOfRows
    <3>9. Cardinality(Passed(listed, walk.steady \ Read, Upto)) <= walk.went
      BY <1>3 DEF Misses
    <3> HIDE DEF unread
    <3> QED
      BY <2>3, <3>1, <3>3, <3>5, <3>6, <3>8, <3>9, Tallied
  <2>6. request'.found = request.found /\ request'.total = request.total
        /\ request'.limit = request.limit /\ request'.late = request.late
        /\ request.late \in Nat
    BY <1>1, <1>3 DEF Written, Types, RequestOK
  <2>7. /\ request.found # NotYet /\ Cardinality(request.found) < request.limit =>
              Cardinality(Unshown') <= walk'.went
        /\ Answered /\ request.total <= Upto =>
              Cardinality(Unshown') <= walk'.went + request.late
    BY <1>3, <2>3, <2>4, <2>6, Tallied DEF Misses
  <2>8. request.total # NotYet /\ request.found = NotYet =>
             Cardinality(listed') <= request.total + request.late
    <3> SUFFICES ASSUME request.total # NotYet, request.found = NotYet
                 PROVE  Cardinality(listed') <= request.total + request.late
      OBVIOUS
    <3>1. Cardinality(listed') = Cardinality(listed) - 1
      BY <1>1, SizeOfRows, FS_RemoveElement DEF Types
    <3>2. Cardinality(listed) <= request.total + request.late
      BY <1>3 DEF Misses
    <3>3. request.total \in Int
      BY DEF Types, RequestOK
    <3> QED
      BY <2>6, <3>1, <3>2, <3>3, Tallied
  <2> QED
    BY <2>1, <2>5, <2>6, <2>7, <2>8 DEF Misses
<1> QED
  BY <1>2, <1>3

LEMMA FindManyMisses ==
    ASSUME Types, Misses, FindMany
    PROVE  Misses'
<1> DEFINE skip == Skip(request.page, request.limit)
           limit == request.limit
           n == Cardinality(listed)
           P == Passed(listed, walk.steady \ walk.seen, skip)
<1>1. /\ Types' /\ UNCHANGED <<list, createdAt, listed, walk>>
      /\ ~walk.done /\ request.found = NotYet
      /\ request'.page = request.page /\ request'.limit = request.limit
      /\ request'.total = request.total /\ request'.late = request.late
  BY FindManyTypes
<1>2. PICK rank \in Rankings : request'.found = Window(rank, skip, limit)
  BY FindManyTypes
<1> DEFINE W == Window(rank, skip, limit)
<1>3. skip \in Nat /\ limit \in Nat \ {0} /\ n \in Nat
  BY Offsets, Tallied
<1>4. W \in SUBSET listed /\ Cardinality(W) = Cardinality(OnPage(n, skip, limit))
  <2> HIDE DEF skip, limit
  <2> QED
    BY <1>3, WindowFillsThePage
<1>5. \A row \in listed : ~Tied(row) =>
          (row \in W <=> (skip <= Place(listed, row) /\ Place(listed, row) < skip + limit))
  <2> HIDE DEF skip, limit
  <2> QED
    BY <1>3, WindowByPlace DEF W
<1>6. walk.steady \subseteq listed /\ listed \subseteq Rows
      /\ walk.went \in Nat /\ request.late \in Nat
  BY <1>1 DEF Types, WalkOK, RequestOK
<1>7. P \in SUBSET Rows /\ Cardinality(P) \in Nat /\ Cardinality(P) <= walk.went
  <2>1. Read = walk.seen /\ Upto = skip
    BY <1>1, Offsets DEF Read
  <2> QED
    BY <1>1, <2>1, Tallied DEF Misses
<1>8. CASE W = NotYet
  <2>1. SameView
    BY <1>1, <1>2, <1>8 DEF SameView
  <2> QED
    BY <2>1, SameViewSameAccount
<1>9. CASE W # NotYet
  <2>1. Read' = walk.seen \cup W /\ Upto' = skip + limit /\ request'.found # NotYet
    BY <1>1, <1>2, <1>9 DEF Read, Upto
  <2> DEFINE U == {row \in walk.steady \ (walk.seen \cup W) : ~Tied(row)}
             Far == {row \in U : Place(listed, row) >= skip + limit}
  <2>2. Unshown' = U /\ U \subseteq listed
    BY <1>1, <1>6, <2>1, SameOrder
  <2>3. ASSUME NEW row \in U, Place(listed, row) < skip + limit PROVE row \in P
    <3>1. row \in listed /\ ~Tied(row) /\ row \notin W /\ row \in walk.steady \ walk.seen
      BY <2>2, <2>3
    <3>2. Place(listed, row) \in Nat
      BY <1>6, PlaceType
    <3> HIDE DEF skip, limit, W
    <3>3. Place(listed, row) < skip
      BY <1>3, <1>5, <2>3, <3>1, <3>2
    <3> QED
      BY <3>1, <3>3 DEF Passed
  <2>4. Cardinality(Passed(listed, walk.steady \ Read, Upto)') <= walk'.went
    <3>1. Passed(listed, walk.steady \ Read, Upto)'
              = Passed(listed, walk.steady \ (walk.seen \cup W), skip + limit)
      BY <1>1, <2>1, SameOrder
    <3>2. Passed(listed, walk.steady \ (walk.seen \cup W), skip + limit) \subseteq P
      BY <2>3 DEF Passed
    <3> HIDE DEF P, W, skip, limit
    <3>3. Cardinality(Passed(listed, walk.steady \ (walk.seen \cup W), skip + limit)) \in Nat
      BY <1>7, <3>2, SizeOfRows
    <3>4. Cardinality(Passed(listed, walk.steady \ (walk.seen \cup W), skip + limit))
              <= Cardinality(P)
      BY <1>7, <3>2, SmallerSize
    <3> QED
      BY <1>1, <1>6, <1>7, <3>1, <3>3, <3>4
  <2>5. U \in SUBSET Rows /\ Cardinality(U) \in Nat
    BY <1>6, <2>2, SizeOfRows
  <2>6. Cardinality(W) < limit => Cardinality(U) <= walk.went
    <3> SUFFICES ASSUME Cardinality(W) < limit PROVE Cardinality(U) <= walk.went
      OBVIOUS
    <3>1. n < skip + limit
      <4> SUFFICES ASSUME skip + limit <= n PROVE FALSE
        BY <1>3
      <4> HIDE DEF n, skip, limit, W
      <4>1. Cardinality(W) = limit
        BY <1>3, <1>4, FullPage
      <4> QED
        BY <1>3, <4>1
    <3>2. U \subseteq P
      <4> SUFFICES ASSUME NEW row \in U PROVE row \in P
        OBVIOUS
      <4>1. Place(listed, row) < n /\ Place(listed, row) \in Nat
        BY <1>6, <2>2, PlacesEnd, PlaceType
      <4>2. Place(listed, row) < skip + limit
        BY <1>3, <3>1, <4>1
      <4> QED
        BY <2>3, <4>2
    <3> HIDE DEF U, P
    <3>3. Cardinality(U) <= Cardinality(P)
      BY <1>7, <3>2, SmallerSize
    <3> QED
      BY <1>6, <1>7, <2>5, <3>3
  <2>7. ASSUME request.total # NotYet, request.total <= skip + limit
        PROVE  Cardinality(U) <= walk.went + request.late
    <3>1. n <= request.total + request.late /\ request.total \in Nat
      BY <1>1, <2>7 DEF Misses, Types, RequestOK
    <3>2. n <= (skip + limit) + request.late
      BY <1>3, <1>6, <2>7, <3>1
    <3>3. Far \in SUBSET listed /\ \A row \in Far : ~Tied(row) /\ Place(listed, row) >= skip + limit
      BY <2>2
    <3>4. Cardinality(Far) <= request.late
      <4> DEFINE m == skip + limit
      <4>1. m \in Nat
        BY <1>3
      <4> HIDE DEF m, Far
      <4> QED
        BY <1>6, <3>2, <3>3, <4>1, FarRows DEF m
    <3>5. U \subseteq P \cup Far
      <4> SUFFICES ASSUME NEW row \in U, row \notin Far PROVE row \in P
        OBVIOUS
      <4>1. Place(listed, row) \in Nat
        BY <1>6, PlaceType
      <4>2. Place(listed, row) < skip + limit
        BY <1>3, <4>1
      <4> QED
        BY <2>3, <4>2
    <3>6. P \intersect Far = {}
      <4> SUFFICES ASSUME NEW row \in P, row \in Far PROVE FALSE
        OBVIOUS
      <4>1. Place(listed, row) < skip /\ Place(listed, row) >= skip + limit
        BY DEF Passed
      <4>2. Place(listed, row) \in Nat
        BY <1>6, PlaceType
      <4> QED
        BY <1>3, <4>1, <4>2
    <3>7. Far \in SUBSET Rows /\ Cardinality(Far) \in Nat
      BY <1>6, <3>3, SizeOfRows
    <3> HIDE DEF U, P, Far
    <3>8. Cardinality(P \cup Far) = Cardinality(P) + Cardinality(Far)
      BY <1>7, <3>6, <3>7, SumOfSizes
    <3>9. Cardinality(U) <= Cardinality(P \cup Far)
      BY <1>7, <3>5, <3>7, SmallerSize
    <3> QED
      BY <1>6, <1>7, <2>5, <3>4, <3>7, <3>8, <3>9
  <2>8. Answered' => request.total # NotYet
    BY <1>1 DEF Answered
  <2> HIDE DEF U, W, skip, limit, P
  <2> QED
    BY <1>1, <1>2, <2>1, <2>2, <2>4, <2>6, <2>7, <2>8 DEF Misses, W, limit, skip
<1> QED
  BY <1>8, <1>9

LEMMA CountMisses ==
    ASSUME Types, Misses, Count
    PROVE  Misses'
<1>1. /\ Types' /\ UNCHANGED <<list, createdAt, listed, walk>>
      /\ ~walk.done /\ request.total = NotYet
      /\ request'.page = request.page /\ request'.limit = request.limit
      /\ request'.found = request.found
      /\ request'.late = request.late /\ request'.total = Cardinality(listed)
  BY CountTypes
<1>2. CASE Cardinality(listed) = NotYet
  <2>1. SameView
    BY <1>1, <1>2 DEF SameView
  <2> QED
    BY <2>1, SameViewSameAccount
<1>3. CASE Cardinality(listed) # NotYet
  <2>1. Read' = Read /\ Upto' = Upto
    BY <1>1 DEF Read, Upto
  <2>2. Passed(listed, walk.steady \ Read, Upto)' = Passed(listed, walk.steady \ Read, Upto)
        /\ Unshown' = Unshown
    BY <1>1, <2>1, SameOrder DEF Unshown
  <2>3. walk.steady \subseteq listed /\ listed \subseteq Rows
        /\ walk.went \in Nat /\ request.late \in Nat
    BY <1>1 DEF Types, WalkOK, RequestOK
  <2>4. ASSUME Cardinality(listed) <= Upto
        PROVE  Cardinality(Unshown) <= walk.went + request.late
    <3>1. Unshown \subseteq Passed(listed, walk.steady \ Read, Upto)
      <4> SUFFICES ASSUME NEW row \in Unshown PROVE Place(listed, row) < Upto
        BY DEF Unshown, Passed
      <4>1. Place(listed, row) < Cardinality(listed) /\ Place(listed, row) \in Nat
        BY <2>3, PlacesEnd, PlaceType DEF Unshown
      <4> QED
        BY <2>4, <4>1, Tallied, Offsets
    <3>2. Cardinality(Unshown) <= Cardinality(Passed(listed, walk.steady \ Read, Upto))
      BY <3>1, Tallied, SmallerSize
    <3>3. Cardinality(Passed(listed, walk.steady \ Read, Upto)) <= walk.went
      BY <1>1 DEF Misses
    <3> QED
      BY <2>3, <3>2, <3>3, Tallied
  <2>5. Cardinality(listed) <= Cardinality(listed) + request.late
    BY <2>3, Tallied
  <2> QED
    BY <1>1, <2>1, <2>2, <2>4, <2>5 DEF Misses
<1> QED
  BY <1>2, <1>3

LEMMA BeginMisses ==
    ASSUME Types, NEW until \in {"last", "short"}, NEW page \in Pages, NEW limit \in Limits,
           Begin(until, page, limit)
    PROVE  Misses' /\ Repeats'
<1>1. /\ Types' /\ UNCHANGED <<list, createdAt, listed>>
      /\ request'.page = page /\ request'.limit = limit
      /\ request'.found = NotYet /\ request'.total = NotYet
      /\ walk'.done = FALSE /\ walk'.seen = {} /\ walk'.repeats = 0
      /\ walk'.came = 0 /\ walk'.went = 0
      /\ walk'.steady = IF page = 1 THEN listed ELSE {}
  BY BeginTypes
<1>2. page \in Nat \ {0} /\ limit \in Nat \ {0}
  BY LimitsAssumption, LimitType
<1>3. Read' = {} /\ Twice' = {} /\ ~Answered'
  BY <1>1 DEF Read, Twice, Answered
<1>4. Upto' = (page - 1) * limit
  <2>1. Upto' = Skip(page, limit) + 0
    BY <1>1 DEF Upto
  <2> QED
    BY <1>2, <2>1 DEF Skip
<1>5. Passed(listed, walk.steady \ Read, Upto)' = {}
  <2>1. Passed(listed, walk.steady \ Read, Upto)' = Passed(listed, walk'.steady, Upto')
    BY <1>1, <1>3, SameOrder
  <2>2. CASE page = 1
    <3>1. Upto' = 0
      BY <1>2, <1>4, <2>2
    <3>2. \A row : Place(listed, row) \in Nat
      BY PlaceType DEF Types
    <3> QED
      BY <2>1, <3>1, <3>2 DEF Passed
  <2>3. CASE page # 1
    BY <1>1, <2>1, <2>3 DEF Passed
  <2> QED
    BY <2>2, <2>3
<1>6. Behind(listed, Read, Upto)' = {}
  BY <1>1, <1>3, SameOrder DEF Behind
<1>7. Cardinality({}) = 0
  BY FS_EmptySet
<1>8. Misses'
  BY <1>1, <1>3, <1>5, <1>7 DEF Misses
<1>9. Repeats'
  BY <1>1, <1>3, <1>6, <1>7 DEF Repeats
<1> QED
  BY <1>8, <1>9

LEMMA RespondMisses ==
    ASSUME Types, Misses, Respond
    PROVE  Misses'
<1>1. /\ Types' /\ UNCHANGED <<list, createdAt, listed>>
      /\ ~walk.done /\ request.found # NotYet /\ request.total # NotYet
      /\ walk'.done = IsLast /\ walk'.seen = walk.seen \cup request.found
      /\ walk'.went = walk.went /\ walk'.steady = walk.steady /\ walk'.until = walk.until
  BY RespondTypes
<1>2. Read = walk.seen \cup request.found
      /\ Upto = Skip(request.page, request.limit) + request.limit
  BY <1>1, Offsets DEF Read
<1>3. CASE IsLast
  <2>1. request' = request /\ walk'.done
    BY <1>1, <1>3, RespondTypes
  <2>2. {row \in walk.steady \ walk.seen : ~Tied(row)}' = Unshown
    BY <1>1, <1>2, SameOrder DEF Unshown
  <2>3. CASE walk.until = "last"
    <3>1. request.page >= TotalPages(request.total, request.limit)
      BY <1>3, <2>3 DEF IsLast
    <3>2. request.total \in Nat
      BY <1>1 DEF Types, RequestOK
    <3>3. request.total <= Upto
      BY <1>2, <3>1, <3>2, LastPageIsLast, Offsets
    <3>4. Cardinality(Unshown) <= walk.went + request.late
      BY <1>1, <3>3 DEF Misses, Answered
    <3> QED
      BY <1>1, <2>1, <2>2, <2>3, <3>4 DEF Misses
  <2>4. CASE walk.until = "short"
    <3>1. Cardinality(request.found) < request.limit
      BY <1>3, <2>4 DEF IsLast
    <3>2. Cardinality(Unshown) <= walk.went + 0
      BY <1>1, <3>1 DEF Misses, Types, WalkOK
    <3> QED
      BY <1>1, <2>1, <2>2, <2>4, <3>2 DEF Misses
  <2> QED
    BY <2>3, <2>4 DEF Types, WalkOK
<1>4. CASE ~IsLast
  <2>1. /\ request'.page = request.page + 1 /\ request'.limit = request.limit
        /\ request'.found = NotYet /\ request'.total = NotYet
    BY <1>4, RespondTypes
  <2>2. Read' = Read /\ ~Answered' /\ ~walk'.done
    BY <1>1, <1>2, <1>4, <2>1 DEF Read, Answered
  <2>3. Upto' = Upto
    <3>1. Upto' = Skip(request.page + 1, request.limit) + 0
      BY <2>1 DEF Upto
    <3> QED
      BY <1>2, <3>1, NextOffset, Offsets
  <2>4. Passed(listed, walk.steady \ Read, Upto)' = Passed(listed, walk.steady \ Read, Upto)
    BY <1>1, <2>2, <2>3, SameOrder
  <2> QED
    BY <1>1, <2>1, <2>2, <2>4 DEF Misses
<1> QED
  BY <1>3, <1>4

LEMMA EnterRepeats ==
    ASSUME Types, Repeats, NEW row \in Rows, Enter(row)
    PROVE  Repeats'
<1>1. Types' /\ Written(1, 0) /\ row \in Rows \ listed /\ listed' = listed \cup {row}
  BY EnterTypes
<1>2. CASE walk.done
  BY <1>1, <1>2, DoneSameAccount DEF Written
<1>3. CASE ~walk.done
  <2> SUFFICES ASSUME NoTies'
               PROVE  walk'.repeats + Cardinality(Twice')
                          + Cardinality(Behind(listed, Read, Upto)') <= walk'.came
    BY <1>1, <1>3, WrittenView DEF Repeats
  <2>1. NoTies /\ Read' = Read /\ Upto' = Upto /\ Twice' = Twice
    BY <1>1, <1>3, WrittenView, SameOrder DEF Written
  <2>2. Behind(listed, Read, Upto)' = Behind(listed \cup {row}, Read, Upto)
    BY <1>1, <2>1, SameOrder DEF Written
  <2>3. Cardinality(Behind(listed \cup {row}, Read, Upto))
            <= Cardinality(Behind(listed, Read, Upto)) + 1
    BY <1>1, <2>1, BehindAfterArrival, Offsets DEF Types
  <2>4. walk'.repeats = walk.repeats /\ walk'.came = walk.came + 1
        /\ walk.repeats \in Nat /\ walk.came \in Nat
    BY <1>1, <1>3 DEF Written, Types, WalkOK
  <2>5. walk.repeats + Cardinality(Twice) + Cardinality(Behind(listed, Read, Upto)) <= walk.came
    BY <1>3, <2>1 DEF Repeats
  <2>6. Cardinality(Behind(listed \cup {row}, Read, Upto)) \in Nat
    <3>1. Behind(listed \cup {row}, Read, Upto) \in SUBSET Rows
      BY Offsets DEF Behind
    <3> QED
      BY <3>1, SizeOfRows
  <2> QED
    BY <2>1, <2>2, <2>3, <2>4, <2>5, <2>6, Tallied
<1> QED
  BY <1>2, <1>3

LEMMA LeaveRepeats ==
    ASSUME Types, Repeats, NEW row \in Rows, Leave(row)
    PROVE  Repeats'
<1>1. Types' /\ Written(0, 1) /\ row \in listed /\ listed' = listed \ {row}
  BY LeaveTypes
<1>2. CASE walk.done
  BY <1>1, <1>2, DoneSameAccount DEF Written
<1>3. CASE ~walk.done
  <2> SUFFICES ASSUME NoTies'
               PROVE  walk'.repeats + Cardinality(Twice')
                          + Cardinality(Behind(listed, Read, Upto)') <= walk'.came
    BY <1>1, <1>3, WrittenView DEF Repeats
  <2>1. NoTies /\ Read' = Read /\ Upto' = Upto /\ Twice' = Twice
    BY <1>1, <1>3, WrittenView, SameOrder DEF Written
  <2>2. Behind(listed, Read, Upto)' = Behind(listed \ {row}, Read, Upto)
    BY <1>1, <2>1, SameOrder DEF Written
  <2>3. Behind(listed \ {row}, Read, Upto) \subseteq Behind(listed, Read, Upto)
    BY <1>1, BehindAfterDeparture, Offsets DEF Types
  <2>4. walk'.repeats = walk.repeats /\ walk'.came = walk.came
        /\ walk.repeats \in Nat /\ walk.came \in Nat
    BY <1>1, <1>3 DEF Written, Types, WalkOK
  <2>5. walk.repeats + Cardinality(Twice) + Cardinality(Behind(listed, Read, Upto)) <= walk.came
    BY <1>3, <2>1 DEF Repeats
  <2>6. Cardinality(Behind(listed \ {row}, Read, Upto)) \in Nat
        /\ Cardinality(Behind(listed \ {row}, Read, Upto))
              <= Cardinality(Behind(listed, Read, Upto))
    BY <2>3, Tallied, SizeOfRows, SmallerSize
  <2> QED
    BY <2>1, <2>2, <2>4, <2>5, <2>6, Tallied
<1> QED
  BY <1>2, <1>3

LEMMA FindManyRepeats ==
    ASSUME Types, Repeats, FindMany
    PROVE  Repeats'
<1> DEFINE skip == Skip(request.page, request.limit)
           limit == request.limit
<1>1. /\ Types' /\ UNCHANGED <<list, createdAt, listed, walk>>
      /\ ~walk.done /\ request.found = NotYet
      /\ request'.page = request.page /\ request'.limit = request.limit
      /\ request'.total = request.total /\ request'.late = request.late
  BY FindManyTypes
<1>2. PICK rank \in Rankings : request'.found = Window(rank, skip, limit)
  BY FindManyTypes
<1> DEFINE W == Window(rank, skip, limit)
<1>3. skip \in Nat /\ limit \in Nat \ {0}
  BY Offsets
<1>4. CASE W = NotYet
  <2>1. SameView
    BY <1>1, <1>2, <1>4 DEF SameView
  <2> QED
    BY <2>1, SameViewSameAccount
<1>5. CASE W # NotYet
  <2> DEFINE T == W \intersect walk.seen
             B == Behind(listed, walk.seen, skip)
             C == Behind(listed, walk.seen \cup W, skip + limit)
  <2> SUFFICES ASSUME NoTies'
               PROVE  walk'.repeats + Cardinality(Twice')
                          + Cardinality(Behind(listed, Read, Upto)') <= walk'.came
    BY <1>1 DEF Repeats
  <2>1. Read' = walk.seen \cup W /\ Upto' = skip + limit /\ Twice' = T
    BY <1>1, <1>2, <1>5 DEF Read, Upto, Twice
  <2>2. Behind(listed, Read, Upto)' = C /\ NoTies
    BY <1>1, <2>1, SameOrder
  <2>3. ASSUME NEW row \in listed
        PROVE  row \in W <=> (skip <= Place(listed, row) /\ Place(listed, row) < skip + limit)
    <3>1. ~Tied(row)
      BY <2>2, <2>3 DEF NoTies, Types
    <3> HIDE DEF skip, limit
    <3> QED
      BY <1>3, <2>3, <3>1, WindowByPlace DEF W
  <2>4. W \in SUBSET listed
    <3> HIDE DEF skip, limit
    <3> QED
      BY <1>3, WindowFillsThePage DEF W
  <2>5. T \cup C \subseteq B
    <3>1. T \subseteq B
      BY <2>3, <2>4 DEF Behind
    <3>2. ASSUME NEW row \in C PROVE row \in B
      <4>1. row \in walk.seen \cup W /\ row \in listed /\ Place(listed, row) >= skip + limit
        BY <3>2 DEF Behind
      <4>2. Place(listed, row) \in Nat
        BY PlaceType DEF Types
      <4> HIDE DEF skip, limit, W
      <4>3. row \notin W /\ Place(listed, row) >= skip
        BY <1>3, <2>3, <4>1, <4>2
      <4> QED
        BY <4>1, <4>3 DEF Behind
    <3> QED
      BY <3>1, <3>2
  <2>6. T \intersect C = {}
    <3> SUFFICES ASSUME NEW row \in T, row \in C PROVE FALSE
      OBVIOUS
    <3>1. row \in W /\ row \in listed /\ Place(listed, row) >= skip + limit
      BY DEF Behind
    <3>2. Place(listed, row) \in Nat
      BY PlaceType DEF Types
    <3> HIDE DEF skip, limit, W, T, C
    <3> QED
      BY <1>3, <2>3, <3>1, <3>2
  <2>7. Read = walk.seen /\ Upto = skip /\ Twice = {}
    BY <1>1, Offsets DEF Read, Twice
  <2>8. B \in SUBSET Rows /\ Cardinality(B) \in Nat
    BY <2>7, Tallied
  <2>9. walk.repeats + Cardinality(B) <= walk.came
    <3>1. walk.repeats + Cardinality({}) + Cardinality(B) <= walk.came
      BY <1>1, <2>2, <2>7 DEF Repeats
    <3>2. Cardinality({}) = 0 /\ walk.repeats \in Nat
      BY FS_EmptySet DEF Types, WalkOK
    <3> QED
      BY <2>8, <3>1, <3>2
  <2> HIDE DEF T, B, C
  <2>10. /\ T \in SUBSET Rows /\ C \in SUBSET Rows /\ T \cup C \in SUBSET B
         /\ Cardinality(T) \in Nat /\ Cardinality(C) \in Nat
    BY <2>5, <2>8, SizeOfRows
  <2>11. Cardinality(T) + Cardinality(C) <= Cardinality(B)
    <3>1. Cardinality(T \cup C) = Cardinality(T) + Cardinality(C)
      BY <2>6, <2>10, SumOfSizes
    <3>2. Cardinality(T \cup C) <= Cardinality(B)
      BY <2>8, <2>10, SmallerSize
    <3> QED
      BY <3>1, <3>2
  <2>12. walk'.repeats = walk.repeats /\ walk'.came = walk.came
         /\ walk.repeats \in Nat /\ walk.came \in Nat
    BY <1>1 DEF Types, WalkOK
  <2> QED
    BY <2>1, <2>2, <2>8, <2>9, <2>10, <2>11, <2>12
<1> QED
  BY <1>4, <1>5

LEMMA CountRepeats ==
    ASSUME Types, Repeats, Count
    PROVE  Repeats'
<1>1. /\ UNCHANGED <<list, createdAt, listed, walk>>
      /\ request'.page = request.page /\ request'.limit = request.limit
      /\ request'.found = request.found
  BY CountTypes
<1>2. Read' = Read /\ Upto' = Upto /\ Twice' = Twice
  BY <1>1 DEF Read, Upto, Twice
<1>3. Behind(listed, Read, Upto)' = Behind(listed, Read, Upto) /\ (NoTies' <=> NoTies)
  BY <1>1, <1>2, SameOrder
<1> QED
  BY <1>1, <1>2, <1>3 DEF Repeats

LEMMA RespondRepeats ==
    ASSUME Types, Repeats, Respond
    PROVE  Repeats'
<1>1. /\ UNCHANGED <<list, createdAt, listed>>
      /\ ~walk.done /\ request.found # NotYet
      /\ walk'.done = IsLast /\ walk'.seen = walk.seen \cup request.found
      /\ walk'.repeats = walk.repeats + Cardinality(request.found \intersect walk.seen)
      /\ walk'.came = walk.came
  BY RespondTypes
<1> SUFFICES ASSUME NoTies'
             PROVE  IF walk'.done THEN walk'.repeats <= walk'.came
                    ELSE walk'.repeats + Cardinality(Twice')
                             + Cardinality(Behind(listed, Read, Upto)') <= walk'.came
  BY DEF Repeats
<1>2. NoTies
  BY <1>1, SameOrder
<1>3. walk'.repeats = walk.repeats + Cardinality(Twice) /\ walk.repeats \in Nat /\ walk.came \in Nat
  BY <1>1 DEF Twice, Types, WalkOK
<1>4. walk'.repeats + Cardinality(Behind(listed, Read, Upto)) <= walk.came
  BY <1>1, <1>2, <1>3, Tallied DEF Repeats
<1>5. CASE walk'.done
  BY <1>1, <1>3, <1>4, <1>5, Tallied
<1>6. CASE ~walk'.done
  <2>1. /\ request'.page = request.page + 1 /\ request'.limit = request.limit
        /\ request'.found = NotYet
    BY <1>1, <1>6, RespondTypes
  <2>2. Read' = Read /\ Twice' = {}
    BY <1>1, <2>1 DEF Read, Twice
  <2>3. Upto' = Upto
    <3>1. Upto' = Skip(request.page + 1, request.limit) + 0
      BY <2>1 DEF Upto
    <3> QED
      BY <1>1, <3>1, NextOffset, Offsets
  <2>4. Behind(listed, Read, Upto)' = Behind(listed, Read, Upto)
    BY <1>1, <2>2, <2>3, SameOrder
  <2>5. Cardinality(Twice') = 0
    BY <2>2, FS_EmptySet
  <2> QED
    BY <1>1, <1>3, <1>4, <1>6, <2>4, <2>5, Tallied
<1> QED
  BY <1>5, <1>6

-----------------------------------------------------------------------------
(* The two answers of a page, action by action.                              *)
LEMMA WrittenCut ==
    ASSUME Types, Cut, NEW in, NEW out, Written(in, out)
    PROVE  Cut'
<1>1. CASE walk.done
  <2>1. UNCHANGED <<request, walk>> /\ ~Half
    BY <1>1 DEF Written, Cut
  <2>2. ~Half' /\ (Answered' <=> Answered)
    BY <2>1 DEF Half, Answered
  <2> QED
    BY <2>1, <2>2 DEF Cut, PageSize
<1>2. CASE ~walk.done
  <2>1. /\ walk'.done = FALSE
        /\ request'.page = request.page /\ request'.limit = request.limit
        /\ request'.found = request.found /\ request'.total = request.total
        /\ request'.changed = (request.changed \/ Half)
    BY <1>2 DEF Written
  <2>2. (Half' <=> Half) /\ (Answered' <=> Answered)
    BY <2>1 DEF Half, Answered
  <2> QED
    BY <2>1, <2>2 DEF Cut, PageSize
<1> QED
  BY <1>1, <1>2

LEMMA FindManyCut ==
    ASSUME Types, Cut, FindMany
    PROVE  Cut'
<1> DEFINE skip == Skip(request.page, request.limit)
           limit == request.limit
<1>1. /\ UNCHANGED <<list, createdAt, listed, walk>>
      /\ ~walk.done /\ request.found = NotYet
      /\ request'.page = request.page /\ request'.limit = request.limit
      /\ request'.total = request.total /\ request'.changed = request.changed
  BY FindManyTypes
<1>2. PICK rank \in Rankings : request'.found = Window(rank, skip, limit)
  BY FindManyTypes
<1>3. Cardinality(Window(rank, skip, limit)) = PageSize(Cardinality(listed))
  <2>1. skip \in Nat /\ limit \in Nat
    BY Offsets
  <2> HIDE DEF skip, limit
  <2>2. Cardinality(Window(rank, skip, limit))
            = Cardinality(OnPage(Cardinality(listed), skip, limit))
    BY <2>1, WindowFillsThePage
  <2> QED
    BY <2>2 DEF PageSize, skip, limit
<1> HIDE DEF skip, limit
<1>4. CASE request'.found = NotYet
  <2>1. (Half' <=> Half) /\ (Answered' <=> Answered)
    BY <1>1, <1>4 DEF Half, Answered
  <2> QED
    BY <1>1, <1>4, <2>1 DEF Cut, PageSize
<1>5. CASE request'.found # NotYet
  <2>1. Cardinality(request'.found) = PageSize(Cardinality(listed))
    BY <1>2, <1>3
  <2>2. CASE request.total = NotYet
    <3>1. ~Answered'
      BY <1>1, <2>2 DEF Answered
    <3> QED
      BY <1>1, <2>1, <2>2, <3>1 DEF Cut, PageSize
  <2>3. CASE request.total # NotYet
    <3>1. Half /\ ~Half'
      BY <1>1, <1>5, <2>3 DEF Half
    <3>2. ~request.changed => request.total = Cardinality(listed)
      BY <2>3, <3>1 DEF Cut
    <3>3. ~request'.changed => Cardinality(request'.found) = PageSize(request.total)
      BY <1>1, <2>1, <3>2
    <3> QED
      BY <1>1, <3>1, <3>3 DEF Cut, PageSize
  <2> QED
    BY <2>2, <2>3
<1> QED
  BY <1>4, <1>5

LEMMA CountCut ==
    ASSUME Types, Cut, Count
    PROVE  Cut'
<1>1. /\ UNCHANGED <<list, createdAt, listed, walk>>
      /\ ~walk.done /\ request.total = NotYet
      /\ request'.page = request.page /\ request'.limit = request.limit
      /\ request'.found = request.found /\ request'.changed = request.changed
      /\ request'.total = Cardinality(listed)
  BY CountTypes
<1>2. CASE request'.total = NotYet
  <2>1. (Half' <=> Half) /\ (Answered' <=> Answered)
    BY <1>1, <1>2 DEF Half, Answered
  <2> QED
    BY <1>1, <1>2, <2>1 DEF Cut, PageSize
<1>3. CASE request'.total # NotYet
  <2>1. CASE request.found = NotYet
    <3>1. ~Answered'
      BY <1>1, <2>1 DEF Answered
    <3> QED
      BY <1>1, <2>1, <3>1 DEF Cut, PageSize
  <2>2. CASE request.found # NotYet
    <3>1. Half /\ ~Half'
      BY <1>1, <1>3, <2>2 DEF Half
    <3>2. ~request.changed => Cardinality(request.found) = PageSize(Cardinality(listed))
      BY <2>2, <3>1 DEF Cut
    <3> QED
      BY <1>1, <3>1, <3>2 DEF Cut, PageSize
  <2> QED
    BY <2>1, <2>2
<1> QED
  BY <1>2, <1>3

LEMMA BeginCut ==
    ASSUME Types, NEW until \in {"last", "short"}, NEW page \in Pages, NEW limit \in Limits,
           Begin(until, page, limit)
    PROVE  Cut'
<1>1. request'.found = NotYet /\ request'.total = NotYet /\ walk'.done = FALSE
  BY BeginTypes
<1>2. ~Half' /\ ~Answered'
  BY <1>1 DEF Half, Answered
<1> QED
  BY <1>1, <1>2 DEF Cut

LEMMA RespondCut ==
    ASSUME Types, Cut, Respond
    PROVE  Cut'
<1>1. request.found # NotYet /\ request.total # NotYet /\ walk'.done = IsLast
  BY RespondTypes
<1>2. CASE IsLast
  <2>1. request' = request
    BY <1>2, RespondTypes
  <2>2. ~Half' /\ (Answered' <=> Answered)
    BY <1>1, <2>1 DEF Half, Answered
  <2> QED
    BY <2>1, <2>2 DEF Cut, PageSize
<1>3. CASE ~IsLast
  <2>1. request'.found = NotYet /\ request'.total = NotYet
    BY <1>3, RespondTypes
  <2>2. ~Half' /\ ~Answered'
    BY <2>1 DEF Half, Answered
  <2> QED
    BY <1>1, <2>2 DEF Cut
<1> QED
  BY <1>2, <1>3

-----------------------------------------------------------------------------
(* The invariant holds at first and is kept by every step.                   *)
LEMMA InitIInv == Init => IInv
<1> SUFFICES ASSUME Init PROVE IInv
  OBVIOUS
<1>1. request = [page |-> 1, limit |-> 1, found |-> NotYet, total |-> NotYet,
                 changed |-> FALSE, late |-> 0]
  BY DEF Init, Request
<1>2. walk = [until |-> "short", steady |-> {}, seen |-> {}, repeats |-> 0,
              came |-> 0, went |-> 0, done |-> TRUE]
  BY DEF Init, Walk
<1>3. RequestOK
  <2>1. NotYet \in (SUBSET Rows) \cup {NotYet} /\ NotYet \in 0..Cardinality(Rows) \cup {NotYet}
    OBVIOUS
  <2>2. request \in [page : Nat \ {0}, limit : Limits \cup {1},
                     found : (SUBSET Rows) \cup {NotYet},
                     total : 0..Cardinality(Rows) \cup {NotYet}, changed : BOOLEAN, late : Nat]
    BY <1>1, <2>1
  <2>3. request.found = NotYet
    BY <1>1
  <2> QED
    BY <2>2, <2>3 DEF RequestOK
<1>4. WalkOK
  BY <1>2 DEF WalkOK
<1>5. Types
  BY <1>3, <1>4 DEF Init, Types
<1>6. walk.done /\ walk.steady = {} /\ walk.repeats = 0 /\ walk.came = 0 /\ walk.went = 0
      /\ request.late = 0
  BY <1>1, <1>2
<1>7. ~Half /\ ~Answered
  BY <1>1 DEF Half, Answered
<1>8. Cut
  BY <1>7 DEF Cut
<1>9. Misses
  <2>1. {row \in walk.steady \ walk.seen : ~Tied(row)} = {}
    BY <1>6
  <2> QED
    BY <1>6, <2>1, FS_EmptySet DEF Misses
<1>10. Repeats
  BY <1>6 DEF Repeats
<1> QED
  BY <1>5, <1>8, <1>9, <1>10 DEF IInv

LEMMA StepIInv == IInv /\ [Next]_vars => IInv'
<1> SUFFICES ASSUME IInv, [Next]_vars PROVE IInv'
  OBVIOUS
<1> USE DEF IInv
<1>1. ASSUME NEW row \in Rows, Enter(row) PROVE IInv'
  BY <1>1, EnterTypes, WrittenCut, EnterMisses, EnterRepeats
<1>2. ASSUME NEW row \in Rows, Leave(row) PROVE IInv'
  BY <1>2, LeaveTypes, WrittenCut, LeaveMisses, LeaveRepeats
<1>3. ASSUME NEW until \in {"last", "short"}, NEW page \in Pages, NEW limit \in Limits,
             Begin(until, page, limit)
      PROVE  IInv'
  BY <1>3, BeginTypes, BeginCut, BeginMisses
<1>4. CASE FindMany
  BY <1>4, FindManyTypes, FindManyCut, FindManyMisses, FindManyRepeats
<1>5. CASE Count
  BY <1>5, CountTypes, CountCut, CountMisses, CountRepeats
<1>6. CASE Respond
  BY <1>6, RespondTypes, RespondCut, RespondMisses, RespondRepeats
<1>7. CASE UNCHANGED vars
  <2>1. UNCHANGED <<list, createdAt, listed, request, walk>>
    BY <1>7 DEF vars
  <2>2. SameView
    BY <2>1 DEF SameView
  <2>3. Types'
    BY <2>1 DEF Types, RequestOK, WalkOK
  <2>4. Cut'
    BY <2>1 DEF Cut, Half, Answered, PageSize
  <2> QED
    BY <2>2, <2>3, <2>4, SameViewSameAccount
<1> QED
  BY <1>1, <1>2, <1>3, <1>4, <1>5, <1>6, <1>7 DEF Next

(* The types and the accounts above, in every reachable state.               *)
THEOREM Inductive == Spec => []IInv
BY InitIInv, StepIInv, PTL DEF Spec

(* A page is no larger than was asked for, a total no larger than the table,  *)
(* and what a walk counts on stays listed.                                   *)
THEOREM TypeCorrect == Spec => []TypeOK
<1>1. IInv => TypeOK
  BY DEF IInv, Types, RequestOK, WalkOK, TypeOK
<1> QED
  BY <1>1, Inductive, PTL

(* A walk from the first page misses no more rows than left meanwhile, or     *)
(* came after the total it trusts, and repeats no more than came: the audit   *)
(* log, where nothing leaves, is read completely.                            *)
THEOREM WalksShowEachRowOnceHolds == Spec => []WalksShowEachRowOnce
<1>1. IInv => WalksShowEachRowOnce
  <2> SUFFICES ASSUME IInv PROVE WalksShowEachRowOnce
    OBVIOUS
  <2>1. walk.done =>
            Cardinality({row \in walk.steady \ walk.seen : ~Tied(row)})
                <= walk.went + (IF walk.until = "last" THEN request.late ELSE 0)
    BY DEF IInv, Misses
  <2>2. ASSUME NoTies PROVE walk.repeats <= walk.came
    <3>1. Types /\ walk.repeats \in Nat /\ walk.came \in Nat
      BY DEF IInv, Types, WalkOK
    <3>2. CASE walk.done
      BY <2>2, <3>2 DEF IInv, Repeats
    <3>3. CASE ~walk.done
      <4>1. walk.repeats + Cardinality(Twice) + Cardinality(Behind(listed, Read, Upto)) <= walk.came
        BY <2>2, <3>3 DEF IInv, Repeats
      <4> QED
        BY <3>1, <4>1, Tallied
    <3> QED
      BY <3>2, <3>3
  <2> QED
    BY <2>1, <2>2 DEF WalksShowEachRowOnce, NoTies
<1> QED
  BY <1>1, Inductive, PTL

(* The page of a place: the places of one page are a run of that many.        *)
LEMMA PageOfPlace ==
    ASSUME NEW limit \in Nat \ {0}, NEW place \in Nat \ {0}, NEW page \in Nat \ {0}
    PROVE  /\ PageOf(place, limit) \in Nat \ {0}
           /\ PageOf(place, limit) = page
                 <=> (Skip(page, limit) < place /\ place <= Skip(page, limit) + limit)
<1> DEFINE a == place - 1
           q == a \div limit
           p == page - 1
<1>1. a \in Nat /\ p \in Nat
  OBVIOUS
<1>2. q \in Nat /\ limit * q <= a /\ a < limit * q + limit
  <2> HIDE DEF a
  <2> QED
    BY <1>1, QuotientBounds
<1>3. PageOf(place, limit) = q + 1 /\ Skip(page, limit) = limit * p
  BY <1>1 DEF PageOf, Skip
<1> HIDE DEF q, p
<1>4. limit * p \in Int /\ limit * q \in Int
  BY <1>1, <1>2, Product
<1>5. q < p => limit * q + limit <= limit * p
  BY <1>1, <1>2, ProductsGrow
<1>6. p < q => limit * p + limit <= limit * q
  BY <1>1, <1>2, ProductsGrow
<1>7. q = p <=> (limit * p <= a /\ a < limit * p + limit)
  BY <1>1, <1>2, <1>4, <1>5, <1>6
<1>8. q = p <=> PageOf(place, limit) = page
  BY <1>2, <1>3 DEF p
<1> QED
  BY <1>2, <1>3, <1>4, <1>7, <1>8

LEMMA TotalPagesIsLastPage ==
    ASSUME NEW limit \in Nat \ {0}, NEW total \in Nat
    PROVE  /\ total = 0 => TotalPages(total, limit) = 1
           /\ total # 0 => TotalPages(total, limit) = PageOf(total, limit)
<1> DEFINE n == total + limit - 1
           q == n \div limit
<1>1. q \in Nat /\ limit * q <= n /\ n < limit * q + limit
  <2>1. n \in Nat
    OBVIOUS
  <2> HIDE DEF n
  <2> QED
    BY <2>1, QuotientBounds
<1>2. TotalPages(total, limit) = IF q < 1 THEN 1 ELSE q
  BY DEF TotalPages, AtLeastOne
<1> HIDE DEF q
<1>3. ASSUME 1 < q PROVE limit * 1 + limit <= limit * q
  BY <1>1, <1>3, ProductsGrow
<1>4. CASE total = 0
  <2>1. ~(1 <= q)
    BY <1>1, <1>3, <1>4
  <2> QED
    BY <1>1, <1>2, <1>4, <2>1
<1>5. CASE total # 0
  <2>1. q # 0
    BY <1>1, <1>5
  <2>2. Skip(q, limit) = limit * q - limit
    BY <1>1 DEF Skip
  <2>3. limit * q \in Int
    BY <1>1, Product
  <2>4. Skip(q, limit) < total /\ total <= Skip(q, limit) + limit
    BY <1>1, <2>2, <2>3
  <2>5. PageOf(total, limit) = q
    BY <1>1, <1>5, <2>1, <2>4, PageOfPlace
  <2> QED
    BY <1>1, <1>2, <1>5, <2>1, <2>5
<1> QED
  BY <1>4, <1>5

LEMMA PagesGrow ==
    ASSUME NEW limit \in Nat \ {0}, NEW j \in Nat \ {0}, NEW k \in Nat \ {0}, j <= k
    PROVE  PageOf(j, limit) <= PageOf(k, limit)
<1> DEFINE p == PageOf(j, limit)
           q == PageOf(k, limit)
<1>1. p \in Nat \ {0} /\ q \in Nat \ {0}
  BY PageOfPlace
<1>2. Skip(p, limit) < j /\ k <= Skip(q, limit) + limit
  BY <1>1, PageOfPlace
<1> HIDE DEF p, q
<1>3. Skip(p, limit) = limit * p - limit /\ Skip(q, limit) = limit * q - limit
      /\ limit * p \in Int /\ limit * q \in Int
  BY <1>1 DEF Skip
<1>4. q < p => limit * q + limit <= limit * p
  BY <1>1, ProductsGrow
<1>5. p <= q
  BY <1>1, <1>2, <1>3, <1>4
<1> QED
  BY <1>5 DEF p, q

(* The rows and the number of pages of an answer describe one cut of the list *)
(* into pages, unless the list was written between its two queries.          *)
THEOREM MetaFitsThePageHolds == Spec => []MetaFitsThePage
<1>1. IInv => MetaFitsThePage
  <2> SUFFICES ASSUME IInv, Answered, ~request.changed PROVE MetaFitsThePage
    BY DEF MetaFitsThePage
  <2> DEFINE total == request.total
             limit == request.limit
             page == request.page
             last == TotalPages(total, limit)
             places == 1..total
             pages == {PageOf(k, limit) : k \in places} \cup {1}
  <2>1. total \in Nat /\ limit \in Nat \ {0} /\ page \in Nat \ {0}
    BY Offsets DEF IInv, Answered, Types, RequestOK
  <2>2. Cardinality(request.found) = Cardinality({k \in places : PageOf(k, limit) = page})
    <3>1. Cardinality(request.found) = Cardinality(OnPage(total, Skip(page, limit), limit))
      BY DEF IInv, Cut, PageSize
    <3>2. Skip(page, limit) \in Nat
      BY Offsets DEF IInv
    <3>3. ASSUME NEW k \in places
          PROVE  PageOf(k, limit) = page
                    <=> k \in (Skip(page, limit) + 1)..(Skip(page, limit) + limit)
      <4>1. k \in Nat \ {0}
        BY <2>1, <3>3
      <4> HIDE DEF total, limit, page, places
      <4>2. PageOf(k, limit) = page
               <=> (Skip(page, limit) < k /\ k <= Skip(page, limit) + limit)
        BY <2>1, <4>1, PageOfPlace
      <4> QED
        BY <2>1, <3>2, <4>1, <4>2
    <3>4. OnPage(total, Skip(page, limit), limit) = {k \in places : PageOf(k, limit) = page}
      BY <3>3 DEF OnPage
    <3> QED
      BY <3>1, <3>4
  <2> HIDE DEF total, limit, page
  <2>3. last \in pages
    <3>1. CASE total = 0
      BY <2>1, <3>1, TotalPagesIsLastPage
    <3>2. CASE total # 0
      <4>1. total \in places
        BY <2>1, <3>2
      <4>2. last = PageOf(total, limit)
        BY <2>1, <3>2, TotalPagesIsLastPage
      <4> HIDE DEF places
      <4> QED
        BY <4>1, <4>2
    <3> QED
      BY <3>1, <3>2
  <2>4. ASSUME NEW p \in pages PROVE p <= last
    <3>1. CASE total = 0
      <4>1. places = {}
        BY <2>1, <3>1
      <4>2. p = 1
        BY <2>4, <4>1
      <4>3. last = 1
        BY <2>1, <3>1, TotalPagesIsLastPage
      <4> QED
        BY <4>2, <4>3
    <3>2. CASE total # 0
      <4>1. last = PageOf(total, limit) /\ last \in Nat \ {0}
        BY <2>1, <3>2, TotalPagesIsLastPage, PageOfPlace
      <4>2. CASE p = 1
        BY <4>1, <4>2
      <4>3. ASSUME NEW k \in places, p = PageOf(k, limit) PROVE p <= last
        <5>1. k \in Nat \ {0} /\ k <= total /\ total \in Nat \ {0}
          BY <2>1, <4>3
        <5> HIDE DEF last, places
        <5> QED
          BY <2>1, <4>1, <4>3, <5>1, PagesGrow
      <4> QED
        BY <2>4, <4>2, <4>3
    <3> QED
      BY <3>1, <3>2
  <2> QED
    BY <2>2, <2>3, <2>4 DEF MetaFitsThePage, total, limit, page
<1> QED
  BY <1>1, Inductive, PTL
=============================================================================
