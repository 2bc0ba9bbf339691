--------------------------- MODULE Screens_proofs ---------------------------
(***************************************************************************)
(* What the screens show, for every size of every set, any number of moves *)
(* and any interleaving of reads and edits.  First the pages of a register *)
(* fit together and the selection stays on them: a set of rows has one     *)
(* listing in the register's order; what lies past a cursor is the rest of *)
(* that listing; so a page read from the same ledger continues the ones    *)
(* before it.  Then the projections: what is shown is what was asked last, *)
(* and what has gone stale is asked for again.  Last the intents: what was *)
(* typed is not lost, and what is offered is done.  At the end the window  *)
(* that shows them: what it leaves behind when it closes.                  *)
(***************************************************************************)
EXTENDS RegisterPages, ViewQueries, Intents, SessionLifecycle, SequenceTheorems, SetLemmas

-----------------------------------------------------------------------------
(* The order of a register *)

Tables == {t \in UNION {[ids -> Int] : ids \in SUBSET Nat} : IsFiniteSet(DOMAIN t)}

\* A table has finitely many rows, each with its date.
LEMMA TableShape ==
  ASSUME NEW t \in Tables
  PROVE  /\ IsFiniteSet(DOMAIN t) /\ DOMAIN t \subseteq Nat
         /\ t = [r \in DOMAIN t |-> t[r]]
         /\ \A r \in DOMAIN t : t[r] \in Int
BY DEF Tables

Before(t, r, s) == Newer(Key(t, r), Key(t, s))

\* Two rows come in one order, and never in both.
LEMMA BeforeIsOrder ==
  ASSUME NEW t \in Tables
  PROVE  /\ \A r, s \in DOMAIN t : Before(t, r, s) \/ Before(t, s, r) \/ r = s
         /\ \A r, s \in DOMAIN t : ~(Before(t, r, s) /\ Before(t, s, r))
         /\ \A r, s, u \in DOMAIN t : Before(t, r, s) /\ Before(t, s, u) => Before(t, r, u)
<1>1. \A r \in DOMAIN t : r \in Nat /\ t[r] \in Int
  BY TableShape
<1>2. \A r, s \in DOMAIN t : Before(t, r, s) <=> (t[r] > t[s] \/ (t[r] = t[s] /\ r > s))
  BY DEF Before, Newer, Key
<1> QED
  BY <1>1, <1>2

\* A set of rows has an oldest one.
LEMMA OldestExists ==
  ASSUME NEW t \in Tables, NEW ids \in SUBSET DOMAIN t, ids # {}
  PROVE  \E r \in ids : \A s \in ids \ {r} : Before(t, s, r)
<1>1. IsFiniteSet(ids) /\ \A r \in ids : r \in Int /\ t[r] \in Int
  BY TableShape, FS_Subset
<1> DEFINE dates == {t[r] : r \in ids}
<1>2. IsFiniteSet(dates) /\ dates \subseteq Int /\ dates # {}
  <2>1. [r \in ids |-> t[r]] \in Surjection(ids, dates)
    BY DEF Surjection
  <2>2. IsFiniteSet(dates)
    BY <1>1, <2>1, FS_Surjection
  <2> QED
    BY <1>1, <2>2
<1>3. PICK d \in dates : \A e \in dates : d <= e
  <2> HIDE DEF dates
  <2> QED
    BY <1>2, MinExists
<1> DEFINE those == {r \in ids : t[r] = d}
<1>4. IsFiniteSet(those) /\ those \subseteq Int /\ those # {}
  BY <1>1, <1>3, FS_Subset
<1>5. PICK r \in those : \A s \in those : r <= s
  <2> HIDE DEF those
  <2> QED
    BY <1>4, MinExists
<1>6. ASSUME NEW s \in ids \ {r} PROVE Before(t, s, r)
  <2>1. d <= t[s] /\ t[r] = d
    BY <1>3, <1>5
  <2>2. t[s] = d => r <= s /\ s # r
    BY <1>5
  <2>3. t[s] > t[r] \/ (t[s] = t[r] /\ s > r)
    BY <1>1, <2>1, <2>2
  <2> QED
    BY <2>3 DEF Before, Newer, Key
<1> QED
  BY <1>5, <1>6

IsListing(t, ids, list) ==
  /\ list \in Bijection(1..Cardinality(ids), ids)
  /\ \A i, j \in DOMAIN list : i < j => Before(t, list[i], list[j])

\* A listing is a list of the rows, each once.
LEMMA ListingShape ==
  ASSUME NEW t \in Tables, NEW ids \in SUBSET DOMAIN t, NEW list, IsListing(t, ids, list)
  PROVE  /\ Cardinality(ids) \in Nat
         /\ list \in Seq(Nat) /\ Len(list) = Cardinality(ids) /\ DOMAIN list = 1..Len(list)
         /\ \A i \in DOMAIN list : list[i] \in ids
         /\ \A r \in ids : \E i \in DOMAIN list : list[i] = r
         /\ \A i, j \in DOMAIN list : list[i] = list[j] => i = j
<1>1. IsFiniteSet(ids) /\ ids \subseteq Nat
  BY TableShape, FS_Subset
<1>2. Cardinality(ids) \in Nat
  BY <1>1, FS_CardinalityType
<1>3. PICK n : n = Cardinality(ids)
  OBVIOUS
<1>4. list \in [1..n -> ids] /\ (\A r \in ids : \E i \in 1..n : list[i] = r) /\ IsInjective(list)
  BY <1>3 DEF IsListing, Bijection, Surjection, Injection
<1>5. list \in [1..n -> Nat]
  BY <1>1, <1>4
<1>6. list \in Seq(Nat) /\ DOMAIN list = 1..n
  BY <1>2, <1>3, <1>5, SeqDef
<1>7. Len(list) = n
  BY <1>2, <1>3, <1>6, LenProperties
<1> QED
  BY <1>2, <1>3, <1>4, <1>6, <1>7 DEF IsInjective

\* A listing leaves no row out.
LEMMA ListingCovers ==
  ASSUME NEW t \in Tables, NEW ids \in SUBSET DOMAIN t, NEW list, IsListing(t, ids, list),
         NEW r \in ids
  PROVE  \E i \in DOMAIN list : list[i] = r
BY ListingShape

\* Every set of rows can be listed in the order of the register.
LEMMA ListingExists ==
  ASSUME NEW t \in Tables, NEW ids \in SUBSET DOMAIN t
  PROVE  \E list : IsListing(t, ids, list)
<1> DEFINE pick == [s \in SUBSET ids |-> CHOOSE r \in s : \A q \in s \ {r} : Before(t, q, r)]
           J == {s \in SUBSET ids : \E list : IsListing(t, s, list)}
<1>1. IsFiniteSet(ids)
  BY TableShape, FS_Subset
<1>2. \A s \in SUBSET ids : s # {} => pick[s] \in s /\ \A q \in s \ {pick[s]} : Before(t, q, pick[s])
  BY OldestExists
<1> HIDE DEF pick
<1>3. Picks(pick, ids)
  BY <1>2 DEF Picks
<1>4. {} \in J
  <2>1. Cardinality({}) = 0
    BY FS_EmptySet
  <2>2. PICK list : list = [i \in 1..0 |-> 0]
    OBVIOUS
  <2>3. list \in Bijection(1..0, {}) /\ DOMAIN list = {}
    BY <2>2 DEF Bijection, Injection, Surjection, IsInjective
  <2>4. IsListing(t, {}, list)
    BY <2>1, <2>3 DEF IsListing
  <2> QED
    BY <2>4
<1>5. ASSUME NEW s \in SUBSET ids, s # {}, s \ {pick[s]} \in J PROVE s \in J
  <2>1. PICK r : r = pick[s] /\ r \in s /\ \A q \in s \ {r} : Before(t, q, r)
    BY <1>2, <1>5
  <2>2. PICK rest, list : rest = s \ {r} /\ IsListing(t, rest, list)
    BY <1>5, <2>1
  <2>3. rest \in SUBSET DOMAIN t /\ s \in SUBSET DOMAIN t
    BY <2>2
  <2>4. PICK n : n = Cardinality(rest)
    OBVIOUS
  <2>5a. /\ n \in Nat /\ DOMAIN list = 1..n
         /\ \A i \in 1..n : list[i] \in rest
         /\ \A q \in rest : \E i \in 1..n : list[i] = q
         /\ \A i, j \in 1..n : list[i] = list[j] => i = j
    <3>1. n \in Nat /\ DOMAIN list = 1..n
      BY <2>2, <2>3, <2>4, ListingShape
    <3>2. \A i \in DOMAIN list : list[i] \in rest
      BY <2>2, <2>3, ListingShape
    <3>3. \A q \in rest : \E i \in DOMAIN list : list[i] = q
      BY <2>2, <2>3, ListingShape
    <3>4. \A i, j \in DOMAIN list : list[i] = list[j] => i = j
      BY <2>2, <2>3, ListingShape
    <3> QED
      BY <3>1, <3>2, <3>3, <3>4
  <2>5. /\ n \in Nat /\ DOMAIN list = 1..n
        /\ \A i \in 1..n : list[i] \in s \ {r}
        /\ \A q \in s \ {r} : \E i \in 1..n : list[i] = q
        /\ \A i, j \in 1..n : list[i] = list[j] => i = j
    BY <2>2, <2>5a
  <2>6. Cardinality(s) = n + 1
    <3>1. IsFiniteSet(rest)
      BY <2>3, TableShape, FS_Subset
    <3>2. s = rest \cup {r} /\ r \notin rest
      BY <2>1, <2>2
    <3> QED
      BY <2>4, <3>1, <3>2, FS_AddElement
  <2>7. PICK longer : longer = [i \in 1..(n + 1) |-> IF i = n + 1 THEN r ELSE list[i]]
    OBVIOUS
  <2>8. \A i \in 1..(n + 1) : i \in 1..n \/ i = n + 1
    BY <2>5
  <2>9. \A i \in 1..n : i \in 1..(n + 1) /\ i # n + 1 /\ longer[i] = list[i]
    BY <2>5, <2>7
  <2>10. n + 1 \in 1..(n + 1) /\ longer[n + 1] = r
    BY <2>5, <2>7
  <2>11. longer \in [1..(n + 1) -> s]
    BY <2>1, <2>5, <2>7, <2>8
  <2>12. \A q \in s : \E i \in 1..(n + 1) : longer[i] = q
    BY <2>5, <2>9, <2>10
  <2>13. \A i, j \in 1..(n + 1) : longer[i] = longer[j] => i = j
    BY <2>5, <2>8, <2>9, <2>10
  <2>14. longer \in Bijection(1..(n + 1), s)
    BY <2>11, <2>12, <2>13 DEF Bijection, Injection, Surjection, IsInjective
  <2>15. ASSUME NEW i \in 1..(n + 1), NEW j \in 1..(n + 1), i < j
         PROVE  Before(t, longer[i], longer[j])
    <3>1. i \in 1..n
      BY <2>5, <2>8, <2>15
    <3>2. CASE j = n + 1
      BY <2>1, <2>5, <2>9, <2>10, <3>1, <3>2
    <3>3. CASE j \in 1..n
      BY <2>2, <2>5, <2>9, <2>15, <3>1, <3>3 DEF IsListing
    <3> QED
      BY <2>8, <3>2, <3>3
  <2>16. IsListing(t, s, longer)
    <3>1. DOMAIN longer = 1..(n + 1)
      BY <2>7
    <3> QED
      BY <2>6, <2>14, <2>15, <3>1 DEF IsListing
  <2> QED
    BY <2>16
<1> HIDE DEF J
<1>6. \A s \in SUBSET ids : s \in J
  BY <1>1, <1>3, <1>4, <1>5, SubsetInduction
<1> QED
  BY <1>6 DEF J

\* And in one way only.
LEMMA ListingUnique ==
  ASSUME NEW t \in Tables, NEW ids \in SUBSET DOMAIN t,
         NEW l, IsListing(t, ids, l), NEW k, IsListing(t, ids, k)
  PROVE  l = k
<1>1. PICK n : n = Cardinality(ids)
  OBVIOUS
<1>2. /\ n \in Nat /\ DOMAIN l = 1..n /\ DOMAIN k = 1..n
      /\ \A i \in 1..n : l[i] \in ids /\ k[i] \in ids
      /\ \A r \in ids : \E i \in 1..n : l[i] = r
      /\ \A r \in ids : \E i \in 1..n : k[i] = r
      /\ \A i, j \in 1..n : l[i] = l[j] => i = j
      /\ \A i, j \in 1..n : k[i] = k[j] => i = j
  BY <1>1, ListingShape
<1>3. \A i, j \in 1..n : i < j => Before(t, l[i], l[j]) /\ Before(t, k[i], k[j])
  BY <1>2 DEF IsListing
<1>4. ASSUME NEW apart, apart = {i \in 1..n : l[i] # k[i]}, apart # {} PROVE FALSE
  <2>1. IsFiniteSet(apart) /\ apart \subseteq Int
    <3>1. IsFiniteSet(1..n)
      BY <1>2, FS_Interval
    <3>2. apart \in SUBSET (1..n)
      BY <1>4
    <3>3. IsFiniteSet(apart)
      BY <3>1, <3>2, FS_Subset
    <3>4. \A i \in 1..n : i \in Int
      OBVIOUS
    <3> QED
      BY <3>2, <3>3, <3>4
  <2>2. PICK i \in apart : \A j \in apart : i <= j
    BY <1>4, <2>1, MinExists
  <2>3. i \in 1..n /\ l[i] # k[i] /\ \A j \in 1..n : j < i => l[j] = k[j]
    BY <1>4, <2>2
  <2>4. PICK j \in 1..n : k[j] = l[i]
    BY <1>2, <2>3
  <2>5. PICK h \in 1..n : l[h] = k[i]
    BY <1>2, <2>3
  <2>6. i < j
    <3>1. j # i
      BY <2>3, <2>4
    <3>2. ~(j < i)
      <4>1. j < i => l[j] = l[i]
        BY <2>3, <2>4
      <4>2. l[j] = l[i] => j = i
        BY <1>2, <2>3
      <4> QED
        BY <3>1, <4>1, <4>2
    <3>3. i \in Int /\ j \in Int
      BY <2>3, <2>4
    <3> QED
      BY <3>1, <3>2, <3>3
  <2>7. i < h
    <3>1. h # i
      BY <2>3, <2>5
    <3>2. ~(h < i)
      <4>1. h < i => k[h] = k[i]
        BY <2>3, <2>5
      <4>2. k[h] = k[i] => h = i
        BY <1>2, <2>3
      <4> QED
        BY <3>1, <4>1, <4>2
    <3> QED
      BY <2>3, <2>5, <3>1, <3>2
  <2>8. Before(t, k[i], k[j]) /\ Before(t, l[i], l[h])
    BY <1>3, <2>3, <2>6, <2>7
  <2>9. Before(t, k[i], l[i]) /\ Before(t, l[i], k[i])
    BY <2>4, <2>5, <2>8
  <2> QED
    BY <1>2, <2>3, <2>9, BeforeIsOrder
<1>5. \A i \in 1..n : l[i] = k[i]
  <2>1. PICK apart : apart = {i \in 1..n : l[i] # k[i]}
    OBVIOUS
  <2>2. apart = {}
    BY <1>4, <2>1
  <2> QED
    BY <2>1, <2>2
<1>6. l = [i \in 1..n |-> l[i]] /\ k = [i \in 1..n |-> k[i]]
  BY <1>1 DEF IsListing, Bijection, Injection
<1> QED
  BY <1>5, <1>6

\* What ORDER BY returns.
LEMMA RegisterOrderLists ==
  ASSUME NEW t \in Tables, NEW ids \in SUBSET DOMAIN t
  PROVE  IsListing(t, ids, InRegisterOrder(t, ids))
<1>1. PICK list : IsListing(t, ids, list)
  BY ListingExists
<1>2. list \in Bijection(1..Cardinality(ids), ids)
      /\ \A i, j \in DOMAIN list : i < j => Newer(Key(t, list[i]), Key(t, list[j]))
  BY <1>1 DEF IsListing, Before
<1>3. InRegisterOrder(t, ids) \in Bijection(1..Cardinality(ids), ids)
      /\ \A i, j \in DOMAIN InRegisterOrder(t, ids) :
           i < j => Newer(Key(t, InRegisterOrder(t, ids)[i]), Key(t, InRegisterOrder(t, ids)[j]))
  BY <1>2 DEF InRegisterOrder
<1> QED
  BY <1>3 DEF IsListing, Before
-----------------------------------------------------------------------------
(* Pages *)

Cursors == {FirstPage} \cup (Int \X Nat)
Pages == [rows : Seq(Nat), more : BOOLEAN, next : Cursors]

\* The key of a row is a cursor, and never that of the first page.
LEMMA KeyIsCursor ==
  ASSUME NEW t \in Tables, NEW r \in DOMAIN t
  PROVE  Key(t, r) \in Int \X Nat /\ Key(t, r) \in Cursors /\ Key(t, r) # FirstPage
<1>1. r \in Nat /\ t[r] \in Int
  BY TableShape
<1>2. <<t[r], r>> # <<>>
  OBVIOUS
<1> QED
  BY <1>1, <1>2 DEF Key, Cursors, FirstPage

\* Page a holds the first k rows of a list, and knows whether there are more.
PageIs(a, t, list, k) ==
  /\ k \in 0..Len(list)
  /\ a.rows \in Seq(Nat) /\ Len(a.rows) = k /\ \A i \in 1..k : a.rows[i] = list[i]
  /\ a.more \in BOOLEAN
  /\ a.more => k >= 1
  /\ a.more => a.next = Key(t, list[k])
  /\ ~a.more => k = Len(list) /\ a.next = FirstPage

\* A page is a beginning of the rows past its cursor, and knows how to go on.
LEMMA PageShape ==
  ASSUME NEW t \in Tables, NEW cursor \in Cursors, NEW a, a = PageAt(t, cursor),
         NEW list, list = InRegisterOrder(t, {r \in DOMAIN t : Past(t, r, cursor)})
  PROVE  a \in Pages /\ \E k \in Nat : PageIs(a, t, list, k)
<1>1. PICK ids : ids = {r \in DOMAIN t : Past(t, r, cursor)}
  OBVIOUS
<1>2. ids \in SUBSET DOMAIN t /\ list = InRegisterOrder(t, ids)
  BY <1>1
<1>3. IsListing(t, ids, list)
  BY <1>2, RegisterOrderLists
<1>4. /\ list \in Seq(Nat) /\ DOMAIN list = 1..Len(list) /\ Len(list) \in Nat
      /\ \A i \in DOMAIN list : list[i] \in ids
  <2>1. list \in Seq(Nat)
    BY <1>2, <1>3, ListingShape
  <2>2. \A i \in DOMAIN list : list[i] \in ids
    BY <1>2, <1>3, ListingShape
  <2> QED
    BY <2>1, <2>2, LenProperties
<1>4a. list \in Seq(Nat) /\ Len(list) \in Nat
  BY <1>4
<1>5. PICK k : k = IF Len(list) > PageSize THEN PageSize ELSE Len(list)
  OBVIOUS
<1>6. PageSize \in Nat \ {0}
  BY RegisterAssumption
<1>7. /\ k \in 0..Len(list)
      /\ Len(list) > PageSize => k >= 1
      /\ ~(Len(list) > PageSize) => k = Len(list)
  <2>1. PICK len \in Nat : len = Len(list)
    BY <1>4a
  <2>2. k = IF len > PageSize THEN PageSize ELSE len
    BY <1>5, <2>1
  <2>3. k \in 0..len /\ (len > PageSize => k >= 1) /\ (~(len > PageSize) => k = len)
    BY <1>6, <2>2
  <2> QED
    BY <2>1, <2>3
<1>7a. k \in Nat
  BY <1>4a, <1>7
<1>8. PICK taken : taken = SubSeq(list, 1, k)
  OBVIOUS
<1>9. taken \in Seq(Nat) /\ Len(taken) = k /\ \A i \in 1..k : taken[i] = list[i]
  <2>1. \A i \in 1..k : i \in DOMAIN list
    <3>1. PICK len \in Nat : len = Len(list)
      BY <1>4a
    <3>2. DOMAIN list = 1..len /\ k \in 0..len
      BY <1>4, <1>7, <3>1
    <3> QED
      BY <3>2
  <2>2. \A i \in 1..k : list[i] \in Nat
    BY <1>4a, <2>1, ElementOfSeq, LenProperties
  <2>3. taken \in Seq(Nat)
    BY <1>7a, <1>8, <2>2, SubSeqProperties
  <2>4. Len(taken) = IF 1 <= k THEN k - 1 + 1 ELSE 0
    BY <1>7a, <1>8, <2>2, SubSeqProperties
  <2>5. \A i \in 1..(k - 1 + 1) : taken[i] = list[1 + i - 1]
    BY <1>7a, <1>8, <2>2, SubSeqProperties
  <2>6. Len(taken) = k
    BY <1>7a, <2>4
  <2>7. \A i \in 1..k : i \in 1..(k - 1 + 1) /\ 1 + i - 1 = i
    BY <1>7a
  <2> QED
    BY <2>3, <2>5, <2>6, <2>7
<1>10. PICK next : next = IF Len(list) > PageSize THEN Key(t, taken[Len(taken)]) ELSE FirstPage
  OBVIOUS
<1>11. a = [rows |-> taken, more |-> Len(list) > PageSize, next |-> next]
  BY <1>5, <1>8, <1>10 DEF PageAt, Last
<1>12. Len(list) > PageSize => next = Key(t, list[k]) /\ list[k] \in DOMAIN t
  <2>1. SUFFICES ASSUME Len(list) > PageSize PROVE next = Key(t, list[k]) /\ list[k] \in DOMAIN t
    OBVIOUS
  <2>2. k \in 1..Len(list) /\ k \in 1..k
    BY <1>7, <1>7a, <2>1
  <2>3. list[k] \in ids
    BY <1>4, <2>2
  <2>4. taken[Len(taken)] = list[k]
    BY <1>9, <2>2
  <2> QED
    BY <1>1, <1>10, <2>1, <2>3, <2>4
<1>13. next \in Cursors
  <2>1. CASE Len(list) > PageSize
    BY <1>12, <2>1, KeyIsCursor
  <2>2. CASE ~(Len(list) > PageSize)
    BY <1>10, <2>2 DEF Cursors
  <2> QED
    BY <2>1, <2>2
<1>14. a \in Pages
  BY <1>9, <1>11, <1>13 DEF Pages
<1>15. PageIs(a, t, list, k)
  <2>1. a.rows = taken /\ a.next = next /\ a.more = (Len(list) > PageSize)
    BY <1>11
  <2> QED
    <3>1. a.more \in BOOLEAN
      BY <2>1
    <3>2. /\ a.more => k >= 1
          /\ a.more => a.next = Key(t, list[k])
      BY <1>7, <1>12, <2>1
    <3>3. ~a.more => k = Len(list) /\ a.next = FirstPage
      BY <1>7, <1>10, <2>1
    <3>4. a.rows \in Seq(Nat) /\ Len(a.rows) = k /\ \A i \in 1..k : a.rows[i] = list[i]
      BY <1>9, <2>1
    <3> QED
      BY <1>7, <3>1, <3>2, <3>3, <3>4 DEF PageIs
<1> QED
  BY <1>7a, <1>14, <1>15

RowsAfter(t, ids, r) == ids = {q \in DOMAIN t : Past(t, q, Key(t, r))}

\* The rows past a row of the register are the ones listed after it.
LEMMA RestIsListedAfter ==
  ASSUME NEW t \in Tables, NEW list, IsListing(t, DOMAIN t, list), NEW n \in 1..Len(list),
         NEW ids \in SUBSET DOMAIN t, RowsAfter(t, ids, list[n]),
         NEW rest, IsListing(t, ids, rest)
  PROVE  /\ Len(list) \in Nat
         /\ Len(rest) = Len(list) - n
         /\ \A i \in 1..Len(rest) : rest[i] = list[n + i]
<1>1. DOMAIN t \in SUBSET DOMAIN t /\ ids \in SUBSET DOMAIN t
  OBVIOUS
<1>2. Cardinality(DOMAIN t) \in Nat /\ Len(list) = Cardinality(DOMAIN t) /\ DOMAIN list = 1..Len(list)
  BY <1>1, ListingShape
<1>3. \A i \in DOMAIN list : list[i] \in DOMAIN t
  BY <1>1, ListingShape
<1>4. \A r \in DOMAIN t : \E i \in DOMAIN list : list[i] = r
  BY <1>1, ListingCovers
<1>5. \A i, j \in DOMAIN list : list[i] = list[j] => i = j
  BY <1>1, ListingShape
<1>6. PICK len : len = Len(list)
  OBVIOUS
<1>7. len \in Nat /\ n \in 1..len /\ DOMAIN list = 1..len
  BY <1>2, <1>6
<1>8. \A i, j \in 1..len : i < j => Before(t, list[i], list[j])
  BY <1>7 DEF IsListing
<1>9. \A i \in 1..len : list[i] \in ids <=> n < i
  <2>1. ASSUME NEW i \in 1..len PROVE list[i] \in ids <=> n < i
    <3>1. list[i] \in DOMAIN t /\ list[n] \in DOMAIN t
      BY <1>3, <1>7
    <3>2. Key(t, list[n]) # FirstPage
      BY <3>1, KeyIsCursor
    <3>3. list[i] \in ids <=> Before(t, list[n], list[i])
      BY <3>1, <3>2 DEF Past, Before, RowsAfter
    <3>4. n < i => Before(t, list[n], list[i])
      BY <1>7, <1>8
    <3>5. i < n => Before(t, list[i], list[n])
      BY <1>7, <1>8
    <3>6. ~(Before(t, list[n], list[i]) /\ Before(t, list[i], list[n]))
      BY <3>1, BeforeIsOrder
    <3>7. i = n => ~Before(t, list[n], list[i])
      BY <3>6
    <3> QED
      BY <1>7, <3>3, <3>4, <3>5, <3>6, <3>7
  <2> QED
    BY <2>1
<1>10. PICK m : m = len - n
  OBVIOUS
<1>11. m \in Nat /\ \A i \in 1..m : n + i \in 1..len /\ n < n + i
  BY <1>7, <1>10
<1>12. \A i \in 1..len : n < i => i - n \in 1..m /\ n + (i - n) = i
  BY <1>7, <1>10
<1>13. PICK tail : tail = [i \in 1..m |-> list[n + i]]
  OBVIOUS
<1>14. tail \in [1..m -> ids] /\ DOMAIN tail = 1..m /\ \A i \in 1..m : tail[i] = list[n + i]
  BY <1>7, <1>9, <1>11, <1>13
<1>15. \A r \in ids : \E i \in 1..m : tail[i] = r
  <2>1. ASSUME NEW r \in ids PROVE \E i \in 1..m : tail[i] = r
    <3>1. PICK i \in 1..len : list[i] = r
      BY <1>1, <1>4, <1>7
    <3>2. n < i
      BY <1>9, <3>1
    <3>3. i - n \in 1..m /\ tail[i - n] = r
      BY <1>12, <1>14, <3>1, <3>2
    <3> QED
      BY <3>3
  <2> QED
    BY <2>1
<1>16. \A i, j \in 1..m : tail[i] = tail[j] => i = j
  <2>1. ASSUME NEW i \in 1..m, NEW j \in 1..m, tail[i] = tail[j] PROVE i = j
    <3>1. n + i = n + j
      BY <1>5, <1>7, <1>11, <1>14, <2>1
    <3> QED
      BY <1>7, <1>11, <3>1
  <2> QED
    BY <2>1
<1>17. tail \in Bijection(1..m, ids)
  BY <1>14, <1>15, <1>16 DEF Bijection, Injection, Surjection, IsInjective
<1>18. Cardinality(ids) = m
  <2>1. IsFiniteSet(1..m) /\ Cardinality(1..m) = m
    <3>1. m \in Int /\ 1 \in Int /\ (IF 1 > m THEN 0 ELSE m - 1 + 1) = m
      BY <1>11
    <3> QED
      BY <3>1, FS_Interval
  <2>2. ExistsBijection(1..m, ids)
    BY <1>17 DEF ExistsBijection
  <2> QED
    BY <2>1, <2>2, FS_Bijection
<1>19. IsListing(t, ids, tail)
  <2>1. ASSUME NEW i \in 1..m, NEW j \in 1..m, i < j PROVE Before(t, tail[i], tail[j])
    <3>1. n + i < n + j
      BY <1>7, <1>11, <2>1
    <3> QED
      BY <1>8, <1>11, <1>14, <2>1, <3>1
  <2> QED
    BY <1>14, <1>17, <1>18, <2>1 DEF IsListing
<1>20. rest = tail
  BY <1>1, <1>19, ListingUnique
<1>21. Len(rest) = m
  BY <1>1, <1>18, ListingShape
<1> QED
  BY <1>2, <1>6, <1>10, <1>14, <1>20, <1>21

\* Two pages of one ledger make a longer page of it.
LEMMA NextPageJoins ==
  ASSUME NEW t \in Tables, NEW list, list = InRegisterOrder(t, DOMAIN t),
         NEW p, NEW n \in Nat, PageIs(p, t, list, n), p.more,
         NEW a, a = PageAt(t, p.next),
         NEW j, j.rows = p.rows \o a.rows, j.more = a.more, j.next = a.next
  PROVE  \E k \in Nat : PageIs(j, t, list, k)
<1>1. DOMAIN t \in SUBSET DOMAIN t
  OBVIOUS
<1>2. IsListing(t, DOMAIN t, list)
  BY <1>1, RegisterOrderLists
<1>3. /\ n \in 1..Len(list) /\ p.rows \in Seq(Nat) /\ Len(p.rows) = n
      /\ \A i \in 1..n : p.rows[i] = list[i]
      /\ p.next = Key(t, list[n])
  BY DEF PageIs
<1>4. PICK ids : ids = {r \in DOMAIN t : Past(t, r, Key(t, list[n]))}
  OBVIOUS
<1>4a. ids = {r \in DOMAIN t : Past(t, r, p.next)} /\ ids \in SUBSET DOMAIN t
  BY <1>3, <1>4
<1>5. PICK rest : rest = InRegisterOrder(t, ids)
  OBVIOUS
<1>6. IsListing(t, ids, rest)
  BY <1>4a, <1>5, RegisterOrderLists
<1>7. /\ Len(list) \in Nat /\ Len(rest) = Len(list) - n
      /\ \A i \in 1..Len(rest) : rest[i] = list[n + i]
  <2>1. n \in 1..Len(list)
    BY <1>3
  <2>2. RowsAfter(t, ids, list[n])
    BY <1>4 DEF RowsAfter
  <2>3. ids \in SUBSET DOMAIN t
    BY <1>4a
  <2> QED
    BY <1>2, <1>6, <2>1, <2>2, <2>3, RestIsListedAfter
<1>8. list[n] \in DOMAIN t
  <2>1. DOMAIN list = 1..Len(list)
    BY <1>1, <1>2, ListingShape
  <2> QED
    BY <1>1, <1>2, <1>3, <2>1, ListingShape
<1>9. p.next \in Cursors
  BY <1>3, <1>8, KeyIsCursor
<1>10. PICK k \in Nat : PageIs(a, t, rest, k)
  BY <1>4a, <1>5, <1>9, PageShape
<1>11. /\ k \in 0..Len(rest) /\ a.rows \in Seq(Nat) /\ Len(a.rows) = k
       /\ \A i \in 1..k : a.rows[i] = rest[i]
       /\ a.more \in BOOLEAN
       /\ a.more => k >= 1 /\ a.next = Key(t, rest[k])
       /\ ~a.more => k = Len(rest) /\ a.next = FirstPage
  BY <1>10 DEF PageIs
<1>12. PICK first, second, rows :
         first = p.rows /\ second = a.rows /\ rows = first \o second
  OBVIOUS
<1>12a. first \in Seq(Nat) /\ second \in Seq(Nat) /\ Len(first) = n /\ Len(second) = k
  BY <1>3, <1>11, <1>12
<1>13. rows \in Seq(Nat)
  <2>1. first \o second \in Seq(Nat)
    BY <1>12a, ConcatProperties
  <2> QED
    BY <1>12, <2>1
<1>14. Len(rows) = n + k
  <2>1. Len(first \o second) = Len(first) + Len(second)
    BY <1>12a, ConcatProperties
  <2> QED
    BY <1>12, <1>12a, <2>1
<1>15. \A i \in 1..(n + k) : rows[i] = IF i <= n THEN p.rows[i] ELSE a.rows[i - n]
  <2>1. \A i \in 1..(Len(first) + Len(second)) :
          (first \o second)[i] = IF i <= Len(first) THEN first[i] ELSE second[i - Len(first)]
    BY <1>12a, ConcatProperties
  <2>2. \A i \in 1..(Len(first) + Len(second)) :
          rows[i] = IF i <= Len(first) THEN first[i] ELSE second[i - Len(first)]
    BY ONLY <1>12, <2>1
  <2>3. \A i \in 1..(n + k) : rows[i] = IF i <= n THEN first[i] ELSE second[i - n]
    BY ONLY <1>12a, <2>2
  <2>4. first = p.rows /\ second = a.rows
    BY <1>12
  <2> QED
    BY ONLY <2>3, <2>4
<1>16. ASSUME NEW i \in 1..(n + k) PROVE rows[i] = list[i]
  <2>1. CASE i <= n
    BY <1>3, <1>10, <1>15, <2>1
  <2>2. CASE ~(i <= n)
    <3>1. i - n \in 1..k /\ n + (i - n) = i /\ i - n \in 1..Len(rest)
      BY <1>3, <1>7, <1>10, <1>11, <2>2
    <3>2. rows[i] = a.rows[i - n]
      BY <1>15, <2>2
    <3> QED
      BY <1>7, <1>11, <3>1, <3>2
  <2> QED
    BY <2>1, <2>2
<1>17. n + k \in 0..Len(list) /\ (k = Len(rest) => n + k = Len(list)) /\ n + k \in Nat /\ n + k >= 1
  BY <1>3, <1>7, <1>10, <1>11
<1>18. a.more => a.next = Key(t, list[n + k])
  <2>1. k >= 1 => rest[k] = list[n + k]
    BY <1>7, <1>10, <1>11
  <2> QED
    BY <1>11, <2>1
<1>19. PageIs(j, t, list, n + k)
  BY <1>11, <1>12, <1>13, <1>14, <1>16, <1>17, <1>18 DEF PageIs
<1> QED
  BY <1>17, <1>19
-----------------------------------------------------------------------------
(* The register on the screen *)

Requests == [id : Nat, cursor : Cursors, answer : {FirstPage} \cup (Pages \X Tables)]
Shape == [loaded : BOOLEAN, rows : Seq(Nat), next : Cursors, more : BOOLEAN,
          tables : SUBSET Tables]

LedgerOK == issuedRows \in Nat /\ table \in Tables

\* Requests wait in the order they were made; an answer is a page of some ledger from the
\* cursor asked for, and the latest request has the cursor of the query.
Awaited(request) ==
  /\ request.id <= reads
  /\ request.answer # FirstPage => request.answer[1] = PageAt(request.answer[2], request.cursor)
  /\ request.id = reads => request.cursor = query.cursor
                           /\ (query.nextPage <=> query.cursor # FirstPage)

InOrder(requests) ==
  \A i, j \in DOMAIN requests : i < j => requests[i].id < requests[j].id

ReadingOK ==
  /\ reads \in Nat /\ query.latest = reads
  /\ reading \in Seq(Requests)
  /\ \A i \in DOMAIN reading : Awaited(reading[i])
  /\ InOrder(reading)

QueryOK ==
  /\ query \in [latest : Nat, cursor : Cursors, nextPage : BOOLEAN]
  /\ query.nextPage => page.loaded
  /\ query.nextPage => query.cursor # FirstPage

\* The page shown is the start of the only ledger it was read from.
Continues(p) == /\ p.loaded => p.tables # {}
                /\ p.more <=> p.next # FirstPage
                /\ IsInjective(p.rows)
StartOf(p, t) == \E k \in Nat : PageIs(p, t, InRegisterOrder(t, DOMAIN t), k)
PageOK ==
  /\ page \in Shape /\ Continues(page)
  /\ \A t \in page.tables : page.tables = {t} => StartOf(page, t)

Shown(s, rows, just) == s.ids \cup {s.anchor, s.cursor} \subseteq Range(rows) \cup {just, 0}
SelectionOK ==
  /\ selection = [ids |-> selection.ids, anchor |-> selection.anchor, cursor |-> selection.cursor]
  /\ Shown(selection, page.rows, saved)

RegisterInv == LedgerOK /\ ReadingOK /\ QueryOK /\ PageOK /\ SelectionOK

\* No page a ledger is read for repeats a row.
LEMMA PageRowsDistinct ==
  ASSUME NEW t \in Tables, NEW cursor \in Cursors
  PROVE  IsInjective(PageAt(t, cursor).rows)
<1>1. PICK a, ids, list :
        a = PageAt(t, cursor) /\ ids = {r \in DOMAIN t : Past(t, r, cursor)}
        /\ list = InRegisterOrder(t, ids)
  OBVIOUS
<1>2. ids \in SUBSET DOMAIN t
  BY <1>1
<1>3. PICK k \in Nat : PageIs(a, t, list, k)
  BY <1>1, PageShape
<1>4. IsListing(t, ids, list)
  BY <1>1, <1>2, RegisterOrderLists
<1>5. \A i, j \in DOMAIN list : list[i] = list[j] => i = j
  BY <1>2, <1>4, ListingShape
<1>6. DOMAIN list = 1..Len(list) /\ Len(list) \in Nat
  <2>1. list \in Seq(Nat)
    BY <1>2, <1>4, ListingShape
  <2> QED
    BY <2>1, LenProperties
<1>7. k \in 0..Len(list) /\ a.rows \in Seq(Nat) /\ Len(a.rows) = k
      /\ \A i \in 1..k : a.rows[i] = list[i]
  BY <1>3 DEF PageIs
<1>8. DOMAIN a.rows = 1..k
  BY <1>7, LenProperties
<1>9. \A i \in 1..k : i \in DOMAIN list
  BY <1>3, <1>6, <1>7
<1> QED
  BY <1>1, <1>5, <1>7, <1>8, <1>9 DEF IsInjective

\* The page of a table from a cursor is a page, with a next one exactly if there is more.
LEMMA PageIsPage ==
  ASSUME NEW t \in Tables, NEW cursor \in Cursors
  PROVE  LET a == PageAt(t, cursor) IN a \in Pages /\ (a.more <=> a.next # FirstPage)
<1>1. PICK a, ids, list :
        a = PageAt(t, cursor) /\ ids = {r \in DOMAIN t : Past(t, r, cursor)}
        /\ list = InRegisterOrder(t, ids)
  OBVIOUS
<1>2. ids \in SUBSET DOMAIN t
  BY <1>1
<1>3. a \in Pages
  BY <1>1, PageShape
<1>4. PICK k \in Nat : PageIs(a, t, list, k)
  BY <1>1, PageShape
<1>5. IsListing(t, ids, list)
  BY <1>1, <1>2, RegisterOrderLists
<1>6. a.more => a.next # FirstPage
  <2>1. SUFFICES ASSUME a.more PROVE a.next # FirstPage
    OBVIOUS
  <2>2. k \in 1..Len(list) /\ a.next = Key(t, list[k])
    BY <1>4, <2>1 DEF PageIs
  <2>3. list[k] \in DOMAIN t
    <3>1. DOMAIN list = 1..Len(list)
      BY <1>2, <1>5, ListingShape
    <3>2. \A i \in DOMAIN list : list[i] \in ids
      BY <1>2, <1>5, ListingShape
    <3> QED
      BY <1>2, <2>2, <3>1, <3>2
  <2> QED
    BY <2>2, <2>3, KeyIsCursor
<1>7. ~a.more => a.next = FirstPage
  BY <1>4 DEF PageIs
<1> QED
  BY <1>1, <1>3, <1>6, <1>7

\* A first page is the start of its ledger.
LEMMA FirstPageStarts ==
  ASSUME NEW t \in Tables, NEW p, LET a == PageAt(t, FirstPage) IN
           p.rows = a.rows /\ p.more = a.more /\ p.next = a.next
  PROVE  StartOf(p, t)
<1>1. PICK ids : ids = {r \in DOMAIN t : Past(t, r, FirstPage)}
  OBVIOUS
<1>2. ids = DOMAIN t
  BY <1>1 DEF Past
<1>3. PICK a, list : a = PageAt(t, FirstPage) /\ list = InRegisterOrder(t, ids)
  OBVIOUS
<1>4. FirstPage \in Cursors
  BY DEF Cursors
<1>5. PICK k \in Nat : PageIs(a, t, list, k)
  BY <1>1, <1>3, <1>4, PageShape
<1>6. PageIs(p, t, list, k)
  BY <1>3, <1>5 DEF PageIs
<1> QED
  BY <1>2, <1>3, <1>6 DEF StartOf

\* A list followed by one that shares no row with it repeats none.
LEMMA JoinDistinct ==
  ASSUME NEW l \in Seq(Nat), NEW k \in Seq(Nat), IsInjective(l), IsInjective(k),
         Range(l) \cap Range(k) = {}
  PROVE  IsInjective(l \o k)
<1>1. PICK m, n : m = Len(l) /\ n = Len(k)
  OBVIOUS
<1>2. m \in Nat /\ n \in Nat /\ DOMAIN l = 1..m /\ DOMAIN k = 1..n
  BY <1>1, LenProperties
<1>3. PICK q : q = l \o k
  OBVIOUS
<1>4. l \o k \in Seq(Nat)
  BY ConcatProperties
<1>5. Len(l \o k) = m + n
  BY <1>1, ConcatProperties
<1>6. \A i \in 1..(Len(l) + Len(k)) : (l \o k)[i] = IF i <= Len(l) THEN l[i] ELSE k[i - Len(l)]
  BY ConcatProperties
<1>7. \A i \in 1..(m + n) : q[i] = IF i <= m THEN l[i] ELSE k[i - m]
  BY <1>1, <1>3, <1>6
<1>8. DOMAIN q = 1..(m + n)
  BY <1>2, <1>3, <1>4, <1>5, LenProperties
<1>9. \A i \in 1..m, j \in 1..n : l[i] # k[j]
  BY <1>2 DEF Range
<1>10. ASSUME NEW i \in 1..(m + n), NEW j \in 1..(m + n), q[i] = q[j] PROVE i = j
  <2>1. i <= m => i \in 1..m /\ q[i] = l[i]
    BY <1>2, <1>7
  <2>2. ~(i <= m) => i - m \in 1..n /\ q[i] = k[i - m]
    BY <1>2, <1>7
  <2>3. j <= m => j \in 1..m /\ q[j] = l[j]
    BY <1>2, <1>7
  <2>4. ~(j <= m) => j - m \in 1..n /\ q[j] = k[j - m]
    BY <1>2, <1>7
  <2>5. CASE i <= m /\ j <= m
    BY <1>2, <1>10, <2>1, <2>3, <2>5 DEF IsInjective
  <2>6. CASE ~(i <= m) /\ ~(j <= m)
    <3>1. i - m = j - m
      BY <1>2, <1>10, <2>2, <2>4, <2>6 DEF IsInjective
    <3> QED
      BY <1>2, <3>1
  <2>7. CASE i <= m /\ ~(j <= m)
    BY <1>9, <1>10, <2>1, <2>4, <2>7
  <2>8. CASE ~(i <= m) /\ j <= m
    BY <1>9, <1>10, <2>2, <2>3, <2>8
  <2> QED
    BY <2>5, <2>6, <2>7, <2>8
<1> QED
  BY <1>3, <1>8, <1>10 DEF IsInjective
-----------------------------------------------------------------------------
(* The register starts, and asks for pages *)

\* The register starts well.
LEMMA RegisterStart == RegisterInit => RegisterInv
<1> SUFFICES ASSUME RegisterInit PROVE RegisterInv
  OBVIOUS
<1>1. LedgerOK
  <2>1. table \in [{} -> Int] /\ IsFiniteSet(DOMAIN table)
    BY FS_EmptySet DEF RegisterInit
  <2> QED
    BY <2>1 DEF RegisterInit, LedgerOK, Tables
<1>2. ReadingOK
  <2>1. DOMAIN reading = {} /\ reading \in Seq(Requests)
    BY DEF RegisterInit
  <2> QED
    BY <2>1 DEF RegisterInit, ReadingOK, InOrder
<1>3. QueryOK
  BY DEF RegisterInit, QueryOK, Cursors
<1>4. PageOK
  <2>1. page.rows = <<>> /\ page \in Shape /\ page.loaded = FALSE /\ page.more = FALSE
        /\ page.next = FirstPage /\ page.tables = {}
    BY DEF RegisterInit, Shape, Cursors
  <2> QED
    BY <2>1 DEF PageOK, Continues, IsInjective
<1>5. SelectionOK
  BY DEF RegisterInit, SelectionOK, NoSelection, Shown, Range
<1> QED
  BY <1>1, <1>2, <1>3, <1>4, <1>5 DEF RegisterInv

\* A request is the newest one there is.
LEMMA AskKeeps ==
  ASSUME RegisterInv, NEW cursor \in Cursors, NEW nextPage \in BOOLEAN, Ask(cursor, nextPage),
         nextPage <=> cursor # FirstPage, nextPage => page.loaded
  PROVE  RegisterInv'
<1>1. LedgerOK' /\ PageOK' /\ SelectionOK'
  BY DEF RegisterInv, Ask, LedgerOK, PageOK, SelectionOK, Continues, StartOf
<1>2. reads \in Nat /\ reads' \in Nat /\ reads' = reads + 1
  BY DEF RegisterInv, ReadingOK, Ask
<1>3. query' = [latest |-> reads', cursor |-> cursor, nextPage |-> nextPage] /\ page' = page
  BY DEF Ask
<1>4. QueryOK'
  BY <1>2, <1>3 DEF QueryOK
<1>5. PICK request : request = [id |-> reads', cursor |-> cursor, answer |-> FirstPage]
  OBVIOUS
<1>6. request \in Requests /\ request.id = reads' /\ request.answer = FirstPage
      /\ request.cursor = cursor
  BY <1>2, <1>5 DEF Requests
<1>7. reading \in Seq(Requests)
  BY DEF RegisterInv, ReadingOK
<1>8. PICK n \in Nat : n = Len(reading)
  BY <1>7, LenProperties
<1>9. reading' = Append(reading, request)
  BY <1>5 DEF Ask
<1>10. reading' \in Seq(Requests) /\ Len(reading') = n + 1
  BY <1>6, <1>7, <1>8, <1>9, AppendProperties
<1>11. \A i \in 1..n : reading'[i] = reading[i]
  BY <1>6, <1>7, <1>8, <1>9, AppendProperties
<1>12. reading'[n + 1] = request
  BY <1>6, <1>7, <1>8, <1>9, AppendProperties
<1>13. DOMAIN reading = 1..n /\ DOMAIN reading' = 1..(n + 1)
  BY <1>7, <1>8, <1>10, LenProperties
<1>14. \A i \in 1..n : reading[i] \in Requests /\ Awaited(reading[i])
  BY <1>7, <1>8, <1>13 DEF RegisterInv, ReadingOK
<1>15. \A i \in 1..n : reading[i].id \in Nat /\ reading[i].id <= reads
  BY <1>14 DEF Awaited, Requests
<1>16. ASSUME NEW i \in DOMAIN reading' PROVE Awaited(reading[i])'
  <2>1. CASE i \in 1..n
    <3>1. PICK old : old = reading[i]
      OBVIOUS
    <3>2. reading'[i] = old /\ old.id \in Nat /\ old.id <= reads /\ old.id # reads'
      BY <1>2, <1>11, <1>15, <2>1, <3>1
    <3>3. old.id <= reads' /\ (old.answer # FirstPage => old.answer[1] = PageAt(old.answer[2], old.cursor))
      BY <1>2, <1>14, <2>1, <3>1, <3>2 DEF Awaited
    <3> QED
      BY <3>2, <3>3 DEF Awaited
  <2>2. CASE i = n + 1
    <3>1. reading'[i] = request
      BY <1>12, <2>2
    <3>2. request.id <= reads'
      BY <1>2, <1>6
    <3> QED
      BY <1>3, <1>6, <3>1, <3>2 DEF Awaited
  <2> QED
    BY <1>8, <1>13, <2>1, <2>2
<1>17. ASSUME NEW i \in 1..(n + 1), NEW j \in 1..(n + 1), i < j
       PROVE  reading'[i].id < reading'[j].id
  <2>1. i \in 1..n /\ reading'[i] = reading[i]
    BY <1>8, <1>11, <1>17
  <2>2. CASE j = n + 1
    BY <1>2, <1>6, <1>12, <1>15, <2>1, <2>2
  <2>3. CASE j \in 1..n
    <3>1. reading[i].id < reading[j].id
      BY <1>13, <1>17, <2>1, <2>3 DEF RegisterInv, ReadingOK, InOrder
    <3> QED
      BY <1>11, <2>1, <2>3, <3>1
  <2> QED
    BY <1>8, <2>2, <2>3
<1>18. InOrder(reading')
  BY <1>13, <1>17 DEF InOrder
<1>19. InOrder(reading)'
  BY <1>18 DEF InOrder
<1>20. query'.latest = reads'
  BY <1>3
<1>21. ReadingOK'
  BY <1>2, <1>10, <1>16, <1>19, <1>20 DEF ReadingOK
<1> QED
  BY <1>1, <1>4, <1>21 DEF RegisterInv
\* The worker answers with a page of the ledger there is.
LEMMA ReadKeeps ==
  ASSUME RegisterInv, ReadPage
  PROVE  RegisterInv'
<1>1. LedgerOK' /\ QueryOK' /\ PageOK' /\ SelectionOK'
  BY DEF RegisterInv, ReadPage, LedgerOK, QueryOK, PageOK, SelectionOK, Continues, StartOf
<1>2. PICK n \in DOMAIN reading :
        reading' = [reading EXCEPT ![n].answer = <<PageAt(table, reading[n].cursor), table>>]
  BY DEF ReadPage
<1>3. reading \in Seq(Requests) /\ reading[n] \in Requests
  BY <1>2 DEF RegisterInv, ReadingOK
<1>4. PICK old : old = reading[n]
  OBVIOUS
<1>5. old \in Requests /\ old = [id |-> old.id, cursor |-> old.cursor, answer |-> old.answer]
  BY <1>3, <1>4 DEF Requests
<1>6. PICK t, a : t = table /\ a = PageAt(table, old.cursor)
  OBVIOUS
<1>7. t \in Tables /\ old.cursor \in Cursors
  BY <1>5, <1>6 DEF RegisterInv, LedgerOK, Requests
<1>8. a = PageAt(t, old.cursor)
  BY <1>6
<1>9. a \in Pages
  BY <1>7, <1>8, PageIsPage
<1>10. PICK new : new = [id |-> old.id, cursor |-> old.cursor, answer |-> <<a, t>>]
  OBVIOUS
<1>11. new \in Requests /\ new.id = old.id /\ new.cursor = old.cursor /\ new.answer = <<a, t>>
  BY <1>5, <1>7, <1>9, <1>10 DEF Requests
<1>12. reading' = [reading EXCEPT ![n] = new]
  <2>1. [old EXCEPT !.answer = <<a, t>>] = new
    BY <1>5, <1>10
  <2>2. reading' = [reading EXCEPT ![n] = [old EXCEPT !.answer = <<a, t>>]]
    BY <1>2, <1>4, <1>6
  <2> QED
    BY <2>1, <2>2
<1>13. PICK len \in Nat : len = Len(reading) /\ DOMAIN reading = 1..len
  BY <1>3, LenProperties
<1>14. reading' \in Seq(Requests) /\ DOMAIN reading' = 1..len
  BY <1>3, <1>11, <1>12, <1>13, ExceptSeq
<1>15. \A i \in 1..len : reading'[i] = IF i = n THEN new ELSE reading[i]
  BY <1>12, <1>13
<1>16. \A i \in 1..len : reading'[i].id = reading[i].id
  BY <1>4, <1>11, <1>15
<1>17. Awaited(new)
  <2>1. new.answer[1] = a /\ new.answer[2] = t
    BY <1>11
  <2>2. Awaited(old)
    BY <1>2, <1>4 DEF RegisterInv, ReadingOK
  <2> QED
    BY <1>8, <1>11, <2>1, <2>2 DEF Awaited
<1>18. query' = query /\ reads' = reads
  BY DEF ReadPage
<1>19. \A i \in 1..len : Awaited(reading[i])
  BY <1>13 DEF RegisterInv, ReadingOK
<1>20. ASSUME NEW i \in DOMAIN reading' PROVE Awaited(reading[i])'
  <2>1. PICK request : request = reading'[i]
    OBVIOUS
  <2>2. Awaited(request)
    BY <1>14, <1>15, <1>17, <1>19, <2>1
  <2> QED
    BY <1>18, <2>1, <2>2 DEF Awaited
<1>21. InOrder(reading)'
  <2>1. InOrder(reading)
    BY DEF RegisterInv, ReadingOK
  <2> QED
    BY <1>13, <1>14, <1>16, <2>1 DEF InOrder
<1>22. ReadingOK'
  <2>1. reads \in Nat /\ query.latest = reads
    BY DEF RegisterInv, ReadingOK
  <2> QED
    BY <1>14, <1>18, <1>20, <1>21, <2>1 DEF ReadingOK
<1> QED
  BY <1>1, <1>22 DEF RegisterInv

\* The oldest request leaves; when it is the latest one, no other is left.
LEMMA HeadLeaves ==
  ASSUME RegisterInv, reading # <<>>, NEW tail, tail = Tail(reading)
  PROVE  /\ reading[1] \in Requests /\ Awaited(reading[1])
         /\ tail \in Seq(Requests) /\ InOrder(tail)
         /\ \A i \in DOMAIN tail : Awaited(tail[i])
         /\ reading[1].id = query.latest => DOMAIN tail = {}
<1>1. reading \in Seq(Requests) /\ query.latest = reads /\ reads \in Nat
  BY DEF RegisterInv, ReadingOK
<1>2. PICK n \in Nat : n = Len(reading) /\ DOMAIN reading = 1..n
  BY <1>1, LenProperties
<1>3. n >= 1
  BY <1>1, <1>2, EmptySeq
<1>4. tail \in Seq(Requests) /\ Len(tail) = n - 1
  BY <1>1, <1>2, HeadTailProperties
<1>5. \A i \in 1..Len(tail) : tail[i] = reading[i + 1]
  BY <1>1, HeadTailProperties
<1>6. DOMAIN tail = 1..(n - 1)
  BY <1>4, LenProperties
<1>7. \A i \in 1..n : Awaited(reading[i]) /\ reading[i] \in Requests
  BY <1>1, <1>2 DEF RegisterInv, ReadingOK
<1>8. \A i, j \in 1..n : i < j => reading[i].id < reading[j].id
  BY <1>2 DEF RegisterInv, ReadingOK, InOrder
<1>9. \A i \in 1..(n - 1) : tail[i] = reading[i + 1] /\ i + 1 \in 1..n
  BY <1>4, <1>5
<1>10. \A i \in DOMAIN tail : Awaited(tail[i])
  BY <1>6, <1>7, <1>9
<1>11. InOrder(tail)
  BY <1>6, <1>8, <1>9 DEF InOrder
<1>12. reading[1].id = query.latest => DOMAIN tail = {}
  <2>1. SUFFICES ASSUME reading[1].id = reads, n >= 2 PROVE FALSE
    BY <1>1, <1>6
  <2>2. reading[1].id < reading[2].id /\ reading[2].id <= reads
    BY <1>7, <1>8, <2>1 DEF Awaited
  <2>3. reading[2].id \in Nat
    BY <1>7, <2>1 DEF Requests
  <2> QED
    BY <1>1, <2>1, <2>2, <2>3
<1> QED
  BY <1>3, <1>4, <1>7, <1>10, <1>11, <1>12
\* A page put in the place of the old one keeps what is said of pages.
LEMMA PageTaken ==
  ASSUME NEW p \in Shape, Continues(p), \A t \in p.tables : p.tables = {t} => StartOf(p, t),
         page' = p
  PROVE  PageOK'
BY DEF PageOK, Continues, StartOf, IsInjective

\* A page that is accepted from the cursor of its request.
LEMMA AcceptKeeps ==
  ASSUME RegisterInv, AcceptPage
  PROVE  RegisterInv'
<1>1. reading # <<>> /\ reading[1].answer # FirstPage
  BY DEF AcceptPage
<1>2. PICK tail : tail = Tail(reading)
  OBVIOUS
<1>3. reading' = tail /\ LedgerOK' /\ reads' = reads
  BY <1>2 DEF AcceptPage, RegisterInv, LedgerOK
<1>4. PICK request : request = reading[1]
  OBVIOUS
<1>5. request \in Requests /\ Awaited(request)
  BY <1>1, <1>2, <1>4, HeadLeaves
<1>6. tail \in Seq(Requests) /\ InOrder(tail) /\ \A i \in DOMAIN tail : Awaited(tail[i])
  BY <1>1, <1>2, HeadLeaves
<1>7. request.id = query.latest => DOMAIN tail = {}
  BY <1>1, <1>2, <1>4, HeadLeaves
<1>8. reads \in Nat /\ query.latest = reads /\ page \in Shape /\ Continues(page)
      /\ query \in [latest : Nat, cursor : Cursors, nextPage : BOOLEAN]
      /\ (query.nextPage => page.loaded /\ query.cursor # FirstPage)
  BY DEF RegisterInv, ReadingOK, PageOK, QueryOK
<1>9. PICK a, t : a = request.answer[1] /\ t = request.answer[2]
  OBVIOUS
<1>10. request.answer \in Pages \X Tables
  BY <1>1, <1>4, <1>5 DEF Requests
<1>11. a \in Pages /\ t \in Tables /\ a = PageAt(t, request.cursor) /\ request.cursor \in Cursors
  BY <1>1, <1>4, <1>5, <1>9, <1>10 DEF Awaited, Requests
<1>12. (a.more <=> a.next # FirstPage) /\ IsInjective(a.rows)
  BY <1>11, PageIsPage, PageRowsDistinct
<1>13. a.rows \in Seq(Nat) /\ a.more \in BOOLEAN /\ a.next \in Cursors
  BY <1>11 DEF Pages
<1>14. CASE UNCHANGED <<page, query, selection, saved>>
  <2>1. QueryOK' /\ PageOK' /\ SelectionOK'
    BY <1>14 DEF RegisterInv, QueryOK, PageOK, SelectionOK, Continues, StartOf
  <2>2. ASSUME NEW i \in DOMAIN reading' PROVE Awaited(reading[i])'
    <3>1. PICK waiting : waiting = tail[i] /\ waiting = reading'[i]
      BY <1>3
    <3>2. Awaited(waiting)
      BY <1>3, <1>6, <2>2, <3>1
    <3>3. query' = query
      BY <1>14
    <3> QED
      BY <1>3, <3>1, <3>2, <3>3 DEF Awaited
  <2>3. InOrder(reading)'
    BY <1>3, <1>6 DEF InOrder
  <2>4. ReadingOK'
    BY <1>3, <1>6, <1>8, <1>14, <2>2, <2>3 DEF ReadingOK
  <2> QED
    BY <1>3, <2>1, <2>4 DEF RegisterInv
<1>15. CASE ~UNCHANGED <<page, query, selection, saved>>
  <2>1. request.id = query.latest
        /\ query' = [query EXCEPT !.nextPage = FALSE]
        /\ selection' = RetainValid(selection, Range(page'.rows))
        /\ saved' = 0
    BY <1>4, <1>15 DEF AcceptPage
  <2>2. query.nextPage => page.next = request.cursor
                          /\ Range(a.rows) \cap Range(page.rows) = {}
    BY <1>4, <1>9, <1>15 DEF AcceptPage
  <2>3. request.cursor = query.cursor /\ (query.nextPage <=> query.cursor # FirstPage)
    BY <1>5, <1>8, <2>1 DEF Awaited
  <2>4. QueryOK'
    BY <1>8, <2>1 DEF QueryOK
  <2>5. ReadingOK'
    <3>1. DOMAIN reading' = {}
      BY <1>3, <1>7, <2>1
    <3>2. query'.latest = reads' /\ reads' \in Nat /\ reading' \in Seq(Requests)
      BY <1>3, <1>6, <1>8, <2>1
    <3> QED
      BY <3>1, <3>2 DEF ReadingOK, InOrder
  <2>6. SelectionOK'
    <3>1. PICK rows : rows = Range(page'.rows)
      OBVIOUS
    <3>2. selection' = [ids |-> selection.ids \cap rows,
                        anchor |-> IF selection.anchor \in rows THEN selection.anchor ELSE 0,
                        cursor |-> IF selection.cursor \in rows THEN selection.cursor ELSE 0]
      BY <2>1, <3>1 DEF RetainValid
    <3>3. selection'.ids \subseteq rows
          /\ selection'.anchor \in rows \cup {0} /\ selection'.cursor \in rows \cup {0}
      BY <3>2
    <3>4. selection' = [ids |-> selection'.ids, anchor |-> selection'.anchor,
                        cursor |-> selection'.cursor]
      BY <3>2
    <3>5. rows = Range(page.rows)'
      BY <3>1 DEF Range
    <3> QED
      BY <2>1, <3>3, <3>4, <3>5 DEF SelectionOK, Shown
  <2>7. PageOK'
    <3>1. CASE ~query.nextPage
      <4>1. PICK p : p = [loaded |-> TRUE, rows |-> a.rows, next |-> a.next, more |-> a.more,
                          tables |-> {t}]
        OBVIOUS
      <4>2. page' = p
        BY <1>4, <1>9, <1>15, <3>1, <4>1 DEF AcceptPage
      <4>3. p \in Shape /\ p.tables = {t} /\ p.rows = a.rows /\ p.more = a.more /\ p.next = a.next
        BY <1>11, <1>13, <4>1 DEF Shape
      <4>4. Continues(p)
        BY <1>12, <4>3 DEF Continues
      <4>5. a = PageAt(t, FirstPage)
        BY <1>11, <2>3, <3>1
      <4>6. StartOf(p, t)
        BY <1>11, <4>3, <4>5, FirstPageStarts
      <4> QED
        BY <4>2, <4>3, <4>4, <4>6, PageTaken
    <3>2. CASE query.nextPage
      <4>1. PICK old : old = page
        OBVIOUS
      <4>2. old \in Shape /\ Continues(old) /\ old.next = request.cursor
            /\ Range(a.rows) \cap Range(old.rows) = {}
        BY <1>8, <2>2, <3>2, <4>1
      <4>3. PICK rows, tables : rows = old.rows \o a.rows /\ tables = old.tables \cup {t}
        OBVIOUS
      <4>4. PICK p : p = [loaded |-> old.loaded, rows |-> rows, next |-> a.next, more |-> a.more,
                          tables |-> tables]
        OBVIOUS
      <4>5. page' = [old EXCEPT !.rows = rows, !.next = a.next, !.more = a.more,
                                !.tables = tables]
        BY <1>4, <1>9, <1>15, <3>2, <4>1, <4>3 DEF AcceptPage
      <4>6. page' = p
        <5>1. old = [loaded |-> old.loaded, rows |-> old.rows, next |-> old.next,
                     more |-> old.more, tables |-> old.tables]
          BY <4>2 DEF Shape
        <5>2. PICK next, more : next = a.next /\ more = a.more
          OBVIOUS
        <5>3. PICK one : one = [old EXCEPT !.rows = rows]
          OBVIOUS
        <5>4. one = [loaded |-> old.loaded, rows |-> rows, next |-> old.next,
                     more |-> old.more, tables |-> old.tables]
          BY <5>1, <5>3
        <5>5. PICK two : two = [one EXCEPT !.next = next]
          OBVIOUS
        <5>6. two = [loaded |-> old.loaded, rows |-> rows, next |-> next,
                     more |-> old.more, tables |-> old.tables]
          BY <5>4, <5>5
        <5>7. PICK three : three = [two EXCEPT !.more = more]
          OBVIOUS
        <5>8. three = [loaded |-> old.loaded, rows |-> rows, next |-> next,
                       more |-> more, tables |-> old.tables]
          BY <5>6, <5>7
        <5>9. [three EXCEPT !.tables = tables] = p
          BY <4>4, <5>2, <5>8
        <5>10. page' = [three EXCEPT !.tables = tables]
          BY <4>5, <5>2, <5>3, <5>5, <5>7
        <5> QED
          BY <5>9, <5>10
      <4>7. old.rows \in Seq(Nat) /\ old.tables \subseteq Tables /\ old.more
            /\ old.loaded /\ old.tables # {} /\ IsInjective(old.rows)
        BY <1>8, <2>2, <2>3, <3>2, <4>1, <4>2 DEF Shape, Continues
      <4>8. rows \in Seq(Nat)
        BY <1>13, <4>3, <4>7, ConcatProperties
      <4>9. p \in Shape /\ p.tables = tables /\ p.rows = rows /\ p.more = a.more
            /\ p.next = a.next /\ p.tables # {}
        BY <1>11, <1>13, <4>3, <4>4, <4>7, <4>8 DEF Shape
      <4>10. IsInjective(rows)
        <5>1. Range(old.rows) \cap Range(a.rows) = {}
          BY <4>2
        <5> QED
          BY <1>12, <1>13, <4>3, <4>7, <5>1, JoinDistinct
      <4>11. Continues(p)
        BY <1>12, <4>9, <4>10 DEF Continues
      <4>12. ASSUME NEW u \in p.tables, p.tables = {u} PROVE StartOf(p, u)
        <5>1. u = t /\ old.tables = {t}
          BY <4>3, <4>7, <4>9, <4>12
        <5>2. StartOf(old, t)
          BY <4>1, <5>1 DEF RegisterInv, PageOK
        <5>3. PICK list : list = InRegisterOrder(t, DOMAIN t)
          OBVIOUS
        <5>4. PICK n \in Nat : PageIs(old, t, list, n)
          BY <5>2, <5>3 DEF StartOf
        <5>5. a = PageAt(t, old.next)
          BY <1>11, <4>2
        <5>6. p.rows = old.rows \o a.rows /\ p.more = a.more /\ p.next = a.next
          BY <4>3, <4>9
        <5>7. \E k \in Nat : PageIs(p, t, list, k)
          BY <1>11, <4>7, <5>3, <5>4, <5>5, <5>6, NextPageJoins
        <5> QED
          BY <5>1, <5>3, <5>7 DEF StartOf
      <4> QED
        BY <4>6, <4>9, <4>11, <4>12, PageTaken
    <3> QED
      BY <3>1, <3>2
  <2> QED
    BY <1>3, <2>4, <2>5, <2>6, <2>7 DEF RegisterInv
<1> QED
  BY <1>14, <1>15
-----------------------------------------------------------------------------
(* The selection *)

IsShown(s) == /\ s = [ids |-> s.ids, anchor |-> s.anchor, cursor |-> s.cursor]
              /\ Shown(s, page.rows, saved)

\* A selection of shown rows keeps the invariant.
LEMMA SelectKeeps ==
  ASSUME RegisterInv, NEW s, Select(s), IsShown(s)
  PROVE  RegisterInv'
<1>1. LedgerOK' /\ ReadingOK' /\ QueryOK' /\ PageOK'
  <2>1. LedgerOK' /\ QueryOK' /\ PageOK'
    BY DEF RegisterInv, Select, LedgerOK, QueryOK, PageOK, Continues, StartOf
  <2>2. ReadingOK'
    BY DEF RegisterInv, Select, ReadingOK, Awaited, InOrder
  <2> QED
    BY <2>1, <2>2
<1>2. SelectionOK'
  <2>1. selection' = s /\ page' = page /\ saved' = saved
    BY DEF Select
  <2> QED
    BY <2>1 DEF SelectionOK, IsShown, Shown, Range
<1> QED
  BY <1>1, <1>2 DEF RegisterInv

\* The position of a row is where the page has it, or 0.
LEMMA PositionHolds ==
  ASSUME RegisterInv, NEW id
  PROVE  /\ Position(id) \in Nat
         /\ Position(id) # 0 => Position(id) \in DOMAIN page.rows
<1>1. page.rows \in Seq(Nat)
  BY DEF RegisterInv, PageOK, Shape
<1>2. PICK n \in Nat : n = Len(page.rows) /\ DOMAIN page.rows = 1..n
  BY <1>1, LenProperties
<1>3. PICK I : I = {i \in 1..Len(page.rows) : page.rows[i] = id}
  OBVIOUS
<1>4. I \subseteq 1..n /\ I \subseteq Int
  BY <1>2, <1>3
<1>5. IsFiniteSet(I)
  <2>1. IsFiniteSet(1..n)
    BY FS_Interval
  <2> QED
    BY <1>4, <2>1, FS_Subset
<1>6. Position(id) = IF I # {} THEN Min(I) ELSE 0
  BY <1>3 DEF Position, SelectInSeq
<1>7. I # {} => Min(I) \in I
  BY <1>4, <1>5, MinExists
<1>8. PICK least, position : least = Min(I) /\ position = Position(id)
  OBVIOUS
<1>9. position = (IF I # {} THEN least ELSE 0) /\ (I # {} => least \in 1..n)
  BY <1>4, <1>6, <1>7, <1>8
<1> QED
  BY <1>2, <1>8, <1>9

\* Any of the three ways to select a shown row selects shown rows.
LEMMA OnlyIsShown ==
  ASSUME RegisterInv, NEW id \in Range(page.rows) \cup {saved, 0}
  PROVE  IsShown(SelectOnly(id))
BY DEF SelectOnly, IsShown, Shown

\* A toggled selection is of rows shown.
LEMMA ToggleIsShown ==
  ASSUME RegisterInv, NEW id \in Range(page.rows) \cup {saved, 0}
  PROVE  IsShown(Toggle(id))
<1>1. Shown(selection, page.rows, saved)
  BY DEF RegisterInv, SelectionOK
<1>2. PICK rows : rows = Range(page.rows) \cup {saved, 0}
  OBVIOUS
<1>3. selection.ids \subseteq rows /\ selection.anchor \in rows /\ selection.cursor \in rows
  BY <1>1, <1>2 DEF Shown
<1>4. PICK ids, anchor :
        ids = (IF id \in selection.ids THEN selection.ids \ {id} ELSE selection.ids \cup {id})
        /\ anchor = (IF selection.anchor = 0 THEN id ELSE selection.anchor)
  OBVIOUS
<1>5. ids \subseteq rows /\ anchor \in rows /\ id \in rows
  BY <1>2, <1>3, <1>4
<1>6. Toggle(id) = [ids |-> ids, anchor |-> anchor, cursor |-> id]
  BY <1>4 DEF Toggle
<1> QED
  BY <1>2, <1>5, <1>6 DEF IsShown, Shown

\* A selected range is of rows shown.
LEMMA RangeIsShown ==
  ASSUME RegisterInv, NEW id \in Range(page.rows)
  PROVE  IsShown(SelectRange(id))
<1>1. Shown(selection, page.rows, saved)
      /\ selection = [ids |-> selection.ids, anchor |-> selection.anchor,
                      cursor |-> selection.cursor]
  BY DEF RegisterInv, SelectionOK
<1>2. PICK anchor : anchor = IF selection.anchor = 0 THEN id ELSE selection.anchor
  OBVIOUS
<1>3. PICK span : span = {Position(anchor), Position(id)}
  OBVIOUS
<1>4. CASE 0 \in span
  <2>1. SelectRange(id) = SelectOnly(id)
    BY <1>2, <1>3, <1>4 DEF SelectRange
  <2> QED
    BY <2>1, OnlyIsShown
<1>5. CASE 0 \notin span
  <2>1. PICK ids : ids = {page.rows[k] : k \in Min(span)..Max(span)}
    OBVIOUS
  <2>2. SelectRange(id) = [selection EXCEPT !.ids = ids, !.cursor = id]
    BY <1>2, <1>3, <1>5, <2>1 DEF SelectRange
  <2>3. SelectRange(id) = [ids |-> ids, anchor |-> selection.anchor, cursor |-> id]
    <3>1. PICK s : s = selection
      OBVIOUS
    <3>2. s = [ids |-> s.ids, anchor |-> s.anchor, cursor |-> s.cursor]
      BY <1>1, <3>1
    <3>3. PICK one : one = [s EXCEPT !.ids = ids]
      OBVIOUS
    <3>4. one = [ids |-> ids, anchor |-> s.anchor, cursor |-> s.cursor]
      BY <3>2, <3>3
    <3>5. [one EXCEPT !.cursor = id] = [ids |-> ids, anchor |-> s.anchor, cursor |-> id]
      BY <3>4
    <3> QED
      BY <2>2, <3>1, <3>3, <3>5
  <2>4. PICK n \in Nat : n = Len(page.rows) /\ DOMAIN page.rows = 1..n
    <3>1. page.rows \in Seq(Nat)
      BY DEF RegisterInv, PageOK, Shape
    <3> QED
      BY <3>1, LenProperties
  <2>5. span \subseteq 1..n /\ span # {} /\ span \subseteq Int
    BY <1>3, <1>5, <2>4, PositionHolds
  <2>6. IsFiniteSet(span)
    <3>1. IsFiniteSet(1..n)
      BY FS_Interval
    <3> QED
      BY <2>5, <3>1, FS_Subset
  <2>7. Min(span) \in span /\ Max(span) \in span
    BY <2>5, <2>6, MinExists, MaxExists
  <2>8. Min(span)..Max(span) \subseteq 1..n
    <3>1. PICK low, high : low = Min(span) /\ high = Max(span)
      OBVIOUS
    <3>2. low \in 1..n /\ high \in 1..n
      BY <2>5, <2>7, <3>1
    <3> QED
      BY <2>4, <3>1, <3>2
  <2>9. ids \subseteq Range(page.rows)
    BY <2>1, <2>4, <2>8 DEF Range
  <2> QED
    BY <1>1, <2>3, <2>9 DEF IsShown, Shown
<1> QED
  BY <1>4, <1>5

\* Clicks, key presses and toggles select shown rows.
LEMMA SelectionMoves ==
  ASSUME RegisterInv,
         \/ ToggleCurrent
         \/ \E k \in DOMAIN page.rows : ClickRow(page.rows[k])
         \/ \E delta \in {-1, 1}, extend \in BOOLEAN : MoveCursor(delta, extend)
  PROVE  RegisterInv'
<1>1. CASE ToggleCurrent
  <2>1. PICK id : id = selection.cursor
    OBVIOUS
  <2>2. id \in Range(page.rows) \cup {saved, 0}
    BY <2>1 DEF RegisterInv, SelectionOK, Shown
  <2>3. PICK s : s = Toggle(id)
    OBVIOUS
  <2>4. Select(s)
    BY <1>1, <2>1, <2>3 DEF ToggleCurrent
  <2> QED
    BY <2>2, <2>3, <2>4, ToggleIsShown, SelectKeeps
<1>2. CASE \E k \in DOMAIN page.rows : ClickRow(page.rows[k])
  <2>1. PICK k \in DOMAIN page.rows : ClickRow(page.rows[k])
    BY <1>2
  <2>2. PICK id : id = page.rows[k]
    OBVIOUS
  <2>3. id \in Range(page.rows)
    BY <2>1, <2>2 DEF Range
  <2>4. PICK s : s \in {SelectOnly(id), Toggle(id), SelectRange(id)} /\ Select(s)
    BY <2>1, <2>2 DEF ClickRow
  <2>5. IsShown(s)
    BY <2>3, <2>4, OnlyIsShown, ToggleIsShown, RangeIsShown
  <2> QED
    BY <2>4, <2>5, SelectKeeps
<1>3. CASE \E delta \in {-1, 1}, extend \in BOOLEAN : MoveCursor(delta, extend)
  <2>1. PICK delta \in {-1, 1}, extend \in BOOLEAN : MoveCursor(delta, extend)
    BY <1>3
  <2>2. PICK current : current = IF Position(selection.cursor) = 0 THEN 1
                                 ELSE Position(selection.cursor)
    OBVIOUS
  <2>3. PICK n \in Nat : n = Len(page.rows) /\ DOMAIN page.rows = 1..n
    <3>1. page.rows \in Seq(Nat)
      BY DEF RegisterInv, PageOK, Shape
    <3> QED
      BY <3>1, LenProperties
  <2>4. n >= 1 /\ (delta > 0 => current < n)
    <3>1. page.rows # <<>> /\ page.rows \in Seq(Nat) /\ (delta > 0 => current < Len(page.rows))
      BY <2>1, <2>2 DEF MoveCursor, RegisterInv, PageOK, Shape
    <3> QED
      BY <2>3, <3>1, EmptySeq
  <2>5. current \in 1..n
    <3>1. PICK cursor : cursor = selection.cursor
      OBVIOUS
    <3> QED
      BY <2>2, <2>3, <2>4, <3>1, PositionHolds
  <2>6. PICK at : at = Max({current + delta, 1})
    OBVIOUS
  <2>7. at \in 1..n
    <3>1. PICK span : span = {current + delta, 1}
      OBVIOUS
    <3>2. span \subseteq Int /\ span # {} /\ IsFiniteSet(span)
      <4>1. IsFiniteSet({1})
        BY FS_Singleton
      <4>2. IsFiniteSet({1} \cup {current + delta})
        BY <4>1, FS_AddElement
      <4>3. span = {1} \cup {current + delta}
        BY <3>1
      <4> QED
        BY <2>1, <2>5, <3>1, <4>2, <4>3
    <3>3. Max(span) \in span /\ \A x \in span : Max(span) >= x
      BY <3>2, MaxExists
    <3> QED
      BY <2>1, <2>4, <2>5, <2>6, <3>1, <3>3
  <2>8. PICK id : id = page.rows[at]
    OBVIOUS
  <2>9. id \in Range(page.rows)
    BY <2>3, <2>7, <2>8 DEF Range
  <2>10. PICK s : s \in {SelectOnly(id), SelectRange(id)} /\ Select(s)
    BY <2>1, <2>2, <2>6, <2>8 DEF MoveCursor
  <2>11. IsShown(s)
    BY <2>9, <2>10, OnlyIsShown, RangeIsShown
  <2> QED
    BY <2>10, <2>11, SelectKeeps
<1> QED
  BY <1>1, <1>2, <1>3
-----------------------------------------------------------------------------
(* The ledger under the register *)

\* Rows come, change their date and go, and the register is read from a ledger still.
LEMMA LedgerIsTable ==
  ASSUME NEW t \in Tables, NEW r \in Nat, NEW date \in Int
  PROVE  /\ Put(t, r, date) \in Tables
         /\ Restrict(t, DOMAIN t \ {r}) \in Tables
         /\ [t EXCEPT ![r] = date] \in Tables
<1>1. IsFiniteSet(DOMAIN t) /\ DOMAIN t \subseteq Nat /\ t = [q \in DOMAIN t |-> t[q]]
      /\ \A q \in DOMAIN t : t[q] \in Int
  BY TableShape
<1>2. ASSUME NEW f, NEW ids \in SUBSET Nat, f \in [ids -> Int], IsFiniteSet(ids)
      PROVE  f \in Tables
  BY <1>2 DEF Tables
<1>3. PICK more, fewer : more = DOMAIN t \cup {r} /\ fewer = DOMAIN t \ {r}
  OBVIOUS
<1>4. more \in SUBSET Nat /\ fewer \in SUBSET Nat /\ DOMAIN t \in SUBSET Nat
  BY <1>1, <1>3
<1>5. IsFiniteSet(more)
  BY <1>1, <1>3, FS_AddElement
<1>6. IsFiniteSet(fewer)
  BY <1>1, <1>3, FS_RemoveElement
<1>7. Put(t, r, date) \in [more -> Int]
  BY <1>1, <1>3 DEF Put
<1>8. Restrict(t, fewer) \in [fewer -> Int]
  BY <1>1, <1>3 DEF Restrict
<1>9. [t EXCEPT ![r] = date] \in [DOMAIN t -> Int]
  BY <1>1
<1> QED
  BY <1>1, <1>2, <1>3, <1>4, <1>5, <1>6, <1>7, <1>8, <1>9

\* What is done to the ledger keeps the invariant.
LEMMA LedgerKeeps ==
  ASSUME RegisterInv,
         \/ \E date \in RegisterDates :
              CreateRow(date) \/ \E id \in DOMAIN table : RedateRow(id, date)
         \/ \E id \in DOMAIN table : RemoveRow(id)
  PROVE  RegisterInv'
<1>1. PICK t, n : t = table /\ n = issuedRows
  OBVIOUS
<1>2. t \in Tables /\ n \in Nat /\ DOMAIN t \subseteq Nat
  <2>1. t \in Tables /\ n \in Nat
    BY <1>1 DEF RegisterInv, LedgerOK
  <2> QED
    BY <2>1, TableShape
<1>3. RegisterDates \subseteq Int
  BY RegisterAssumption
<1>4. LedgerOK' /\ \/ \E id : selection' = SelectOnly(id) /\ saved' = id
                   \/ selection' = selection /\ saved' = saved
  <2>1. CASE \E date \in RegisterDates : CreateRow(date)
    <3>1. PICK date \in RegisterDates : CreateRow(date)
      BY <2>1
    <3>2. n + 1 \in Nat /\ issuedRows' = n + 1 /\ table' = Put(t, n + 1, date)
          /\ selection' = SelectOnly(n + 1) /\ saved' = n + 1
      BY <1>1, <1>2, <3>1 DEF CreateRow
    <3>3. Put(t, n + 1, date) \in Tables
      BY <1>2, <1>3, <3>2, LedgerIsTable
    <3> QED
      BY <3>2, <3>3 DEF LedgerOK
  <2>2. CASE \E date \in RegisterDates, id \in DOMAIN table : RedateRow(id, date)
    <3>1. PICK date \in RegisterDates, id \in DOMAIN table : RedateRow(id, date)
      BY <2>2
    <3>2. issuedRows' = n /\ table' = [t EXCEPT ![id] = date]
          /\ selection' = SelectOnly(id) /\ saved' = id
      BY <1>1, <3>1 DEF RedateRow
    <3>3. id \in Nat /\ date \in Int
      BY <1>1, <1>2, <1>3, <3>1
    <3>4. [t EXCEPT ![id] = date] \in Tables
      BY <1>2, <3>3, LedgerIsTable
    <3> QED
      BY <1>2, <3>2, <3>4 DEF LedgerOK
  <2>3. CASE \E id \in DOMAIN table : RemoveRow(id)
    <3>1. PICK id \in DOMAIN table : RemoveRow(id)
      BY <2>3
    <3>2. issuedRows' = n /\ table' = Restrict(t, DOMAIN t \ {id})
          /\ selection' = selection /\ saved' = saved
      BY <1>1, <3>1 DEF RemoveRow
    <3>3. id \in Nat /\ 0 \in Int
      BY <1>1, <1>2, <3>1
    <3>4. Restrict(t, DOMAIN t \ {id}) \in Tables
      BY <1>2, <3>3, LedgerIsTable
    <3> QED
      BY <1>2, <3>2, <3>4 DEF LedgerOK
  <2> QED
    BY <2>1, <2>2, <2>3
<1>5. UNCHANGED <<page, query, reading, reads>>
  BY DEF CreateRow, RedateRow, RemoveRow
<1>6. QueryOK' /\ PageOK'
  BY <1>5 DEF RegisterInv, QueryOK, PageOK, Continues, StartOf
<1>7. ReadingOK'
  BY <1>5 DEF RegisterInv, ReadingOK, Awaited, InOrder
<1>8. SelectionOK'
  <2>1. CASE \E id : selection' = SelectOnly(id) /\ saved' = id
    <3>1. PICK id : selection' = SelectOnly(id) /\ saved' = id
      BY <2>1
    <3> QED
      BY <3>1 DEF SelectOnly, SelectionOK, Shown
  <2>2. CASE selection' = selection /\ saved' = saved
    BY <1>5, <2>2 DEF RegisterInv, SelectionOK, Shown, Range
  <2> QED
    BY <1>4, <2>1, <2>2
<1> QED
  BY <1>4, <1>6, <1>7, <1>8 DEF RegisterInv

\* Every step keeps the invariant.
LEMMA RegisterStep == RegisterInv /\ [RegisterNext]_register => RegisterInv'
<1> SUFFICES ASSUME RegisterInv, [RegisterNext]_register PROVE RegisterInv'
  OBVIOUS
<1>1. CASE RefreshRegister
  <2>1. Ask(FirstPage, FALSE)
    BY <1>1 DEF RefreshRegister
  <2>2. FirstPage \in Cursors
    BY DEF Cursors
  <2> QED
    BY <2>1, <2>2, AskKeeps
<1>2. CASE AskNextPage
  <2>1. PICK cursor : cursor = page.next
    OBVIOUS
  <2>2. Ask(cursor, TRUE) /\ page.loaded
    BY <1>2, <2>1 DEF AskNextPage
  <2>3. cursor \in Cursors /\ cursor # FirstPage
    BY <1>2, <2>1 DEF AskNextPage, RegisterInv, PageOK, Continues, Shape
  <2> QED
    BY <2>2, <2>3, AskKeeps
<1>3. CASE UNCHANGED register
  <2>1. LedgerOK' /\ QueryOK' /\ PageOK'
    BY <1>3 DEF register, RegisterInv, LedgerOK, QueryOK, PageOK, Continues, StartOf
  <2>2. ReadingOK'
    BY <1>3 DEF register, RegisterInv, ReadingOK, Awaited, InOrder
  <2>3. SelectionOK'
    BY <1>3 DEF register, RegisterInv, SelectionOK, Shown, Range
  <2> QED
    BY <2>1, <2>2, <2>3 DEF RegisterInv
<1>4. CASE ReadPage \/ AcceptPage
  BY <1>4, ReadKeeps, AcceptKeeps
<1>5. CASE \/ ToggleCurrent
           \/ \E k \in DOMAIN page.rows : ClickRow(page.rows[k])
           \/ \E delta \in {-1, 1}, extend \in BOOLEAN : MoveCursor(delta, extend)
  BY <1>5, SelectionMoves
<1>6. CASE \/ \E date \in RegisterDates :
                CreateRow(date) \/ \E id \in DOMAIN table : RedateRow(id, date)
           \/ \E id \in DOMAIN table : RemoveRow(id)
  BY <1>6, LedgerKeeps
<1> QED
  BY <1>1, <1>2, <1>3, <1>4, <1>5, <1>6 DEF RegisterNext

\* The start of a ledger is its first rows, and all of them when there are no more.
LEMMA StartFits ==
  ASSUME NEW t \in Tables, NEW p, StartOf(p, t)
  PROVE  /\ p.rows = SubSeq(InRegisterOrder(t, DOMAIN t), 1, Len(p.rows))
         /\ ~p.more => Len(p.rows) = Cardinality(DOMAIN t)
<1>1. PICK list : list = InRegisterOrder(t, DOMAIN t)
  OBVIOUS
<1>2. DOMAIN t \in SUBSET DOMAIN t
  OBVIOUS
<1>3. IsListing(t, DOMAIN t, list)
  BY <1>1, <1>2, RegisterOrderLists
<1>4. list \in Seq(Nat) /\ Len(list) = Cardinality(DOMAIN t)
  BY <1>2, <1>3, ListingShape
<1>5. PICK k \in Nat : PageIs(p, t, list, k)
  BY <1>1 DEF StartOf
<1>6. k \in 0..Len(list) /\ p.rows \in Seq(Nat) /\ Len(p.rows) = k
      /\ (\A i \in 1..k : p.rows[i] = list[i]) /\ (~p.more => k = Len(list))
  BY <1>5 DEF PageIs
<1>7. PICK len \in Nat : len = Len(list) /\ DOMAIN list = 1..len
  BY <1>4, LenProperties
<1>8. \A i \in 1..k : list[i] \in Nat
  BY <1>4, <1>6, <1>7
<1>9. PICK start : start = SubSeq(list, 1, k)
  OBVIOUS
<1>10. start \in Seq(Nat)
  BY <1>8, <1>9, SubSeqProperties
<1>11. Len(start) = IF 1 <= k THEN k - 1 + 1 ELSE 0
  BY <1>8, <1>9, SubSeqProperties
<1>12. \A i \in 1..(k - 1 + 1) : start[i] = list[1 + i - 1]
  BY <1>8, <1>9, SubSeqProperties
<1>13. Len(start) = k /\ \A i \in 1..k : start[i] = list[i]
  BY <1>11, <1>12
<1>14. p.rows = start
  BY <1>6, <1>10, <1>13, SeqEqual
<1> QED
  BY <1>1, <1>4, <1>6, <1>9, <1>14

\* What is kept says what is promised.
LEMMA RegisterShows == RegisterInv => PagesFitTogether /\ SelectionIsShown
<1> SUFFICES ASSUME RegisterInv PROVE PagesFitTogether /\ SelectionIsShown
  OBVIOUS
<1>1. PagesFitTogether
  <2>1. PICK p : p = page
    OBVIOUS
  <2>2. p \in Shape /\ IsInjective(p.rows) /\ \A t \in p.tables : p.tables = {t} => StartOf(p, t)
    BY <2>1 DEF RegisterInv, PageOK, Continues
  <2>3. p.tables \subseteq Tables
    BY <2>2 DEF Shape
  <2>4. \A i, j \in DOMAIN p.rows : p.rows[i] = p.rows[j] => i = j
    BY <2>2 DEF IsInjective
  <2>5. ASSUME NEW t \in p.tables, p.tables = {t}
        PROVE  /\ p.rows = SubSeq(InRegisterOrder(t, DOMAIN t), 1, Len(p.rows))
               /\ ~p.more => Len(p.rows) = Cardinality(DOMAIN t)
    <3>1. t \in Tables /\ StartOf(p, t)
      BY <2>2, <2>3, <2>5
    <3> QED
      BY <3>1, StartFits
  <2> QED
    BY <2>1, <2>4, <2>5 DEF PagesFitTogether
<1>2. SelectionIsShown
  BY DEF RegisterInv, SelectionOK, Shown, SelectionIsShown
<1> QED
  BY <1>1, <1>2

\* However pages are asked for, answered late and joined while rows come, change their date
\* and go: no row is on the screen twice, and what was read from one ledger is its first
\* rows, none skipped (RegisterQueryState::accept, QueryStore::register_page).
THEOREM PagesAlwaysFit == RegisterSpec => []PagesFitTogether
BY RegisterStart, RegisterStep, RegisterShows, PTL DEF RegisterSpec

\* Every row a key press acts on is on the page shown, or the row just saved
\* (retain_valid_ids, the selection of ui::register_view).
THEOREM SelectionAlwaysShown == RegisterSpec => []SelectionIsShown
BY RegisterStart, RegisterStep, RegisterShows, PTL DEF RegisterSpec
-----------------------------------------------------------------------------
(* The projections of the session *)

InvalidKinds ==
  {"accounts", "month", "rollover", "inbox", "payees", "reports", "all_transactions"}
Invalids == [kind : InvalidKinds, month : Int]
Places == {"Overview", "Budget", "Categories", "Reports", "AllTransactions", "Account"}
Commits == Mutations \cup {[kind |-> "restore", month |-> 1]}
ViewKeys == {Nothing} \cup Int \cup BOOLEAN \cup CatalogCategories \cup ReportRequests \cup Mutations

ViewRequests == [id : Nat \ {0}, generation : Nat, of : Projections \cup {"command"}, key : ViewKeys]
AnswerRecords ==
  [id : Nat \ {0}, generation : Nat, of : Projections \cup {"command"}, key : ViewKeys,
   failed : BOOLEAN, revision : Nat]
Answers == {a \in AnswerRecords : a.of = "command" => a.key \in Mutations}
Queries == [shown : {Nothing} \cup [key : ViewKeys, revision : Nat], asked : ViewKeys, latest : Nat,
            refreshing : BOOLEAN, failed : BOOLEAN]
Views == [workspace : Places, account : ViewAccounts \cup {Nothing, Home}, month : Int,
          archived : BOOLEAN, category : CatalogCategories \cup {Nothing},
          activity : CatalogCategories \cup {Nothing}, generation : Nat, ids : Nat,
          queries : [Projections -> Queries], sent : Seq(ViewRequests),
          pending : SUBSET Invalids, lost : SUBSET Nat]

\* A query that is neither under way nor failed shows what was asked.
Shows(q) ==
  /\ q.latest # 0 /\ ~q.refreshing /\ ~q.failed => q.shown.key = q.asked
  /\ q.latest = 0 => q.shown = Nothing

\* A message answers, or will answer, what was asked last, if it is the latest of its kind.
OnItsWay(v, m) ==
  /\ m.id <= v.ids
  /\ \A p \in Projections : m.of = p /\ m.id = v.queries[p].latest => m.key = v.queries[p].asked

Consistent(v) ==
  /\ \A p \in Projections : v.queries[p].latest <= v.ids /\ Shows(v.queries[p])
  /\ \A k \in DOMAIN v.sent :
       /\ OnItsWay(v, v.sent[k])
       /\ v.sent[k].of = "command" => v.sent[k].key \in Mutations

\* The rest of a view when a query begins.
SameElse(v, w) ==
  /\ w.workspace = v.workspace /\ w.account = v.account /\ w.month = v.month
  /\ w.archived = v.archived /\ w.category = v.category /\ w.activity = v.activity
  /\ w.generation = v.generation /\ w.pending = v.pending /\ w.lost = v.lost

\* A view is the record of its fields.
LEMMA ViewShape ==
  ASSUME NEW v \in Views
  PROVE  /\ v = [workspace |-> v.workspace, account |-> v.account, month |-> v.month,
                 archived |-> v.archived, category |-> v.category, activity |-> v.activity,
                 generation |-> v.generation, ids |-> v.ids, queries |-> v.queries,
                 sent |-> v.sent, pending |-> v.pending, lost |-> v.lost]
         /\ v.workspace \in Places /\ v.account \in ViewAccounts \cup {Nothing, Home}
         /\ v.month \in Int /\ v.archived \in BOOLEAN
         /\ v.category \in CatalogCategories \cup {Nothing}
         /\ v.activity \in CatalogCategories \cup {Nothing}
         /\ v.generation \in Nat /\ v.ids \in Nat
         /\ v.queries \in [Projections -> Queries] /\ v.sent \in Seq(ViewRequests)
         /\ v.pending \in SUBSET Invalids /\ v.lost \in SUBSET Nat
BY DEF Views

\* What begin and the submission change.
LEMMA BeginQueryIs ==
  ASSUME NEW v \in Views, NEW of \in Projections, NEW key \in ViewKeys,
         NEW w, w = BeginQuery(v, of, key)
  PROVE  /\ w \in Views /\ SameElse(v, w) /\ w.ids = v.ids + 1
         /\ w.queries = [v.queries EXCEPT ![of] =
                           [shown |-> v.queries[of].shown, asked |-> key, latest |-> v.ids + 1,
                            refreshing |-> TRUE, failed |-> FALSE]]
         /\ w.sent = Append(v.sent, [id |-> v.ids + 1, generation |-> v.generation,
                                     of |-> of, key |-> key])
<1>1. PICK q : q = v.queries[of]
  OBVIOUS
<1>2. q \in Queries /\ v.ids \in Nat
  BY <1>1, ViewShape
<1>3. PICK r : r = [q EXCEPT !.asked = key, !.latest = v.ids + 1, !.refreshing = TRUE, !.failed = FALSE]
  OBVIOUS
<1>4. r = [shown |-> q.shown, asked |-> key, latest |-> v.ids + 1, refreshing |-> TRUE, failed |-> FALSE]
  BY <1>2, <1>3 DEF Queries
<1>5. r \in Queries
  BY <1>2, <1>4 DEF Queries
<1>6. PICK request : request = [id |-> v.ids + 1, generation |-> v.generation, of |-> of, key |-> key]
  OBVIOUS
<1>7. request \in ViewRequests
  BY <1>2, <1>6, ViewShape DEF ViewRequests
<1>8. PICK s : s = Send(v, of, key)
  OBVIOUS
<1>9. PICK t : t = [v EXCEPT !.ids = v.ids + 1]
  OBVIOUS
<1>9a. t = [workspace |-> v.workspace, account |-> v.account, month |-> v.month,
            archived |-> v.archived, category |-> v.category, activity |-> v.activity,
            generation |-> v.generation, ids |-> v.ids + 1, queries |-> v.queries,
            sent |-> v.sent, pending |-> v.pending, lost |-> v.lost]
  BY <1>9, ViewShape
<1>9b. s = [t EXCEPT !.sent = Append(v.sent, request)]
  BY <1>6, <1>8, <1>9, ViewShape DEF Send
<1>10. s = [workspace |-> v.workspace, account |-> v.account, month |-> v.month,
            archived |-> v.archived, category |-> v.category, activity |-> v.activity,
            generation |-> v.generation, ids |-> v.ids + 1, queries |-> v.queries,
            sent |-> Append(v.sent, request), pending |-> v.pending, lost |-> v.lost]
  BY <1>9a, <1>9b
<1>11. w = [s EXCEPT !.queries[of] = r]
  <2>1. s.queries[of] = q
    BY <1>1, <1>10
  <2> QED
    BY <1>3, <1>8, <2>1 DEF BeginQuery
<1>12. w = [workspace |-> v.workspace, account |-> v.account, month |-> v.month,
            archived |-> v.archived, category |-> v.category, activity |-> v.activity,
            generation |-> v.generation, ids |-> v.ids + 1,
            queries |-> [v.queries EXCEPT ![of] = r],
            sent |-> Append(v.sent, request), pending |-> v.pending, lost |-> v.lost]
  BY <1>10, <1>11
<1>13. [v.queries EXCEPT ![of] = r] \in [Projections -> Queries]
  BY <1>5, ViewShape
<1>14. Append(v.sent, request) \in Seq(ViewRequests)
  BY <1>7, ViewShape, AppendProperties
<1>15. w \in Views
  BY <1>12, <1>13, <1>14, ViewShape DEF Views
<1> QED
  BY <1>1, <1>4, <1>6, <1>12, <1>15 DEF SameElse

\* Queries begin: a later view asks the same of a projection or a new question, which is
\* sent, and every message stays the answer to what it was the answer to.
Asks(v, w) ==
  /\ w \in Views /\ SameElse(v, w) /\ w.ids >= v.ids
  /\ \A p \in Projections : \/ w.queries[p] = v.queries[p]
                            \/ w.queries[p].latest > v.ids /\ w.queries[p].refreshing
  /\ Consistent(v) => Consistent(w)
  /\ \A m \in Answers : OnItsWay(v, m) => OnItsWay(w, m)

\* Beginning a query asks, and changes no other query.
LEMMA BeginQueryAsks ==
  ASSUME NEW v \in Views, NEW of \in Projections, NEW key \in ViewKeys,
         NEW w, w = BeginQuery(v, of, key)
  PROVE  /\ Asks(v, w)
         /\ w.queries[of].latest = v.ids + 1 /\ w.queries[of].refreshing /\ w.queries[of].asked = key
         /\ \A p \in Projections \ {of} : w.queries[p] = v.queries[p]
<1>1. /\ w \in Views /\ SameElse(v, w) /\ w.ids = v.ids + 1 /\ v.ids \in Nat
      /\ w.queries = [v.queries EXCEPT ![of] =
                        [shown |-> v.queries[of].shown, asked |-> key, latest |-> v.ids + 1,
                         refreshing |-> TRUE, failed |-> FALSE]]
      /\ w.sent = Append(v.sent, [id |-> v.ids + 1, generation |-> v.generation,
                                  of |-> of, key |-> key])
      /\ v.queries \in [Projections -> Queries] /\ v.sent \in Seq(ViewRequests)
  BY BeginQueryIs, ViewShape
<1>2. /\ w.queries[of].latest = v.ids + 1 /\ w.queries[of].refreshing /\ w.queries[of].asked = key
      /\ \A p \in Projections \ {of} : w.queries[p] = v.queries[p]
  BY <1>1
<1>3. ASSUME NEW m, m.id \in Nat, OnItsWay(v, m) PROVE OnItsWay(w, m)
  <2>1. m.id <= v.ids
    BY <1>3 DEF OnItsWay
  <2>2. m.id <= w.ids /\ m.id # v.ids + 1
    BY <1>1, <1>3, <2>1
  <2> QED
    BY <1>2, <1>3, <2>2 DEF OnItsWay
<1>4. ASSUME Consistent(v) PROVE Consistent(w)
  <2>1. ASSUME NEW p \in Projections PROVE w.queries[p].latest <= w.ids /\ Shows(w.queries[p])
    <3>1. CASE p = of
      BY <1>1, <1>2, <3>1 DEF Shows
    <3>2. CASE p # of
      <4>1. w.queries[p] = v.queries[p] /\ v.queries[p].latest \in Nat
        BY <1>1, <1>2, <3>2 DEF Queries
      <4>2. v.queries[p].latest <= v.ids /\ Shows(v.queries[p])
        BY <1>4 DEF Consistent
      <4> QED
        BY <1>1, <4>1, <4>2
    <3> QED
      BY <3>1, <3>2
  <2>2. ASSUME NEW k \in DOMAIN w.sent
        PROVE  /\ OnItsWay(w, w.sent[k])
               /\ w.sent[k].of = "command" => w.sent[k].key \in Mutations
    <3>1. PICK len \in Nat : len = Len(v.sent)
      BY <1>1, LenProperties
    <3>2. /\ DOMAIN w.sent = 1..(len + 1) /\ DOMAIN v.sent = 1..len
          /\ \A i \in 1..len : w.sent[i] = v.sent[i]
          /\ w.sent[len + 1] = [id |-> v.ids + 1, generation |-> v.generation, of |-> of, key |-> key]
      BY <1>1, <3>1
    <3>3. CASE k = len + 1
      BY <1>1, <1>2, <3>2, <3>3 DEF OnItsWay, Projections
    <3>4. CASE k # len + 1
      <4>1. k \in DOMAIN v.sent /\ w.sent[k] = v.sent[k]
        BY <3>2, <3>4
      <4>2. v.sent[k] \in ViewRequests
        BY <1>1, <4>1, ElementOfSeq, LenProperties
      <4> QED
        BY <1>3, <1>4, <4>1, <4>2 DEF Consistent, ViewRequests
    <3> QED
      BY <3>3, <3>4
  <2> QED
    BY <2>1, <2>2 DEF Consistent
<1>5. \A m \in Answers : OnItsWay(v, m) => OnItsWay(w, m)
  BY <1>3 DEF Answers, AnswerRecords
<1>6. \A p \in Projections : \/ w.queries[p] = v.queries[p]
                             \/ w.queries[p].latest > v.ids /\ w.queries[p].refreshing
  BY <1>1, <1>2
<1> QED
  BY <1>1, <1>4, <1>5, <1>6 DEF Asks
-----------------------------------------------------------------------------
(* Invalidations *)

\* Asking for nothing asks, too.
LEMMA AsksNothing ==
  ASSUME NEW v \in Views
  PROVE  Asks(v, v)
BY ViewShape DEF Asks, SameElse

\* One question after another.
LEMMA AsksOn ==
  ASSUME NEW v \in Views, NEW w, Asks(v, w), NEW x, Asks(w, x)
  PROVE  Asks(v, x)
<1>1. /\ w \in Views /\ SameElse(v, w) /\ w.ids >= v.ids /\ w.ids \in Nat /\ v.ids \in Nat
      /\ x \in Views /\ SameElse(w, x) /\ x.ids >= w.ids /\ x.ids \in Nat
      /\ x.queries \in [Projections -> Queries]
  BY ViewShape DEF Asks
<1>2. SameElse(v, x) /\ x.ids >= v.ids
  BY <1>1 DEF SameElse
<1>3. ASSUME NEW p \in Projections
      PROVE  \/ x.queries[p] = v.queries[p]
             \/ x.queries[p].latest > v.ids /\ x.queries[p].refreshing
  <2>1. x.queries[p].latest \in Nat
    BY <1>1 DEF Queries
  <2>2. \/ x.queries[p] = w.queries[p]
        \/ x.queries[p].latest > w.ids /\ x.queries[p].refreshing
    BY DEF Asks
  <2>3. \/ w.queries[p] = v.queries[p]
        \/ w.queries[p].latest > v.ids /\ w.queries[p].refreshing
    BY DEF Asks
  <2> QED
    BY <1>1, <2>1, <2>2, <2>3
<1>4. /\ Consistent(v) => Consistent(x)
      /\ \A m \in Answers : OnItsWay(v, m) => OnItsWay(x, m)
  BY DEF Asks
<1> QED
  BY <1>1, <1>2, <1>3, <1>4 DEF Asks

\* One projection is asked for, if it is due; the others stay as they are.
LEMMA RequestIfAsks ==
  ASSUME NEW v \in Views, NEW due \in BOOLEAN, NEW of \in Projections, NEW key \in ViewKeys,
         NEW w, w = RequestIf(v, due, of, key)
  PROVE  /\ Asks(v, w)
         /\ \A p \in Projections \ {of} : w.queries[p] = v.queries[p]
         /\ due => w.queries[of].latest > v.ids /\ w.queries[of].refreshing /\ w.queries[of].asked = key
         /\ ~due => w.queries[of] = v.queries[of]
<1>1. CASE due
  <2>1. w = BeginQuery(v, of, key)
    BY <1>1 DEF RequestIf
  <2>2. /\ Asks(v, w)
        /\ w.queries[of].latest = v.ids + 1 /\ w.queries[of].refreshing /\ w.queries[of].asked = key
        /\ \A p \in Projections \ {of} : w.queries[p] = v.queries[p]
    BY <2>1, BeginQueryAsks
  <2>3. w.queries[of].latest > v.ids
    BY <2>2, ViewShape
  <2> QED
    BY <1>1, <2>2, <2>3
<1>2. CASE ~due
  BY <1>2, AsksNothing DEF RequestIf
<1> QED
  BY <1>1, <1>2

Touches(v, invalid, p) ==
  IF p = "month" THEN MonthTouched(invalid, v.month) ELSE invalid = Invalid(p)
Due(v, p) == \E invalid \in v.pending : Touches(v, invalid, p)

Watched == {"accounts", "month", "inbox", "payees"}
MonthAsked(v) == Due(v, "month") \/ v.queries["month"].asked = v.month

\* The processing of the invalidations begins the queries that are due.
LEMMA InvalidationsAsk ==
  ASSUME NEW v \in Views, NEW w, w = ProcessInvalidations(v)
  PROVE  /\ Asks([v EXCEPT !.pending = {}], w) /\ w.pending = {}
         /\ \A p \in Watched : Due(v, p) => w.queries[p].latest > v.ids /\ w.queries[p].refreshing
         /\ MonthAsked(v) => w.queries["month"].asked = w.month
         /\ w.queries["catalog"] = v.queries["catalog"] /\ w.queries["detail"] = v.queries["detail"]
<1>1. PICK s : s = [v EXCEPT !.pending = {}]
  OBVIOUS
<1>2. s = [workspace |-> v.workspace, account |-> v.account, month |-> v.month,
           archived |-> v.archived, category |-> v.category, activity |-> v.activity,
           generation |-> v.generation, ids |-> v.ids, queries |-> v.queries,
           sent |-> v.sent, pending |-> {}, lost |-> v.lost]
  <2>1. PICK none : none = {}
    OBVIOUS
  <2>2. s = [v EXCEPT !.pending = none]
    BY <1>1, <2>1
  <2>3. s = [workspace |-> v.workspace, account |-> v.account, month |-> v.month,
             archived |-> v.archived, category |-> v.category, activity |-> v.activity,
             generation |-> v.generation, ids |-> v.ids, queries |-> v.queries,
             sent |-> v.sent, pending |-> none, lost |-> v.lost]
    BY <2>2, ViewShape
  <2> QED
    BY <2>1, <2>3
<1>3. s \in Views
  <2>1. {} \in SUBSET Invalids
    OBVIOUS
  <2> QED
    BY <1>2, <2>1, ViewShape DEF Views
<1>3a. PICK dueAccounts, dueInbox, duePayees :
         /\ dueAccounts = (Invalid("accounts") \in v.pending)
         /\ dueInbox = (Invalid("inbox") \in v.pending)
         /\ duePayees = (Invalid("payees") \in v.pending)
  OBVIOUS
<1>4. PICK accounts : accounts = RequestIf(s, dueAccounts, "accounts", Nothing)
  OBVIOUS
<1>5. PICK month : month = RequestIf(accounts, MonthDue(v), "month", v.month)
  OBVIOUS
<1>6. PICK inbox : inbox = RequestIf(month, dueInbox, "inbox", Nothing)
  OBVIOUS
<1>7. PICK wanted : wanted = (/\ Invalid("all_transactions") \in v.pending
                              /\ v.workspace = "AllTransactions" /\ v.activity # Nothing)
  OBVIOUS
<1>8. PICK listed : listed = RequestIf(inbox, wanted, "register", v.activity)
  OBVIOUS
<1>9. PICK again : again = v.queries["report"].asked
  OBVIOUS
<1>10. PICK open : open = (/\ Invalid("reports") \in v.pending /\ v.workspace = "Reports"
                           /\ again # Nothing)
  OBVIOUS
<1>11. PICK report : report = RequestIf(listed, open, "report", again)
  OBVIOUS
<1>12. w = RequestIf(report, duePayees, "payees", Nothing)
  BY <1>1, <1>3a, <1>4, <1>5, <1>6, <1>7, <1>8, <1>9, <1>10, <1>11 DEF ProcessInvalidations
<1>13. /\ {"accounts", "month", "inbox", "register", "report", "payees"} \subseteq Projections
       /\ Nothing \in ViewKeys /\ v.month \in ViewKeys /\ v.activity \in ViewKeys /\ again \in ViewKeys
  <2>1. v.queries["report"] \in Queries
    BY ViewShape DEF Projections
  <2>2. again \in ViewKeys
    BY <1>9, <2>1 DEF Queries
  <2> QED
    BY <2>2, ViewShape DEF Projections, ViewKeys
<1>14. MonthDue(v) \in BOOLEAN /\ wanted \in BOOLEAN /\ open \in BOOLEAN
  BY <1>7, <1>10 DEF MonthDue
<1>14a. dueAccounts \in BOOLEAN /\ dueInbox \in BOOLEAN /\ duePayees \in BOOLEAN
  BY <1>3a
<1>15. /\ Asks(s, accounts)
       /\ \A p \in Projections \ {"accounts"} : accounts.queries[p] = s.queries[p]
       /\ dueAccounts =>
            accounts.queries["accounts"].latest > s.ids /\ accounts.queries["accounts"].refreshing
  BY <1>3, <1>4, <1>13, <1>14a, RequestIfAsks
<1>16. accounts \in Views
  BY <1>15 DEF Asks
<1>17. /\ Asks(accounts, month)
       /\ \A p \in Projections \ {"month"} : month.queries[p] = accounts.queries[p]
       /\ MonthDue(v) => month.queries["month"].latest > accounts.ids
                         /\ month.queries["month"].refreshing /\ month.queries["month"].asked = v.month
       /\ ~MonthDue(v) => month.queries["month"] = accounts.queries["month"]
  BY <1>5, <1>13, <1>14, <1>16, RequestIfAsks
<1>18. month \in Views
  BY <1>17 DEF Asks
<1>19. /\ Asks(month, inbox)
       /\ \A p \in Projections \ {"inbox"} : inbox.queries[p] = month.queries[p]
       /\ dueInbox =>
            inbox.queries["inbox"].latest > month.ids /\ inbox.queries["inbox"].refreshing
  BY <1>6, <1>13, <1>14a, <1>18, RequestIfAsks
<1>20. inbox \in Views
  BY <1>19 DEF Asks
<1>21. /\ Asks(inbox, listed)
       /\ \A p \in Projections \ {"register"} : listed.queries[p] = inbox.queries[p]
  BY <1>8, <1>13, <1>14, <1>20, RequestIfAsks
<1>22. listed \in Views
  BY <1>21 DEF Asks
<1>23. /\ Asks(listed, report)
       /\ \A p \in Projections \ {"report"} : report.queries[p] = listed.queries[p]
  BY <1>11, <1>13, <1>14, <1>22, RequestIfAsks
<1>24. report \in Views
  BY <1>23 DEF Asks
<1>25. /\ Asks(report, w)
       /\ \A p \in Projections \ {"payees"} : w.queries[p] = report.queries[p]
       /\ duePayees =>
            w.queries["payees"].latest > report.ids /\ w.queries["payees"].refreshing
  BY <1>12, <1>13, <1>14a, <1>24, RequestIfAsks
<1>26. w \in Views
  BY <1>25 DEF Asks
<1>27. Asks(s, month) /\ Asks(s, inbox) /\ Asks(s, listed) /\ Asks(s, report)
  <2>1. Asks(s, month)
    BY <1>3, <1>15, <1>17, AsksOn
  <2>2. Asks(s, inbox)
    BY <1>3, <1>19, <2>1, AsksOn
  <2>3. Asks(s, listed)
    BY <1>3, <1>21, <2>2, AsksOn
  <2> QED
    BY <1>3, <1>23, <2>1, <2>2, <2>3, AsksOn
<1>28. Asks(s, w)
  BY <1>3, <1>25, <1>27, AsksOn
<1>29. w.pending = {} /\ w.month = v.month /\ s.ids = v.ids
  BY <1>2, <1>28 DEF Asks, SameElse
<1>30. /\ accounts.ids \in Nat /\ month.ids \in Nat /\ report.ids \in Nat /\ v.ids \in Nat
       /\ accounts.ids >= v.ids /\ month.ids >= v.ids /\ report.ids >= v.ids
  BY <1>15, <1>16, <1>18, <1>24, <1>27, <1>29, ViewShape DEF Asks
<1>31. /\ w.queries["accounts"] = accounts.queries["accounts"]
       /\ w.queries["month"] = month.queries["month"]
       /\ w.queries["inbox"] = inbox.queries["inbox"]
  BY <1>13, <1>17, <1>19, <1>21, <1>23, <1>25
<1>32. \A p \in Watched : w.queries[p].latest \in Nat
  BY <1>26, ViewShape DEF Watched, Projections, Queries
<1>33. ASSUME NEW p \in Watched, Due(v, p)
       PROVE  w.queries[p].latest > v.ids /\ w.queries[p].refreshing
  <2>1. CASE p = "month"
    <3>1. MonthDue(v)
      BY <1>33, <2>1 DEF Due, Touches, MonthDue
    <3> QED
      BY <1>17, <1>30, <1>31, <1>32, <2>1, <3>1
  <2>2. CASE p # "month"
    <3>1. Invalid(p) \in v.pending
      BY <1>33, <2>2 DEF Due, Touches
    <3>2. CASE p = "accounts"
      <4>1. w.queries[p] = accounts.queries[p] /\ accounts.queries[p].refreshing
            /\ accounts.queries[p].latest > s.ids
        BY <1>3a, <1>15, <1>31, <3>1, <3>2
      <4> QED
        BY <1>29, <4>1
    <3>3. CASE p = "inbox"
      <4>1. w.queries[p] = inbox.queries[p] /\ inbox.queries[p].refreshing
            /\ inbox.queries[p].latest > month.ids
        BY <1>3a, <1>19, <1>31, <3>1, <3>3
      <4>2. w.queries[p].latest > v.ids
        BY <1>30, <1>32, <1>33, <4>1
      <4> QED
        BY <4>1, <4>2
    <3>4. CASE p = "payees"
      <4>1. w.queries[p].refreshing /\ w.queries[p].latest > report.ids
        BY <1>3a, <1>25, <3>1, <3>4
      <4>2. w.queries[p].latest > v.ids
        BY <1>30, <1>32, <1>33, <4>1
      <4> QED
        BY <4>1, <4>2
    <3> QED
      BY <1>33, <2>2, <3>2, <3>3, <3>4 DEF Watched
  <2> QED
    BY <2>1, <2>2
<1>34. MonthAsked(v) => w.queries["month"].asked = w.month
  <2>1. Due(v, "month") <=> MonthDue(v)
    BY DEF Due, Touches, MonthDue
  <2>2. accounts.queries["month"] = v.queries["month"]
    BY <1>2, <1>13, <1>15
  <2> QED
    BY <1>17, <1>29, <1>31, <2>1, <2>2 DEF MonthAsked
<1>35. w.queries["catalog"] = v.queries["catalog"] /\ w.queries["detail"] = v.queries["detail"]
  BY <1>2, <1>15, <1>17, <1>19, <1>21, <1>23, <1>25 DEF Projections
<1> QED
  BY <1>1, <1>28, <1>29, <1>33, <1>34, <1>35
-----------------------------------------------------------------------------
(* Answers *)

Replaces(v, of, r, w) == w = [v EXCEPT !.queries[of] = r]

\* One query of a view becomes another.
LEMMA QueryReplaced ==
  ASSUME NEW v \in Views, NEW of \in Projections, NEW r \in Queries,
         NEW w, Replaces(v, of, r, w)
  PROVE  /\ w \in Views /\ SameElse(v, w) /\ w.ids = v.ids /\ w.sent = v.sent
         /\ w.queries[of] = r
         /\ \A p \in Projections \ {of} : w.queries[p] = v.queries[p]
<1>1. w = [workspace |-> v.workspace, account |-> v.account, month |-> v.month,
           archived |-> v.archived, category |-> v.category, activity |-> v.activity,
           generation |-> v.generation, ids |-> v.ids,
           queries |-> [v.queries EXCEPT ![of] = r],
           sent |-> v.sent, pending |-> v.pending, lost |-> v.lost]
  BY ViewShape DEF Replaces
<1>2. v.queries \in [Projections -> Queries]
  BY ViewShape
<1>3. [v.queries EXCEPT ![of] = r] \in [Projections -> Queries]
  BY <1>2
<1>4. w \in Views
  BY <1>1, <1>3, ViewShape DEF Views
<1>5. /\ w.queries[of] = r
      /\ \A p \in Projections \ {of} : w.queries[p] = v.queries[p]
  BY <1>1, <1>2
<1> QED
  BY <1>1, <1>4, <1>5 DEF SameElse

\* Leaving for the first account changes no query.
LEMMA HomeIs ==
  ASSUME NEW v \in Views, NEW w, w = GoHome(v)
  PROVE  /\ w \in Views /\ w.month = v.month /\ w.pending = v.pending /\ w.lost = v.lost
         /\ w.archived = v.archived /\ w.category = v.category
         /\ w.ids = v.ids /\ w.sent = v.sent /\ w.queries = v.queries
<1>1. CASE v.account = Home
  BY <1>1 DEF GoHome
<1>2. CASE v.account # Home
  <2>1. PICK x : x = [v EXCEPT !.account = Home]
    OBVIOUS
  <2>2. x = [workspace |-> v.workspace, account |-> Home, month |-> v.month,
             archived |-> v.archived, category |-> v.category, activity |-> v.activity,
             generation |-> v.generation, ids |-> v.ids, queries |-> v.queries,
             sent |-> v.sent, pending |-> v.pending, lost |-> v.lost]
    BY <2>1, ViewShape
  <2>3. PICK y : y = [x EXCEPT !.workspace = "Account"]
    OBVIOUS
  <2>4. y = [workspace |-> "Account", account |-> Home, month |-> v.month,
             archived |-> v.archived, category |-> v.category, activity |-> v.activity,
             generation |-> v.generation, ids |-> v.ids, queries |-> v.queries,
             sent |-> v.sent, pending |-> v.pending, lost |-> v.lost]
    BY <2>2, <2>3
  <2>5. w = [y EXCEPT !.generation = v.generation + 1]
    BY <1>2, <2>1, <2>3, ViewShape DEF GoHome
  <2>6. w = [workspace |-> "Account", account |-> Home, month |-> v.month,
             archived |-> v.archived, category |-> v.category, activity |-> v.activity,
             generation |-> v.generation + 1, ids |-> v.ids, queries |-> v.queries,
             sent |-> v.sent, pending |-> v.pending, lost |-> v.lost]
    BY <2>4, <2>5
  <2>7. PICK g \in Nat : g = v.generation + 1
    BY ViewShape
  <2>7a. PICK place \in Places : place = "Account"
    BY DEF Places
  <2>7b. w = [workspace |-> place, account |-> Home, month |-> v.month,
             archived |-> v.archived, category |-> v.category, activity |-> v.activity,
             generation |-> g, ids |-> v.ids, queries |-> v.queries,
             sent |-> v.sent, pending |-> v.pending, lost |-> v.lost]
    BY <2>6, <2>7, <2>7a
  <2>8. w \in Views
    BY <2>7b, ViewShape DEF Views
  <2> QED
    BY <2>6, <2>8
<1> QED
  BY <1>1, <1>2

\* What an answer may do to a query: settle it as failed, or show what was read.
Settles(q, a, r) ==
  /\ r.asked = q.asked /\ r.latest = q.latest
  /\ \/ r = q
     \/ /\ a.id = q.latest /\ ~r.refreshing
        /\ \/ r.failed
           \/ ~a.failed /\ r.shown = [key |-> a.key, revision |-> a.revision]

Handles(v, a, w) ==
  /\ w \in Views /\ w.ids = v.ids /\ w.sent = v.sent /\ w.month = v.month
  /\ w.archived = v.archived /\ w.category \in {Nothing, v.category}
  /\ v.pending \subseteq w.pending /\ v.lost \subseteq w.lost
  /\ \A p \in Projections : \/ w.queries[p] = v.queries[p]
                            \/ a.of = p /\ Settles(v.queries[p], a, w.queries[p])
  /\ a.of = "command" /\ ~a.failed => \/ a.revision \in w.lost
                                      \/ Announced(a.key) \subseteq w.pending

\* The fields of an answer.
LEMMA AnswerShape ==
  ASSUME NEW a \in Answers
  PROVE  /\ a.id \in Nat /\ a.id # 0 /\ a.of \in Projections \cup {"command"} /\ a.key \in ViewKeys
         /\ a.failed \in BOOLEAN /\ a.revision \in Nat
         /\ a.of = "command" => a.key \in Mutations
BY DEF Answers, AnswerRecords

\* What a commit announces is an invalidation.
LEMMA AnnouncedTyped ==
  ASSUME NEW m \in Mutations
  PROVE  Announced(m) \subseteq Invalids
<1>1. m.month \in Int
  BY ViewsAssumption
<1>3. /\ Invalid("all_transactions") \in Invalids /\ Invalid("reports") \in Invalids
      /\ Invalid("accounts") \in Invalids /\ Invalid("inbox") \in Invalids
      /\ Invalid("payees") \in Invalids
      /\ InvalidMonth("month", m.month) \in Invalids /\ InvalidMonth("rollover", m.month) \in Invalids
  BY <1>1 DEF Invalids, InvalidKinds, Invalid, InvalidMonth
<1>4. AnnouncedOfRecords(m) \subseteq Invalids
  BY <1>3 DEF AnnouncedOfRecords
<1>5. m.kind \in {"assignment", "transaction", "batch"} => AnnouncedOfMoney(m) \subseteq Invalids
  BY <1>3 DEF AnnouncedOfMoney
<1> QED
  BY <1>3, <1>4, <1>5 DEF Announced

\* Accepting an answer handles it.
LEMMA AcceptHandles ==
  ASSUME NEW v \in Views, NEW a \in Answers, a.of \in Projections, ~a.failed,
         v.queries[a.of].latest = a.id, NEW w, w = Accept(v, a)
  PROVE  Handles(v, a, w)
<1>1. PICK q : q = v.queries[a.of]
  OBVIOUS
<1>2. q \in Queries
  BY <1>1, ViewShape
<1>3. PICK view : view = [key |-> a.key, revision |-> a.revision]
  OBVIOUS
<1>4. PICK r : r = [q EXCEPT !.shown = view, !.refreshing = FALSE, !.failed = FALSE]
  OBVIOUS
<1>5. r = [shown |-> view, asked |-> q.asked, latest |-> q.latest, refreshing |-> FALSE, failed |-> FALSE]
  BY <1>2, <1>4 DEF Queries
<1>6. r \in Queries
  <2>1. view \in [key : ViewKeys, revision : Nat]
    BY <1>3, AnswerShape
  <2> QED
    BY <1>2, <1>5, <2>1 DEF Queries
<1>7. PICK x : x = [v EXCEPT !.queries[a.of] = r]
  OBVIOUS
<1>7a. PICK of \in Projections : of = a.of
  OBVIOUS
<1>7b. Replaces(v, of, r, x)
  BY <1>7, <1>7a DEF Replaces
<1>7c. /\ x \in Views /\ SameElse(v, x) /\ x.ids = v.ids /\ x.sent = v.sent
       /\ x.queries[of] = r
       /\ \A p \in Projections \ {of} : x.queries[p] = v.queries[p]
  BY <1>6, <1>7b, QueryReplaced
<1>8. /\ x \in Views /\ SameElse(v, x) /\ x.ids = v.ids /\ x.sent = v.sent
      /\ x.queries[a.of] = r
      /\ \A p \in Projections \ {a.of} : x.queries[p] = v.queries[p]
  BY <1>7a, <1>7c
<1>9. Settles(v.queries[a.of], a, r)
  BY <1>1, <1>3, <1>5 DEF Settles
<1>10. Handles(v, a, x)
  <2>1. a.of # "command"
    BY DEF Projections
  <2> QED
    BY <1>8, <1>9, <2>1 DEF Handles, SameElse
<1>11. \/ w = GoHome(x) \/ w = [x EXCEPT !.category = Nothing] \/ w = x
  BY <1>1, <1>3, <1>4, <1>7 DEF Accept
<1>12. /\ w \in Views /\ w.month = x.month /\ w.pending = x.pending /\ w.lost = x.lost
       /\ w.ids = x.ids /\ w.sent = x.sent /\ w.queries = x.queries
       /\ w.archived = x.archived /\ w.category \in {Nothing, x.category}
  <2>1. CASE w = GoHome(x)
    BY <1>8, <2>1, HomeIs
  <2>2. CASE w = [x EXCEPT !.category = Nothing]
    <3>1. w = [workspace |-> x.workspace, account |-> x.account, month |-> x.month,
               archived |-> x.archived, category |-> Nothing, activity |-> x.activity,
               generation |-> x.generation, ids |-> x.ids, queries |-> x.queries,
               sent |-> x.sent, pending |-> x.pending, lost |-> x.lost]
      BY <1>8, <2>2, ViewShape
    <3> QED
      BY <1>8, <3>1, ViewShape DEF Views
  <2>3. CASE w = x
    BY <1>8, <2>3
  <2> QED
    BY <1>11, <2>1, <2>2, <2>3
<1> QED
  BY <1>10, <1>12 DEF Handles

\* A failed query handles the answer that failed it.
LEMMA FailureHandles ==
  ASSUME NEW v \in Views, NEW a \in Answers, a.of \in Projections, NEW w, w = FailQuery(v, a)
  PROVE  Handles(v, a, w)
<1>0. a.of # "command"
  BY DEF Projections
<1>1. CASE a.of # "register" /\ v.queries[a.of].latest = a.id
  <2>1. PICK q : q = v.queries[a.of]
    OBVIOUS
  <2>2. q \in Queries
    BY <2>1, ViewShape
  <2>3. PICK r : r = [q EXCEPT !.refreshing = FALSE, !.failed = TRUE]
    OBVIOUS
  <2>4. r = [shown |-> q.shown, asked |-> q.asked, latest |-> q.latest, refreshing |-> FALSE, failed |-> TRUE]
    BY <2>2, <2>3 DEF Queries
  <2>5. r \in Queries
    BY <2>2, <2>4 DEF Queries
  <2>6. w = [v EXCEPT !.queries[a.of] = r]
    BY <1>1, <2>1, <2>3 DEF FailQuery
  <2>6a. PICK of \in Projections : of = a.of
    OBVIOUS
  <2>6b. Replaces(v, of, r, w)
    BY <2>6, <2>6a DEF Replaces
  <2>6c. /\ w \in Views /\ SameElse(v, w) /\ w.ids = v.ids /\ w.sent = v.sent
         /\ w.queries[of] = r
         /\ \A p \in Projections \ {of} : w.queries[p] = v.queries[p]
    BY <2>5, <2>6b, QueryReplaced
  <2>7. /\ w \in Views /\ SameElse(v, w) /\ w.ids = v.ids /\ w.sent = v.sent
        /\ w.queries[a.of] = r
        /\ \A p \in Projections \ {a.of} : w.queries[p] = v.queries[p]
    BY <2>6a, <2>6c
  <2>8. Settles(v.queries[a.of], a, r)
    BY <1>1, <2>1, <2>4 DEF Settles
  <2> QED
    BY <1>0, <2>7, <2>8 DEF Handles, SameElse
<1>2. CASE ~(a.of # "register" /\ v.queries[a.of].latest = a.id)
  BY <1>0, <1>2 DEF FailQuery, Handles
<1> QED
  BY <1>1, <1>2

\* One step of a drain.
LEMMA AnswerHandled ==
  ASSUME NEW v \in Views, NEW a \in Answers, NEW w, w = HandleAnswer(v, a)
  PROVE  Handles(v, a, w)
<1>1. CASE a.of = "command"
  <2>1. CASE ~a.failed /\ a.generation # v.generation
    <3>1. PICK lost : lost = v.lost \cup {a.revision}
      OBVIOUS
    <3>2. w = [v EXCEPT !.lost = lost]
      BY <1>1, <2>1, <3>1 DEF HandleAnswer
    <3>3. w = [workspace |-> v.workspace, account |-> v.account, month |-> v.month,
               archived |-> v.archived, category |-> v.category, activity |-> v.activity,
               generation |-> v.generation, ids |-> v.ids, queries |-> v.queries,
               sent |-> v.sent, pending |-> v.pending, lost |-> lost]
      BY <3>2, ViewShape
    <3>4. lost \in SUBSET Nat
      BY <3>1, AnswerShape, ViewShape
    <3>5. w \in Views
      BY <3>3, <3>4, ViewShape DEF Views
    <3> QED
      BY <3>1, <3>3, <3>5 DEF Handles
  <2>2. CASE ~a.failed /\ a.generation = v.generation
    <3>1. PICK pending : pending = v.pending \cup Announced(a.key)
      OBVIOUS
    <3>2. w = [v EXCEPT !.pending = pending]
      BY <1>1, <2>2, <3>1 DEF HandleAnswer
    <3>3. w = [workspace |-> v.workspace, account |-> v.account, month |-> v.month,
               archived |-> v.archived, category |-> v.category, activity |-> v.activity,
               generation |-> v.generation, ids |-> v.ids, queries |-> v.queries,
               sent |-> v.sent, pending |-> pending, lost |-> v.lost]
      BY <3>2, ViewShape
    <3>4. pending \in SUBSET Invalids
      BY <1>1, <3>1, AnnouncedTyped, AnswerShape, ViewShape
    <3>5. w \in Views
      BY <3>3, <3>4, ViewShape DEF Views
    <3> QED
      BY <3>1, <3>3, <3>5 DEF Handles
  <2>3. CASE a.failed
    <3>1. w = v
      BY <1>1, <2>3 DEF HandleAnswer
    <3> QED
      BY <2>3, <3>1 DEF Handles
  <2> QED
    BY <2>1, <2>2, <2>3
<1>2. CASE a.of # "command"
  <2>1. a.of \in Projections
    BY <1>2, AnswerShape
  <2>2. CASE a.generation = v.generation /\ a.failed
    <3>1. w = FailQuery(v, a)
      BY <1>2, <2>2 DEF HandleAnswer
    <3> QED
      BY <2>1, <3>1, FailureHandles
  <2>3. CASE a.generation = v.generation /\ ~a.failed /\ Acceptable(v, a)
    <3>1. w = Accept(v, a) /\ v.queries[a.of].latest = a.id
      BY <1>2, <2>3 DEF HandleAnswer, Acceptable
    <3> QED
      BY <2>1, <2>3, <3>1, AcceptHandles
  <2>4. CASE a.generation # v.generation \/ (~a.failed /\ ~Acceptable(v, a))
    <3>1. w = v
      BY <1>2, <2>4 DEF HandleAnswer
    <3> QED
      BY <1>2, <3>1 DEF Handles
  <2> QED
    BY <2>2, <2>3, <2>4
<1> QED
  BY <1>1, <1>2
-----------------------------------------------------------------------------
(* A drain *)

\* What the answers ks of a list have done to a view.
Drains(v, list, ks, w) ==
  /\ w \in Views /\ w.ids = v.ids /\ w.sent = v.sent /\ w.month = v.month
  /\ w.archived = v.archived /\ w.category \in {Nothing, v.category}
  /\ v.pending \subseteq w.pending /\ v.lost \subseteq w.lost
  /\ \A p \in Projections : \/ w.queries[p] = v.queries[p]
                            \/ \E k \in ks : list[k].of = p /\ Settles(v.queries[p], list[k], w.queries[p])
  /\ \A k \in ks : list[k].of = "command" /\ ~list[k].failed =>
                     \/ list[k].revision \in w.lost
                     \/ Announced(list[k].key) \subseteq w.pending

\* One more answer is handled.
LEMMA DrainsOn ==
  ASSUME NEW v \in Views, NEW list, NEW ks, NEW w, Drains(v, list, ks, w),
         NEW k, NEW x, Handles(w, list[k], x)
  PROVE  Drains(v, list, ks \cup {k}, x)
<1>1. /\ x \in Views /\ x.ids = v.ids /\ x.sent = v.sent /\ x.month = v.month
      /\ v.pending \subseteq x.pending /\ v.lost \subseteq x.lost
      /\ w.pending \subseteq x.pending /\ w.lost \subseteq x.lost
      /\ x.archived = v.archived /\ x.category \in {Nothing, v.category}
  BY DEF Drains, Handles
<1>2. ASSUME NEW p \in Projections
      PROVE  \/ x.queries[p] = v.queries[p]
             \/ \E j \in ks \cup {k} : list[j].of = p /\ Settles(v.queries[p], list[j], x.queries[p])
  <2>1. \/ w.queries[p] = v.queries[p]
        \/ \E j \in ks : list[j].of = p /\ Settles(v.queries[p], list[j], w.queries[p])
    BY DEF Drains
  <2>2. CASE x.queries[p] = w.queries[p]
    BY <2>1, <2>2
  <2>3. CASE list[k].of = p /\ Settles(w.queries[p], list[k], x.queries[p])
    <3>1. w.queries[p].latest = v.queries[p].latest /\ w.queries[p].asked = v.queries[p].asked
      BY <2>1 DEF Settles
    <3>2. x.queries[p] = w.queries[p] \/ Settles(v.queries[p], list[k], x.queries[p])
      BY <2>3, <3>1 DEF Settles
    <3> QED
      BY <2>2, <2>3, <3>2
  <2> QED
    BY <2>2, <2>3 DEF Handles
<1>3. ASSUME NEW j \in ks \cup {k}, list[j].of = "command", ~list[j].failed
      PROVE  list[j].revision \in x.lost \/ Announced(list[j].key) \subseteq x.pending
  <2>1. CASE j = k
    BY <1>3, <2>1 DEF Handles
  <2>2. CASE j \in ks
    BY <1>1, <1>3, <2>2 DEF Drains
  <2> QED
    BY <1>3, <2>1, <2>2
<1> QED
  BY <1>1, <1>2, <1>3 DEF Drains

\* The drain handles every answer of its list.
LEMMA DrainHandles ==
  ASSUME NEW base \in Views, NEW list \in Seq(Answers)
  PROVE  Drains(base, list, DOMAIN list, FoldLeft(HandleAnswer, base, list))
<1>0. PICK S : S = DOMAIN list
  OBVIOUS
<1> DEFINE pick == [s \in SUBSET S |-> Max(s)]
           step == [p \in S \X Views |-> HandleAnswer(p[2], list[p[1]])]
           Body(f) == [s \in SUBSET S |->
                         IF s = {} THEN base ELSE HandleAnswer(f[s \ {Max(s)}], list[Max(s)])]
           iter == CHOOSE f : f = Body(f)
<1>1. FoldLeft(HandleAnswer, base, list) = iter[S]
  BY <1>0 DEF FoldLeft, MapThenFoldSet
<1>2. IsFiniteSet(S) /\ S \subseteq Int
  <2>1. S = 1..Len(list) /\ Len(list) \in Nat
    BY <1>0, LenProperties
  <2> QED
    BY <2>1, FS_Interval
<1>2a. IsFiniteSet(S)
  BY <1>2
<1>3. \A s \in SUBSET S : s # {} => pick[s] = Max(s) /\ Max(s) \in s
  <2>1. ASSUME NEW s \in SUBSET S, s # {} PROVE Max(s) \in s
    <3>1. IsFiniteSet(s) /\ s \subseteq Int
      BY <1>2, FS_Subset
    <3> QED
      BY <2>1, <3>1, MaxExists
  <2> QED
    BY <2>1
<1>4. Picks(pick, S)
  BY <1>3 DEF Picks
<1>5. \A i \in S, o \in Views : step[<<i, o>>] = HandleAnswer(o, list[i]) /\ step[<<i, o>>] \in Views
  <2>1. ASSUME NEW i \in S, NEW o \in Views
        PROVE  step[<<i, o>>] = HandleAnswer(o, list[i]) /\ step[<<i, o>>] \in Views
    <3>1. list[i] \in Answers
      BY <1>0, ElementOfSeq, LenProperties
    <3>2. PICK a, w2 : a \in Answers /\ a = list[i] /\ w2 = HandleAnswer(o, a)
      BY <3>1
    <3>3. w2 \in Views
      BY <3>2, AnswerHandled DEF Handles
    <3> QED
      BY <3>2, <3>3
  <2> QED
    BY <2>1
<1> HIDE DEF pick, step
<1>6. PICK f : FoldsUp(f, S, base, step, pick)
  BY <1>2, <1>4, FoldsExist
<1>7. \A s \in SUBSET S : f[s] \in Views
  <2> DEFINE J == {s \in SUBSET S : f[s] \in Views}
  <2>1. {} \in J
    BY <1>6 DEF FoldsUp
  <2>2. ASSUME NEW s \in SUBSET S, s # {}, s \ {pick[s]} \in J PROVE s \in J
    <3>1. f[s] = step[<<pick[s], f[s \ {pick[s]}]>>]
      BY <1>6, <2>2, FoldOf
    <3>2. pick[s] \in S
      BY <1>3, <2>2
    <3> QED
      BY <1>5, <2>2, <3>1, <3>2
  <2> HIDE DEF J
  <2>3. \A s \in SUBSET S : s \in J
    BY <1>2a, <1>4, <2>1, <2>2, SubsetInduction
  <2> QED
    BY <2>3 DEF J
<1>8. f = Body(f)
  <2>1. ASSUME NEW s \in SUBSET S, s # {}
        PROVE  f[s] = HandleAnswer(f[s \ {Max(s)}], list[Max(s)])
    <3>1. f[s] = step[<<pick[s], f[s \ {pick[s]}]>>]
      BY <1>6, <2>1, FoldOf
    <3>2. PICK m : m = Max(s)
      OBVIOUS
    <3>3. pick[s] = m /\ m \in S
      BY <1>3, <2>1, <3>2
    <3>4. f[s \ {m}] \in Views
      BY <1>7
    <3> QED
      BY <1>5, <3>1, <3>2, <3>3, <3>4
  <2>2. f[{}] = base
    BY <1>6 DEF FoldsUp
  <2>3. f = [s \in SUBSET S |-> f[s]]
    BY <1>6 DEF FoldsUp
  <2> QED
    BY <2>1, <2>2, <2>3
<1>9. iter = Body(iter)
  <2> HIDE DEF Body
  <2> QED
    BY <1>8
<1>10. /\ iter[{}] = base
       /\ \A s \in SUBSET S : s # {} =>
            \E m \in s : m = pick[s] /\ iter[s] = HandleAnswer(iter[s \ {m}], list[m])
  <2> HIDE DEF iter
  <2>1. ASSUME NEW s \in SUBSET S, s # {}
        PROVE \E m \in s : m = pick[s] /\ iter[s] = HandleAnswer(iter[s \ {m}], list[m])
    <3>1. iter[s] = HandleAnswer(iter[s \ {Max(s)}], list[Max(s)])
      BY <1>9, <2>1
    <3> QED
      BY <1>3, <2>1, <3>1
  <2> QED
    BY <1>9, <2>1
<1> HIDE DEF iter
<1> DEFINE K == {s \in SUBSET S : Drains(base, list, s, iter[s])}
<1>11. {} \in K
  <2>1. Drains(base, list, {}, base)
    BY DEF Drains
  <2> QED
    BY <1>10, <2>1
<1>12. ASSUME NEW s \in SUBSET S, s # {}, s \ {pick[s]} \in K PROVE s \in K
  <2>1. PICK m \in s : m = pick[s] /\ iter[s] = HandleAnswer(iter[s \ {m}], list[m])
    BY <1>10, <1>12
  <2>2. PICK r, o : r = s \ {m} /\ o = iter[r]
    OBVIOUS
  <2>3. Drains(base, list, r, o) /\ o \in Views
    BY <1>12, <2>1, <2>2 DEF Drains
  <2>4. PICK a, x : a = list[m] /\ x = HandleAnswer(o, a)
    OBVIOUS
  <2>5. a \in Answers
    BY <1>0, <2>4, ElementOfSeq, LenProperties
  <2>6. Handles(o, list[m], x)
    BY <2>3, <2>4, <2>5, AnswerHandled
  <2>7. Drains(base, list, r \cup {m}, x)
    BY <2>3, <2>6, DrainsOn
  <2>8. r \cup {m} = s /\ x = iter[s]
    BY <2>1, <2>2, <2>4
  <2> QED
    BY <2>7, <2>8
<1> HIDE DEF K
<1>12a. \A s \in SUBSET S : s # {} /\ s \ {pick[s]} \in K => s \in K
  BY <1>12
<1>13. \A s \in SUBSET S : s \in K
  <2>1. PICK J : J = K
    OBVIOUS
  <2>2. {} \in J /\ \A s \in SUBSET S : s # {} /\ s \ {pick[s]} \in J => s \in J
    BY <1>11, <1>12a, <2>1
  <2>3. \A s \in SUBSET S : s \in J
    BY ONLY <1>2a, <1>4, <2>2, SubsetInduction
  <2> QED
    BY <2>1, <2>3
<1>14. Drains(base, list, S, iter[S])
  BY <1>13 DEF K
<1> QED
  BY <1>0, <1>1, <1>14
-----------------------------------------------------------------------------
(* The invariant *)

ConcernsIn(v, mutation, p) == \E invalid \in Announced(mutation) : Touches(v, invalid, p)

\* What the projection shows, or will, was read after commit i.
UpToDate(v, list, p, i) ==
  /\ ~v.queries[p].refreshing /\ ~v.queries[p].failed => v.queries[p].shown.revision >= i
  /\ \A k \in DOMAIN list :
       list[k].of = p /\ list[k].id = v.queries[p].latest /\ ~list[k].failed => list[k].revision >= i

Unheard(list, i) ==
  \E k \in DOMAIN list : list[k].of = "command" /\ ~list[k].failed /\ list[k].revision = i

\* A commit is lost, or its answer is on its way, or what it announced was asked for since
\* or will be.
Heard(v, list, mutation, i) ==
  \/ i \in v.lost
  \/ Unheard(list, i)
  \/ \A p \in Watched : ConcernsIn(v, mutation, p) => Due(v, p) \/ UpToDate(v, list, p, i)

AnswerOK(v, log, a) ==
  /\ OnItsWay(v, a) /\ a.revision <= Len(log)
  /\ a.of = "command" /\ ~a.failed => a.revision \in DOMAIN log /\ a.key = log[a.revision]

ViewsOK(v, list, log) ==
  /\ v \in Views /\ Consistent(v) /\ MonthAsked(v)
  /\ \A p \in Watched : v.queries[p].latest # 0
  /\ list \in Seq(Answers) /\ log \in Seq(Commits)
  /\ \A k \in DOMAIN list : AnswerOK(v, log, list[k])
  /\ \A i \in DOMAIN log : Heard(v, list, log[i], i)

ViewsInv == ViewsOK(app, answers, commits)

\* The catalog and the detail were last asked for what the screen claims to show; only the
\* detail may outlive its category.
Named(v) ==
  /\ v.queries["catalog"].asked = v.archived
  /\ v.category \in {Nothing, v.queries["detail"].asked}

NamesInv == Named(app)

\* The answers of a consistent list are answers.
LEMMA ListShape ==
  ASSUME NEW v, NEW list, NEW log, ViewsOK(v, list, log)
  PROVE  /\ \A k \in DOMAIN list : list[k] \in Answers
         /\ DOMAIN log = 1..Len(log) /\ Len(log) \in Nat
         /\ DOMAIN list = 1..Len(list) /\ Len(list) \in Nat
<1>1. list \in Seq(Answers) /\ log \in Seq(Commits)
  BY DEF ViewsOK
<1>2. DOMAIN log = 1..Len(log) /\ Len(log) \in Nat
  BY <1>1, LenProperties
<1>3. DOMAIN list = 1..Len(list) /\ Len(list) \in Nat
  BY <1>1, LenProperties
<1>4. \A k \in DOMAIN list : list[k] \in Answers
  BY <1>1, <1>3, ElementOfSeq
<1> QED
  BY <1>2, <1>3, <1>4

\* The watched projections are projections.
LEMMA WatchedProjections == Watched \subseteq Projections
BY DEF Watched, Projections

\* A query that begins makes nothing stale, if the month asked for is the present one.
LEMMA AsksKeeps ==
  ASSUME NEW v, NEW list, NEW log, ViewsOK(v, list, log), NEW w, Asks(v, w), MonthAsked(w)
  PROVE  ViewsOK(w, list, log)
<1>1. /\ v \in Views /\ w \in Views /\ Consistent(w) /\ w.ids >= v.ids /\ v.ids \in Nat /\ w.ids \in Nat
      /\ w.pending = v.pending /\ w.month = v.month /\ w.lost = v.lost
  BY ViewShape DEF ViewsOK, Asks, SameElse
<1>2. ASSUME NEW p \in Watched
      PROVE  \/ w.queries[p] = v.queries[p]
             \/ w.queries[p].latest > v.ids /\ w.queries[p].refreshing
  BY WatchedProjections DEF Asks
<1>3. ASSUME NEW p \in Watched PROVE w.queries[p].latest # 0
  BY <1>1, <1>2 DEF ViewsOK
<1>4. ASSUME NEW k \in DOMAIN list PROVE AnswerOK(w, log, list[k])
  <2>1. list[k] \in Answers
    BY ListShape
  <2>2. AnswerOK(v, log, list[k])
    BY DEF ViewsOK
  <2> QED
    BY <2>1, <2>2 DEF AnswerOK, Asks
<1>5. ASSUME NEW i \in DOMAIN log PROVE Heard(w, list, log[i], i)
  <2>1. Heard(v, list, log[i], i)
    BY DEF ViewsOK
  <2>2. ASSUME NEW p \in Watched, UpToDate(v, list, p, i) PROVE UpToDate(w, list, p, i)
    <3>1. CASE w.queries[p] = v.queries[p]
      BY <2>2, <3>1 DEF UpToDate
    <3>2. CASE w.queries[p].latest > v.ids /\ w.queries[p].refreshing
      <4>1. ASSUME NEW k \in DOMAIN list PROVE list[k].id # w.queries[p].latest
        <5>1. list[k].id <= v.ids /\ list[k].id \in Nat
          BY ListShape, AnswerShape DEF ViewsOK, AnswerOK, OnItsWay
        <5> QED
          BY <1>1, <3>2, <5>1
      <4> QED
        BY <3>2, <4>1 DEF UpToDate
    <3> QED
      BY <1>2, <3>1, <3>2
  <2>3. ASSUME NEW p \in Watched, Due(v, p) PROVE Due(w, p)
    BY <1>1, <2>3 DEF Due, Touches
  <2>4. ASSUME NEW p \in Watched, ConcernsIn(w, log[i], p) PROVE ConcernsIn(v, log[i], p)
    BY <1>1, <2>4 DEF ConcernsIn, Touches
  <2> QED
    BY <1>1, <2>1, <2>2, <2>3, <2>4 DEF Heard
<1> QED
  BY <1>1, <1>3, <1>4, <1>5 DEF ViewsOK

\* Neither do the user's moves: a move to another month asks for it.
Moves(v, w) ==
  /\ w \in Views /\ w.ids = v.ids /\ w.queries = v.queries /\ w.sent = v.sent /\ w.lost = v.lost
  /\ v.pending \subseteq w.pending
  /\ w.month = v.month \/ Due(w, "month")

\* A move of the user keeps the invariant.
LEMMA MovesKeep ==
  ASSUME NEW v, NEW list, NEW log, ViewsOK(v, list, log), NEW w, Moves(v, w)
  PROVE  ViewsOK(w, list, log)
<1>1. /\ w \in Views /\ w.ids = v.ids /\ w.queries = v.queries /\ w.sent = v.sent /\ w.lost = v.lost
      /\ v.pending \subseteq w.pending
      /\ w.month = v.month \/ Due(w, "month")
  BY DEF Moves
<1>2. \A m : OnItsWay(v, m) => OnItsWay(w, m)
  BY <1>1 DEF OnItsWay
<1>3. Consistent(w)
  BY <1>1, <1>2 DEF ViewsOK, Consistent
<1>4. ASSUME NEW p \in Watched, Due(v, p) PROVE Due(w, p)
  BY <1>1, <1>4 DEF Due, Touches
<1>5. MonthAsked(w)
  <2>1. MonthAsked(v)
    BY DEF ViewsOK
  <2>2. "month" \in Watched
    BY DEF Watched
  <2> QED
    BY <1>1, <1>4, <2>1, <2>2 DEF MonthAsked
<1>6. ASSUME NEW k \in DOMAIN list PROVE AnswerOK(w, log, list[k])
  BY <1>2 DEF ViewsOK, AnswerOK
<1>7. ASSUME NEW i \in DOMAIN log PROVE Heard(w, list, log[i], i)
  <2>1. Heard(v, list, log[i], i)
    BY DEF ViewsOK
  <2>2. ASSUME NEW p \in Watched, UpToDate(v, list, p, i) PROVE UpToDate(w, list, p, i)
    BY <1>1, <2>2 DEF UpToDate
  <2>3. ASSUME NEW p \in Watched, ConcernsIn(w, log[i], p) PROVE ConcernsIn(v, log[i], p) \/ Due(w, p)
    BY <1>1, <2>3 DEF ConcernsIn, Touches
  <2> QED
    BY <1>1, <1>4, <2>1, <2>2, <2>3 DEF Heard
<1>8. \A p \in Watched : w.queries[p].latest # 0
  BY <1>1 DEF ViewsOK
<1>9. list \in Seq(Answers) /\ log \in Seq(Commits)
  BY DEF ViewsOK
<1> QED
  BY <1>1, <1>3, <1>5, <1>6, <1>7, <1>8, <1>9 DEF ViewsOK
-----------------------------------------------------------------------------
(* The steps *)

Resent(v, n, sent, w) ==
  w = [workspace |-> v.workspace, account |-> v.account, month |-> v.month,
       archived |-> v.archived, category |-> v.category, activity |-> v.activity,
       generation |-> v.generation, ids |-> n, queries |-> v.queries,
       sent |-> sent, pending |-> v.pending, lost |-> v.lost]

\* A view with another queue is a view.
LEMMA ResentView ==
  ASSUME NEW v \in Views, NEW n \in Nat, NEW sent \in Seq(ViewRequests), NEW w, Resent(v, n, sent, w)
  PROVE  w \in Views
BY ViewShape DEF Resent, Views

\* A command is sent.
LEMMA SendKeeps ==
  ASSUME NEW v, NEW list, NEW log, ViewsOK(v, list, log), NEW m \in Mutations,
         NEW w, w = Send(v, "command", m)
  PROVE  ViewsOK(w, list, log)
<1>1. v \in Views /\ v.ids \in Nat /\ v.sent \in Seq(ViewRequests)
  BY ViewShape DEF ViewsOK
<1>2. PICK n \in Nat : n = v.ids + 1 /\ n # 0 /\ n > v.ids
  BY <1>1
<1>3. PICK request : request = [id |-> n, generation |-> v.generation, of |-> "command", key |-> m]
  OBVIOUS
<1>4. request \in ViewRequests
  BY <1>1, <1>2, <1>3, ViewShape DEF ViewRequests, ViewKeys
<1>5. PICK x : x = [v EXCEPT !.ids = n]
  OBVIOUS
<1>6. x = [workspace |-> v.workspace, account |-> v.account, month |-> v.month,
           archived |-> v.archived, category |-> v.category, activity |-> v.activity,
           generation |-> v.generation, ids |-> n, queries |-> v.queries,
           sent |-> v.sent, pending |-> v.pending, lost |-> v.lost]
  BY <1>1, <1>5, ViewShape
<1>7. w = [x EXCEPT !.sent = Append(v.sent, request)]
  BY <1>1, <1>2, <1>3, <1>5, ViewShape DEF Send
<1>8. w = [workspace |-> v.workspace, account |-> v.account, month |-> v.month,
           archived |-> v.archived, category |-> v.category, activity |-> v.activity,
           generation |-> v.generation, ids |-> n, queries |-> v.queries,
           sent |-> Append(v.sent, request), pending |-> v.pending, lost |-> v.lost]
  BY <1>6, <1>7
<1>9. Append(v.sent, request) \in Seq(ViewRequests)
  BY <1>1, <1>4
<1>10. w \in Views
  <2>1. PICK sent \in Seq(ViewRequests) : sent = Append(v.sent, request)
    BY <1>9
  <2>2. Resent(v, n, sent, w)
    BY <1>8, <2>1 DEF Resent
  <2> QED
    BY <1>1, <2>2, ResentView
<1>11. ASSUME NEW a, a.id \in Nat, OnItsWay(v, a) PROVE OnItsWay(w, a)
  BY <1>1, <1>2, <1>8, <1>11 DEF OnItsWay
<1>12. Consistent(w)
  <2>1. ASSUME NEW p \in Projections PROVE w.queries[p].latest <= w.ids /\ Shows(w.queries[p])
    <3>1. v.queries[p].latest <= v.ids /\ Shows(v.queries[p])
      BY DEF ViewsOK, Consistent
    <3>2. v.queries[p].latest \in Nat
      BY <1>1, ViewShape DEF Queries
    <3> QED
      BY <1>1, <1>2, <1>8, <3>1, <3>2
  <2>2. ASSUME NEW k \in DOMAIN w.sent
        PROVE  /\ OnItsWay(w, w.sent[k])
               /\ w.sent[k].of = "command" => w.sent[k].key \in Mutations
    <3>1. PICK len \in Nat : len = Len(v.sent)
      BY <1>1, LenProperties
    <3>2. /\ DOMAIN w.sent = 1..(len + 1) /\ DOMAIN v.sent = 1..len
          /\ \A i \in 1..len : w.sent[i] = v.sent[i]
          /\ w.sent[len + 1] = request
      BY <1>1, <1>4, <1>8, <3>1
    <3>3. CASE k = len + 1
      <4>1. w.ids = n
        BY <1>8
      <4> QED
        BY <1>2, <1>3, <3>2, <3>3, <4>1 DEF OnItsWay, Projections
    <3>4. CASE k # len + 1
      <4>1. k \in DOMAIN v.sent /\ w.sent[k] = v.sent[k]
        BY <3>2, <3>4
      <4>2. v.sent[k] \in ViewRequests
        BY <1>1, <4>1, ElementOfSeq, LenProperties
      <4>3. OnItsWay(v, v.sent[k]) /\ (v.sent[k].of = "command" => v.sent[k].key \in Mutations)
        BY <4>1 DEF ViewsOK, Consistent
      <4>4. v.sent[k].id \in Nat
        BY <4>2 DEF ViewRequests
      <4> QED
        BY <1>11, <4>1, <4>3, <4>4
    <3> QED
      BY <3>3, <3>4
  <2> QED
    BY <2>1, <2>2 DEF Consistent
<1>13. ASSUME NEW k \in DOMAIN list PROVE AnswerOK(w, log, list[k])
  <2>1. list[k].id \in Nat
    BY ListShape, AnswerShape
  <2> QED
    BY <1>11, <2>1 DEF ViewsOK, AnswerOK
<1>14. ASSUME NEW i \in DOMAIN log PROVE Heard(w, list, log[i], i)
  <2>1. Heard(v, list, log[i], i)
    BY DEF ViewsOK
  <2> QED
    BY <1>8, <2>1 DEF Heard, UpToDate, ConcernsIn, Due, Touches
<1>15. MonthAsked(w) /\ \A p \in Watched : w.queries[p].latest # 0
  BY <1>8 DEF ViewsOK, MonthAsked, Due, Touches
<1>16. list \in Seq(Answers) /\ log \in Seq(Commits)
  BY DEF ViewsOK
<1> QED
  BY <1>10, <1>12, <1>13, <1>14, <1>15, <1>16 DEF ViewsOK

\* The worker answers the first request: with the ledger as it is, with a new commit, or
\* with a failure.
LEMMA WorkKeeps ==
  ASSUME NEW v, NEW list, NEW log, ViewsOK(v, list, log), v.sent # <<>>,
         NEW request, request = Head(v.sent), NEW w, w = [v EXCEPT !.sent = Tail(@)],
         NEW failed \in BOOLEAN, NEW log2,
         NEW a, a = [id |-> request.id, generation |-> request.generation, of |-> request.of,
                     key |-> request.key, failed |-> failed, revision |-> Len(log2)],
         \/ log2 = log /\ (request.of # "command" \/ failed)
         \/ log2 = Append(log, request.key) /\ request.of = "command" /\ ~failed
  PROVE  ViewsOK(w, Append(list, a), log2)
<1>1. v \in Views /\ v.sent \in Seq(ViewRequests) /\ Consistent(v)
  BY ViewShape DEF ViewsOK
<1>2. /\ request \in ViewRequests /\ OnItsWay(v, request)
      /\ request.of = "command" => request.key \in Mutations
  <2>1. 1 \in DOMAIN v.sent /\ request = v.sent[1]
    BY <1>1
  <2> QED
    BY <1>1, <2>1, ElementOfSeq, LenProperties DEF Consistent
<1>3. PICK rest : rest = Tail(v.sent)
  OBVIOUS
<1>4. /\ rest \in Seq(ViewRequests)
      /\ \A k \in DOMAIN rest : \E j \in DOMAIN v.sent : rest[k] = v.sent[j]
  <2>1. rest \in Seq(ViewRequests)
    BY <1>1, <1>3
  <2>2. \A k \in DOMAIN rest : k + 1 \in DOMAIN v.sent /\ rest[k] = v.sent[k + 1]
    BY <1>1, <1>3
  <2> QED
    BY <2>1, <2>2
<1>5. w = [workspace |-> v.workspace, account |-> v.account, month |-> v.month,
           archived |-> v.archived, category |-> v.category, activity |-> v.activity,
           generation |-> v.generation, ids |-> v.ids, queries |-> v.queries,
           sent |-> rest, pending |-> v.pending, lost |-> v.lost]
  <2>1. w = [v EXCEPT !.sent = rest]
    BY <1>1, <1>3, ViewShape
  <2> QED
    BY <1>1, <2>1, ViewShape
<1>6. w \in Views
  <2>1. PICK n \in Nat : n = v.ids
    BY <1>1, ViewShape
  <2>2. Resent(v, n, rest, w)
    BY <1>5, <2>1 DEF Resent
  <2> QED
    BY <1>1, <1>4, <2>2, ResentView
<1>7. \A m : OnItsWay(v, m) => OnItsWay(w, m)
  BY <1>5 DEF OnItsWay
<1>8. Consistent(w)
  <2>1. \A p \in Projections : w.queries[p].latest <= w.ids /\ Shows(w.queries[p])
    BY <1>1, <1>5 DEF Consistent
  <2>2. ASSUME NEW k \in DOMAIN w.sent
        PROVE  /\ OnItsWay(w, w.sent[k])
               /\ w.sent[k].of = "command" => w.sent[k].key \in Mutations
    <3>1. PICK j \in DOMAIN v.sent : w.sent[k] = v.sent[j]
      BY <1>4, <1>5
    <3> QED
      BY <1>1, <1>7, <3>1 DEF Consistent
  <2> QED
    BY <2>1, <2>2 DEF Consistent
<1>9. PICK len \in Nat : len = Len(log) /\ DOMAIN log = 1..len /\ log \in Seq(Commits)
  BY ListShape DEF ViewsOK
<1>10. /\ log2 \in Seq(Commits) /\ Len(log2) \in Nat /\ len <= Len(log2)
       /\ DOMAIN log2 = 1..Len(log2)
       /\ \A i \in 1..len : i \in DOMAIN log2 /\ log2[i] = log[i]
       /\ \A i \in DOMAIN log2 : i \in DOMAIN log \/ Unheard(Append(list, a), i)
       /\ a.of = "command" /\ ~a.failed => Len(log2) \in DOMAIN log2 /\ a.key = log2[Len(log2)]
  <2>1. CASE log2 = log /\ (request.of # "command" \/ failed)
    BY <1>9, <2>1
  <2>2. CASE log2 = Append(log, request.key) /\ request.of = "command" /\ ~failed
    <3>1. request.key \in Commits
      BY <1>2, <2>2 DEF Commits
    <3>2. /\ log2 \in Seq(Commits) /\ Len(log2) = len + 1 /\ DOMAIN log2 = 1..(len + 1)
          /\ \A i \in 1..len : log2[i] = log[i]
          /\ log2[len + 1] = request.key
      BY <1>9, <2>2, <3>1
    <3>3. Unheard(Append(list, a), len + 1)
      <4>1. PICK n \in Nat : n = Len(list) /\ list \in Seq(Answers)
        BY ListShape DEF ViewsOK
      <4>2. n + 1 \in DOMAIN Append(list, a) /\ Append(list, a)[n + 1] = a
        BY <4>1
      <4>3. a.of = "command" /\ ~a.failed /\ a.revision = len + 1
        BY <2>2, <3>2
      <4> QED
        BY <4>2, <4>3 DEF Unheard
    <3> QED
      BY <1>9, <2>2, <3>2, <3>3
  <2> QED
    BY <2>1, <2>2
<1>11. a \in Answers
  <2>1. a \in AnswerRecords
    BY <1>2, <1>10 DEF AnswerRecords, ViewRequests
  <2> QED
    BY <1>2, <2>1 DEF Answers
<1>12. PICK longer : longer = Append(list, a)
  OBVIOUS
<1>13. /\ longer \in Seq(Answers)
       /\ \A k \in DOMAIN list : k \in DOMAIN longer /\ longer[k] = list[k]
       /\ \A k \in DOMAIN longer : longer[k] = a \/ (k \in DOMAIN list /\ longer[k] = list[k])
  <2>1. list \in Seq(Answers)
    BY DEF ViewsOK
  <2> QED
    BY <1>11, <1>12, <2>1
<1>14. ASSUME NEW k \in DOMAIN longer PROVE AnswerOK(w, log2, longer[k])
  <2>1. CASE longer[k] = a
    <3>1. OnItsWay(w, a)
      BY <1>2, <1>5 DEF OnItsWay
    <3> QED
      BY <1>10, <2>1, <3>1 DEF AnswerOK
  <2>2. CASE k \in DOMAIN list /\ longer[k] = list[k]
    <3>1. AnswerOK(v, log, list[k]) /\ list[k].revision \in Nat
      BY <2>2, ListShape, AnswerShape DEF ViewsOK
    <3>2. OnItsWay(w, list[k]) /\ list[k].revision <= Len(log)
      BY <1>7, <3>1 DEF AnswerOK
    <3>3. list[k].revision <= Len(log2)
      BY <1>9, <1>10, <3>1, <3>2
    <3>4. list[k].of = "command" /\ ~list[k].failed =>
            list[k].revision \in DOMAIN log2 /\ list[k].key = log2[list[k].revision]
      BY <1>9, <1>10, <3>1 DEF AnswerOK
    <3> QED
      BY <2>2, <3>2, <3>3, <3>4 DEF AnswerOK
  <2> QED
    BY <1>13, <2>1, <2>2
<1>15. ASSUME NEW i \in DOMAIN log2 PROVE Heard(w, longer, log2[i], i)
  <2>1. CASE Unheard(longer, i)
    BY <2>1 DEF Heard
  <2>2. CASE i \in DOMAIN log
    <3>1. Heard(v, list, log[i], i) /\ log2[i] = log[i] /\ i <= a.revision
      BY <1>9, <1>10, <2>2 DEF ViewsOK
    <3>2. Unheard(list, i) => Unheard(longer, i)
      BY <1>13 DEF Unheard
    <3>3. ASSUME NEW p \in Watched, UpToDate(v, list, p, i) PROVE UpToDate(w, longer, p, i)
      BY <1>5, <1>13, <3>1, <3>3 DEF UpToDate
    <3> QED
      BY <1>5, <3>1, <3>2, <3>3 DEF Heard, ConcernsIn, Due, Touches
  <2> QED
    BY <1>10, <1>12, <2>1, <2>2
<1>16. MonthAsked(w) /\ \A p \in Watched : w.queries[p].latest # 0
  BY <1>5 DEF ViewsOK, MonthAsked, Due, Touches
<1> QED
  BY <1>6, <1>8, <1>10, <1>12, <1>13, <1>14, <1>15, <1>16 DEF ViewsOK
\* A drain settles queries with what was read for them and asks for what the commits it
\* hears of announced.
LEMMA DrainKeeps ==
  ASSUME NEW v, NEW list, NEW log, ViewsOK(v, list, log), NEW u, Drains(v, list, DOMAIN list, u),
         NEW w, w = ProcessInvalidations(u)
  PROVE  ViewsOK(w, <<>>, log)
<1>1. /\ v \in Views /\ u \in Views /\ u.ids = v.ids /\ u.sent = v.sent /\ u.month = v.month
      /\ v.pending \subseteq u.pending /\ v.lost \subseteq u.lost
  BY DEF ViewsOK, Drains
<1>2. ASSUME NEW p \in Projections
      PROVE  /\ u.queries[p].asked = v.queries[p].asked /\ u.queries[p].latest = v.queries[p].latest
             /\ Shows(u.queries[p])
  <2>1. Shows(v.queries[p])
    BY DEF ViewsOK, Consistent
  <2>2. CASE u.queries[p] = v.queries[p]
    BY <2>1, <2>2
  <2>3. ASSUME NEW k \in DOMAIN list, list[k].of = p, Settles(v.queries[p], list[k], u.queries[p]),
               u.queries[p] # v.queries[p]
        PROVE  /\ u.queries[p].asked = v.queries[p].asked /\ u.queries[p].latest = v.queries[p].latest
               /\ Shows(u.queries[p])
    <3>1. /\ u.queries[p].asked = v.queries[p].asked /\ u.queries[p].latest = v.queries[p].latest
          /\ list[k].id = v.queries[p].latest
          /\ u.queries[p].failed \/ u.queries[p].shown = [key |-> list[k].key, revision |-> list[k].revision]
      BY <2>3 DEF Settles
    <3>2. list[k].key = v.queries[p].asked
      BY <2>3, <3>1 DEF ViewsOK, AnswerOK, OnItsWay
    <3>3. list[k].id # 0
      BY ListShape, AnswerShape
    <3> QED
      BY <3>1, <3>2, <3>3 DEF Shows
  <2> QED
    BY <2>2, <2>3 DEF Drains
<1>3. \A m : OnItsWay(v, m) => OnItsWay(u, m)
  BY <1>1, <1>2 DEF OnItsWay
<1>4. Consistent(u)
  <2>1. \A p \in Projections : u.queries[p].latest <= u.ids /\ Shows(u.queries[p])
    BY <1>1, <1>2 DEF ViewsOK, Consistent
  <2>2. \A k \in DOMAIN u.sent : /\ OnItsWay(u, u.sent[k])
                                 /\ u.sent[k].of = "command" => u.sent[k].key \in Mutations
    BY <1>1, <1>3 DEF ViewsOK, Consistent
  <2> QED
    BY <2>1, <2>2 DEF Consistent
<1>5. PICK s : s = [u EXCEPT !.pending = {}]
  OBVIOUS
<1>6. /\ Asks(s, w) /\ w.pending = {}
      /\ \A p \in Watched : Due(u, p) => w.queries[p].latest > u.ids /\ w.queries[p].refreshing
      /\ MonthAsked(u) => w.queries["month"].asked = w.month
  BY <1>1, <1>5, InvalidationsAsk
<1>7. s.ids = u.ids /\ s.queries = u.queries /\ s.sent = u.sent /\ s.lost = u.lost /\ s.month = u.month
  BY <1>1, <1>5, ViewShape
<1>8. Consistent(s)
  BY <1>4, <1>7 DEF Consistent, OnItsWay
<1>9. /\ w \in Views /\ Consistent(w) /\ w.lost = u.lost /\ w.month = u.month
      /\ \A p \in Projections : \/ w.queries[p] = u.queries[p]
                                \/ w.queries[p].latest > u.ids /\ w.queries[p].refreshing
  BY <1>6, <1>7, <1>8 DEF Asks, SameElse
<1>10. \A p \in Watched : Due(v, p) => Due(u, p)
  BY <1>1 DEF Due, Touches
<1>11. MonthAsked(w)
  <2>1. "month" \in Watched /\ "month" \in Projections
    BY DEF Watched, Projections
  <2>2. MonthAsked(v)
    BY DEF ViewsOK
  <2>3. MonthAsked(u)
    BY <1>1, <1>2, <1>10, <2>1, <2>2 DEF MonthAsked
  <2> QED
    BY <1>6, <2>3 DEF MonthAsked
<1>12. ASSUME NEW p \in Watched PROVE w.queries[p].latest # 0
  <2>1. p \in Projections /\ v.queries[p].latest # 0 /\ u.ids \in Nat
    BY <1>1, WatchedProjections, ViewShape DEF ViewsOK
  <2> QED
    BY <1>2, <1>9, <2>1
<1>13. ASSUME NEW i \in DOMAIN log PROVE Heard(w, <<>>, log[i], i)
  <2>1. Heard(v, list, log[i], i) /\ i \in Nat
    BY ListShape DEF ViewsOK
  <2>2. CASE i \in u.lost
    BY <1>9, <2>2 DEF Heard
  <2>3. ASSUME NEW p \in Watched, Due(u, p) PROVE UpToDate(w, <<>>, p, i)
    BY <1>6, <2>3 DEF UpToDate
  <2>4. ASSUME NEW p \in Watched, UpToDate(v, list, p, i) PROVE UpToDate(w, <<>>, p, i)
    <3>1. p \in Projections
      BY WatchedProjections
    <3>2. UpToDate(u, <<>>, p, i)
      <4>1. CASE u.queries[p] = v.queries[p]
        BY <2>4, <4>1 DEF UpToDate
      <4>2. ASSUME NEW k \in DOMAIN list, list[k].of = p, Settles(v.queries[p], list[k], u.queries[p]),
                   u.queries[p] # v.queries[p]
            PROVE  UpToDate(u, <<>>, p, i)
        <5>1. /\ list[k].id = v.queries[p].latest
              /\ \/ u.queries[p].failed
                 \/ ~list[k].failed /\ u.queries[p].shown = [key |-> list[k].key, revision |-> list[k].revision]
          BY <4>2 DEF Settles
        <5>2. CASE u.queries[p].failed
          BY <5>2 DEF UpToDate
        <5>3. CASE ~list[k].failed /\ u.queries[p].shown = [key |-> list[k].key, revision |-> list[k].revision]
          <6>1. list[k].revision >= i
            BY <2>4, <4>2, <5>1, <5>3 DEF UpToDate
          <6> QED
            BY <5>3, <6>1 DEF UpToDate
        <5> QED
          BY <5>1, <5>2, <5>3
      <4> QED
        BY <3>1, <4>1, <4>2 DEF Drains
    <3>3. CASE w.queries[p] = u.queries[p]
      BY <3>2, <3>3 DEF UpToDate
    <3>4. CASE w.queries[p].refreshing
      BY <3>4 DEF UpToDate
    <3> QED
      BY <1>9, <3>1, <3>3, <3>4
  <2>5. CASE Announced(log[i]) \subseteq u.pending
    <3>1. ASSUME NEW p \in Watched, ConcernsIn(w, log[i], p) PROVE UpToDate(w, <<>>, p, i)
      <4>1. Due(u, p)
        BY <1>9, <2>5, <3>1 DEF ConcernsIn, Due, Touches
      <4> QED
        BY <2>3, <4>1
    <3> QED
      BY <3>1 DEF Heard
  <2>6. CASE Unheard(list, i)
    <3>1. PICK k \in DOMAIN list : list[k].of = "command" /\ ~list[k].failed /\ list[k].revision = i
      BY <2>6 DEF Unheard
    <3>2. list[k].key = log[i]
      BY <3>1 DEF ViewsOK, AnswerOK
    <3> QED
      BY <2>2, <2>5, <3>1, <3>2 DEF Drains
  <2>7. CASE \A p \in Watched : ConcernsIn(v, log[i], p) => Due(v, p) \/ UpToDate(v, list, p, i)
    <3>1. ASSUME NEW p \in Watched, ConcernsIn(w, log[i], p) PROVE UpToDate(w, <<>>, p, i)
      <4>1. ConcernsIn(v, log[i], p)
        BY <1>1, <1>9, <3>1 DEF ConcernsIn, Touches
      <4> QED
        BY <1>10, <2>3, <2>4, <2>7, <4>1
    <3> QED
      BY <3>1 DEF Heard
  <2>8. CASE i \in v.lost
    BY <1>1, <2>2, <2>8
  <2> QED
    BY <2>1, <2>6, <2>7, <2>8 DEF Heard
<1>14. <<>> \in Seq(Answers) /\ log \in Seq(Commits)
  BY DEF ViewsOK
<1> QED
  BY <1>9, <1>11, <1>12, <1>13, <1>14 DEF ViewsOK

\* Nobody hears of what was committed before another ledger took the place of this one.
LEMMA ReplaceKeeps ==
  ASSUME NEW v, NEW list, NEW log, ViewsOK(v, list, log), NEW w, NEW log2,
         log2 = Append(log, [kind |-> "restore", month |-> 1]),
         w = [v EXCEPT !.sent = <<>>, !.lost = 1..Len(log2)]
  PROVE  ViewsOK(w, <<>>, log2)
<1>1. v \in Views /\ log \in Seq(Commits)
  BY DEF ViewsOK
<1>2. PICK restore \in Commits : restore = [kind |-> "restore", month |-> 1]
  BY DEF Commits
<1>3. log2 \in Seq(Commits)
  BY <1>1, <1>2
<1>4. DOMAIN log2 = 1..Len(log2) /\ Len(log2) \in Nat
  BY <1>3, LenProperties
<1>5. PICK lost \in SUBSET Nat : lost = 1..Len(log2)
  BY <1>4
<1>6a. <<>> \in Seq(ViewRequests)
  BY ONLY EmptySeq
<1>6. PICK sent \in Seq(ViewRequests) : sent = <<>>
  BY ONLY <1>6a
<1>7. PICK x : x = [v EXCEPT !.sent = sent]
  OBVIOUS
<1>8. x = [workspace |-> v.workspace, account |-> v.account, month |-> v.month,
           archived |-> v.archived, category |-> v.category, activity |-> v.activity,
           generation |-> v.generation, ids |-> v.ids, queries |-> v.queries,
           sent |-> sent, pending |-> v.pending, lost |-> v.lost]
  BY <1>1, <1>7, ViewShape
<1>9. w = [x EXCEPT !.lost = lost]
  BY <1>5, <1>6, <1>7
<1>10. w = [workspace |-> v.workspace, account |-> v.account, month |-> v.month,
           archived |-> v.archived, category |-> v.category, activity |-> v.activity,
           generation |-> v.generation, ids |-> v.ids, queries |-> v.queries,
           sent |-> sent, pending |-> v.pending, lost |-> lost]
  BY <1>8, <1>9
<1>11. x \in Views
  <2>1. PICK n \in Nat : n = v.ids
    BY <1>1, ViewShape
  <2>2. Resent(v, n, sent, x)
    BY <1>8, <2>1 DEF Resent
  <2> QED
    BY <1>1, <2>2, ResentView
<1>12. w \in Views
  <2>1. w = [workspace |-> x.workspace, account |-> x.account, month |-> x.month,
             archived |-> x.archived, category |-> x.category, activity |-> x.activity,
             generation |-> x.generation, ids |-> x.ids, queries |-> x.queries,
             sent |-> x.sent, pending |-> x.pending, lost |-> lost]
    BY <1>8, <1>10
  <2> QED
    BY ONLY <1>5, <1>11, <2>1, ViewShape DEF Views
<1>13. Consistent(w)
  <2>1. \A p \in Projections : w.queries[p].latest <= w.ids /\ Shows(w.queries[p])
    BY <1>10 DEF ViewsOK, Consistent
  <2>2. DOMAIN w.sent = {}
    BY <1>6, <1>10
  <2> QED
    BY <2>1, <2>2 DEF Consistent
<1>14. MonthAsked(w) /\ \A p \in Watched : w.queries[p].latest # 0
  BY <1>10 DEF ViewsOK, MonthAsked, Due, Touches
<1>15. ASSUME NEW i \in DOMAIN log2 PROVE Heard(w, <<>>, log2[i], i)
  BY <1>4, <1>5, <1>10 DEF Heard
<1>16. <<>> \in Seq(Answers) /\ DOMAIN <<>> = {}
  OBVIOUS
<1> QED
  BY <1>3, <1>12, <1>13, <1>14, <1>15, <1>16 DEF ViewsOK
-----------------------------------------------------------------------------
(* The theorems *)

\* The invariant holds when the session opens.
LEMMA ViewsStart == ViewsInit => ViewsInv /\ NamesInv
<1> SUFFICES ASSUME ViewsInit PROVE ViewsInv /\ Named(app)
  BY DEF NamesInv
<1>1. PICK asked : asked = [p \in Projections |-> NeverAsked]
  OBVIOUS
<1>2. NeverAsked \in Queries /\ Shows(NeverAsked) /\ NeverAsked.latest = 0
  BY DEF NeverAsked, Queries, ViewKeys, Shows
<1>3. asked \in [Projections -> Queries]
  BY <1>1, <1>2
<1>4. PICK blank : blank = [workspace |-> "Overview", account |-> Nothing, month |-> 1, archived |-> FALSE,
                category |-> Nothing, activity |-> Nothing, generation |-> 0, ids |-> 0,
                queries |-> asked, sent |-> <<>>, pending |-> {}, lost |-> {}]
  OBVIOUS
<1>5. blank \in Views
  <2>1. <<>> \in Seq(ViewRequests)
    BY ONLY EmptySeq
  <2>2. "Overview" \in Places /\ {} \in SUBSET Invalids /\ {} \in SUBSET Nat
    BY DEF Places
  <2> QED
    BY <1>3, <1>4, <2>1, <2>2 DEF Views
<1>6. Consistent(blank)
  <2>1. DOMAIN blank.sent = {}
    BY <1>4
  <2>2. \A p \in Projections : blank.queries[p] = NeverAsked
    BY <1>1, <1>4
  <2> QED
    BY <1>2, <1>4, <2>1, <2>2 DEF Consistent
<1>7. PICK catalog : catalog = BeginQuery(blank, "catalog", FALSE)
  OBVIOUS
<1>8. PICK payees : payees = BeginQuery(catalog, "payees", Nothing)
  OBVIOUS
<1>9. PICK accounts : accounts = BeginQuery(payees, "accounts", Nothing)
  OBVIOUS
<1>10. PICK month : month = BeginQuery(accounts, "month", 1)
  OBVIOUS
<1>11. app = BeginQuery(month, "inbox", Nothing)
  <2>1. RequestCatalog(blank) = catalog
    BY <1>4, <1>7 DEF RequestCatalog
  <2> QED
    BY <1>1, <1>4, <1>8, <1>9, <1>10, <2>1 DEF ViewsInit, Opened
<1>12. /\ {"catalog", "payees", "accounts", "month", "inbox"} \subseteq Projections
       /\ Nothing \in ViewKeys /\ 1 \in ViewKeys /\ FALSE \in ViewKeys
  BY DEF Projections, ViewKeys
<1>13. Asks(blank, catalog) /\ catalog.queries["catalog"].asked = blank.archived
  <2>1. PICK key : key = blank.archived
    OBVIOUS
  <2>2. key \in ViewKeys /\ catalog = BeginQuery(blank, "catalog", key)
    BY <1>4, <1>7, <1>12, <2>1
  <2> QED
    BY <1>5, <1>12, <2>1, <2>2, BeginQueryAsks
<1>14. catalog \in Views
  BY <1>13 DEF Asks
<1>15. /\ Asks(catalog, payees) /\ payees.queries["payees"].latest = catalog.ids + 1
       /\ \A p \in Projections \ {"payees"} : payees.queries[p] = catalog.queries[p]
  BY <1>8, <1>12, <1>14, BeginQueryAsks
<1>16. payees \in Views
  BY <1>15 DEF Asks
<1>17. /\ Asks(payees, accounts) /\ accounts.queries["accounts"].latest = payees.ids + 1
       /\ \A p \in Projections \ {"accounts"} : accounts.queries[p] = payees.queries[p]
  BY <1>9, <1>12, <1>16, BeginQueryAsks
<1>18. accounts \in Views
  BY <1>17 DEF Asks
<1>19. /\ Asks(accounts, month) /\ month.queries["month"].latest = accounts.ids + 1
       /\ month.queries["month"].asked = 1
       /\ \A p \in Projections \ {"month"} : month.queries[p] = accounts.queries[p]
  BY <1>10, <1>12, <1>18, BeginQueryAsks
<1>20. month \in Views
  BY <1>19 DEF Asks
<1>21. /\ Asks(month, app) /\ app.queries["inbox"].latest = month.ids + 1
       /\ \A p \in Projections \ {"inbox"} : app.queries[p] = month.queries[p]
  BY <1>11, <1>12, <1>20, BeginQueryAsks
<1>22. Asks(blank, app)
  <2>1. Asks(blank, payees)
    BY <1>5, <1>13, <1>15, AsksOn
  <2>2. Asks(blank, accounts)
    BY <1>5, <1>17, <2>1, AsksOn
  <2>3. Asks(blank, month)
    BY <1>5, <1>19, <2>2, AsksOn
  <2> QED
    BY <1>5, <1>21, <2>3, AsksOn
<1>23. app \in Views /\ Consistent(app) /\ app.month = 1
  BY <1>4, <1>6, <1>22 DEF Asks, SameElse
<1>24. MonthAsked(app)
  BY <1>12, <1>19, <1>21, <1>23 DEF MonthAsked
<1>25. ASSUME NEW p \in Watched PROVE app.queries[p].latest # 0
  <2>1. catalog.ids \in Nat /\ payees.ids \in Nat /\ accounts.ids \in Nat /\ month.ids \in Nat
    BY <1>14, <1>16, <1>18, <1>20, ViewShape
  <2>2. /\ app.queries["inbox"].latest = month.ids + 1
        /\ app.queries["month"].latest = accounts.ids + 1
        /\ app.queries["accounts"].latest = payees.ids + 1
        /\ app.queries["payees"].latest = catalog.ids + 1
    BY <1>12, <1>15, <1>17, <1>19, <1>21
  <2>3. /\ app.queries["inbox"].latest # 0 /\ app.queries["month"].latest # 0
        /\ app.queries["accounts"].latest # 0 /\ app.queries["payees"].latest # 0
    BY <2>1, <2>2
  <2> QED
    BY <1>25, <2>3 DEF Watched
<1>26. answers = <<>> /\ commits = <<>>
  BY DEF ViewsInit
<1>27. <<>> \in Seq(Answers) /\ <<>> \in Seq(Commits)
  BY ONLY EmptySeq
<1>28. DOMAIN <<>> = {}
  OBVIOUS
<1>29. Named(app)
  <2>1. app.queries["catalog"] = catalog.queries["catalog"]
    BY <1>12, <1>15, <1>17, <1>19, <1>21
  <2>2. app.archived = blank.archived /\ app.category = Nothing
    BY <1>4, <1>22 DEF Asks, SameElse
  <2> QED
    BY <1>13, <2>1, <2>2 DEF Named
<1> QED
  BY <1>23, <1>24, <1>25, <1>26, <1>27, <1>28, <1>29 DEF ViewsInv, ViewsOK

\* An intent that begins a query after a move.
LEMMA MoveAndAskKeep ==
  ASSUME NEW v, NEW list, NEW log, ViewsOK(v, list, log), NEW x, Moves(v, x),
         NEW of \in Projections \ {"month"}, NEW key \in ViewKeys, NEW w, w = BeginQuery(x, of, key)
  PROVE  ViewsOK(w, list, log)
<1>1. ViewsOK(x, list, log)
  BY MovesKeep
<1>2. x \in Views /\ MonthAsked(x)
  BY <1>1 DEF ViewsOK
<1>3. Asks(x, w) /\ \A p \in Projections \ {of} : w.queries[p] = x.queries[p]
  BY <1>2, BeginQueryAsks
<1>4. MonthAsked(w)
  <2>1. w.queries["month"] = x.queries["month"] /\ w.month = x.month /\ w.pending = x.pending
    BY <1>3 DEF Projections, Asks, SameElse
  <2> QED
    BY <1>2, <2>1 DEF MonthAsked, Due, Touches
<1> QED
  BY <1>1, <1>3, <1>4, AsksKeeps
Moved(v, ws, account, month, archived, category, activity, pending, w) ==
  w = [workspace |-> ws, account |-> account, month |-> month, archived |-> archived,
       category |-> category, activity |-> activity, generation |-> v.generation, ids |-> v.ids,
       queries |-> v.queries, sent |-> v.sent, pending |-> pending, lost |-> v.lost]

\* What a move may not touch; a new month is one that is due.
KeptBut(v, w) ==
  /\ w.ids = v.ids /\ w.queries = v.queries /\ w.sent = v.sent /\ w.lost = v.lost
  /\ v.pending \subseteq w.pending
  /\ w.month = v.month \/ InvalidMonth("month", w.month) \in w.pending

\* The shape of every move.
LEMMA MovedMoves ==
  ASSUME NEW v \in Views, NEW w \in Views, KeptBut(v, w)
  PROVE  Moves(v, w)
<1>1. InvalidMonth("month", w.month) \in w.pending => Due(w, "month")
  BY DEF Due, Touches, MonthTouched, InvalidMonth
<1> QED
  BY <1>1 DEF Moves, KeptBut

\* An invalidation of a month is one.
LEMMA MonthInvalid ==
  ASSUME NEW m \in Int
  PROVE  InvalidMonth("month", m) \in Invalids
BY DEF InvalidMonth, Invalids, InvalidKinds

\* Every intent of the user keeps the invariant.
LEMMA IntentsKeep ==
  ASSUME ViewsInv, UNCHANGED <<answers, commits>>,
         \/ \E account \in ViewAccounts : ClickAccount(account)
         \/ \E w \in {"Overview", "Budget", "Categories", "Reports", "AllTransactions"} : Navigate(w)
         \/ \E month \in ViewMonths : StepMonth(month)
         \/ \E archived \in BOOLEAN : ToggleArchived(archived)
         \/ \E category \in CatalogCategories : SelectCategory(category) \/ OpenActivity(category)
         \/ \E report \in ReportRequests : RefreshReport(report)
         \/ \E mutation \in Mutations : Mutate(mutation)
  PROVE  ViewsOK(app', answers, commits)
<1>1. PICK v : v = app
  OBVIOUS
<1>2. ViewsOK(v, answers, commits)
  BY <1>1 DEF ViewsInv
<1>3. /\ v \in Views
      /\ v = [workspace |-> v.workspace, account |-> v.account, month |-> v.month,
              archived |-> v.archived, category |-> v.category, activity |-> v.activity,
              generation |-> v.generation, ids |-> v.ids, queries |-> v.queries,
              sent |-> v.sent, pending |-> v.pending, lost |-> v.lost]
      /\ v.workspace \in Places /\ v.account \in ViewAccounts \cup {Nothing, Home}
      /\ v.month \in Int /\ v.archived \in BOOLEAN
      /\ v.category \in CatalogCategories \cup {Nothing}
      /\ v.activity \in CatalogCategories \cup {Nothing}
      /\ v.pending \in SUBSET Invalids
      /\ v.generation \in Nat /\ v.ids \in Nat
      /\ v.queries \in [Projections -> Queries] /\ v.sent \in Seq(ViewRequests)
      /\ v.lost \in SUBSET Nat
  <2>1. v \in Views
    BY <1>2 DEF ViewsOK
  <2> QED
    BY <2>1, ViewShape
<1>4. ASSUME NEW account \in ViewAccounts, ClickAccount(account) PROVE ViewsOK(app', answers, commits)
  <2>1. PICK x : x = [v EXCEPT !.account = account]
    OBVIOUS
  <2>2. PICK w : w = [x EXCEPT !.workspace = "Account"]
    OBVIOUS
  <2>3. app' = w
    BY <1>1, <1>4, <2>1, <2>2 DEF ClickAccount, Intent
  <2>4. PICK ws \in Places : ws = "Account"
    BY DEF Places
  <2>5. x = [workspace |-> v.workspace, account |-> account, month |-> v.month,
             archived |-> v.archived, category |-> v.category, activity |-> v.activity,
             generation |-> v.generation, ids |-> v.ids, queries |-> v.queries,
             sent |-> v.sent, pending |-> v.pending, lost |-> v.lost]
    BY <1>3, <2>1
  <2>6. Moved(v, ws, account, v.month, v.archived, v.category, v.activity, v.pending, w)
    BY <2>2, <2>4, <2>5 DEF Moved
  <2>7. Moves(v, w)
    <3>1. w \in Views
      BY <1>3, <2>6 DEF Moved, Views
    <3>2. KeptBut(v, w)
      BY <1>3, <2>6 DEF Moved, KeptBut
    <3> QED
      BY <1>3, <3>1, <3>2, MovedMoves
  <2> QED
    BY <1>2, <2>3, <2>7, MovesKeep
<1>5. ASSUME NEW place \in Places, Navigate(place) PROVE ViewsOK(app', answers, commits)
  <2>1. PICK x : x = [v EXCEPT !.workspace = place]
    OBVIOUS
  <2>2. x = [workspace |-> place, account |-> v.account, month |-> v.month,
             archived |-> v.archived, category |-> v.category, activity |-> v.activity,
             generation |-> v.generation, ids |-> v.ids, queries |-> v.queries,
             sent |-> v.sent, pending |-> v.pending, lost |-> v.lost]
    BY <1>3, <2>1
  <2>3. Moved(v, place, v.account, v.month, v.archived, v.category, v.activity, v.pending, x)
    BY <2>2 DEF Moved
  <2>4. Moves(v, x)
    <3>1. x \in Views
      BY <1>3, <2>3 DEF Moved, Views
    <3>2. KeptBut(v, x)
      BY <1>3, <2>3 DEF Moved, KeptBut
    <3> QED
      BY <1>3, <3>1, <3>2, MovedMoves
  <2>5. CASE place = "Budget"
    <3>1. PICK pending : pending = v.pending \cup {InvalidMonth("month", v.month)}
      OBVIOUS
    <3>2. pending \in SUBSET Invalids
      BY <1>3, <3>1, MonthInvalid
    <3>3. PICK w : w = [x EXCEPT !.pending = pending]
      OBVIOUS
    <3>4. app' = w
      BY <1>1, <1>5, <2>1, <2>2, <2>5, <3>1, <3>3 DEF Navigate, Intent
    <3>5. Moved(v, place, v.account, v.month, v.archived, v.category, v.activity, pending, w)
      BY <2>2, <3>3 DEF Moved
    <3>6. Moves(v, w)
      <4>1. w \in Views
        BY <1>3, <3>1, <3>2, <3>5 DEF Moved, Views
      <4>2. KeptBut(v, w)
        BY <1>3, <3>1, <3>2, <3>5 DEF Moved, KeptBut
      <4> QED
        BY <1>3, <4>1, <4>2, MovedMoves
    <3> QED
      BY <1>2, <3>4, <3>6, MovesKeep
  <2>6. CASE place = "Categories"
    <3>1. PICK w : w = BeginQuery(x, "catalog", x.archived)
      OBVIOUS
    <3>2. app' = w
      BY <1>1, <1>5, <2>1, <2>6, <3>1 DEF Navigate, Intent, RequestCatalog
    <3>3. "catalog" \in Projections \ {"month"} /\ x.archived \in ViewKeys
      BY <1>3, <2>2 DEF Projections, ViewKeys
    <3>4. ViewsOK(w, answers, commits)
      BY <1>2, <2>4, <3>1, <3>3, MoveAndAskKeep
    <3> QED
      BY <3>2, <3>4
  <2>7. CASE place \notin {"Budget", "Categories"}
    <3>1. app' = x
      BY <1>1, <1>5, <2>1, <2>7 DEF Navigate, Intent
    <3> QED
      BY <1>2, <2>4, <3>1, MovesKeep
  <2> QED
    BY <2>5, <2>6, <2>7
<1>6. ASSUME NEW month \in ViewMonths, StepMonth(month) PROVE ViewsOK(app', answers, commits)
  <2>1. PICK x : x = [v EXCEPT !.month = month]
    OBVIOUS
  <2>2. x = [workspace |-> v.workspace, account |-> v.account, month |-> month,
             archived |-> v.archived, category |-> v.category, activity |-> v.activity,
             generation |-> v.generation, ids |-> v.ids, queries |-> v.queries,
             sent |-> v.sent, pending |-> v.pending, lost |-> v.lost]
    BY <1>3, <2>1
  <2>3. PICK pending : pending = v.pending \cup {InvalidMonth("month", month)}
    OBVIOUS
  <2>4. month \in Int /\ pending \in SUBSET Invalids
    BY <1>3, <2>3, MonthInvalid, ViewsAssumption
  <2>5. PICK w : w = [x EXCEPT !.pending = pending]
    OBVIOUS
  <2>6. app' = w
    BY <1>1, <1>3, <1>6, <2>1, <2>3, <2>5 DEF StepMonth, Intent
  <2>7. Moved(v, v.workspace, v.account, month, v.archived, v.category, v.activity, pending, w)
    BY <2>2, <2>5 DEF Moved
  <2>8. Moves(v, w)
    <3>1. w \in Views
      BY <1>3, <2>3, <2>4, <2>7 DEF Moved, Views
    <3>2. KeptBut(v, w)
      BY <1>3, <2>3, <2>4, <2>7 DEF Moved, KeptBut
    <3> QED
      BY <1>3, <3>1, <3>2, MovedMoves
  <2> QED
    BY <1>2, <2>6, <2>8, MovesKeep
<1>7. ASSUME NEW archived \in BOOLEAN, ToggleArchived(archived) PROVE ViewsOK(app', answers, commits)
  <2>1. PICK x : x = [v EXCEPT !.archived = archived]
    OBVIOUS
  <2>2. Moved(v, v.workspace, v.account, v.month, archived, v.category, v.activity, v.pending, x)
    BY <1>3, <2>1 DEF Moved
  <2>3. Moves(v, x)
    <3>1. x \in Views
      BY <1>3, <2>2 DEF Moved, Views
    <3>2. KeptBut(v, x)
      BY <1>3, <2>2 DEF Moved, KeptBut
    <3> QED
      BY <1>3, <3>1, <3>2, MovedMoves
  <2>4. PICK w : w = BeginQuery(x, "catalog", archived)
    OBVIOUS
  <2>5. app' = w
    BY <1>1, <1>3, <1>7, <2>1, <2>4 DEF ToggleArchived, Intent, RequestCatalog
  <2>6. "catalog" \in Projections \ {"month"} /\ archived \in ViewKeys
    BY DEF Projections, ViewKeys
  <2>7. ViewsOK(w, answers, commits)
    BY <1>2, <2>3, <2>4, <2>6, MoveAndAskKeep
  <2> QED
    BY <2>5, <2>7
<1>8. ASSUME NEW category \in CatalogCategories, SelectCategory(category)
      PROVE  ViewsOK(app', answers, commits)
  <2>1. PICK x : x = [v EXCEPT !.category = category]
    OBVIOUS
  <2>2. Moved(v, v.workspace, v.account, v.month, v.archived, category, v.activity, v.pending, x)
    BY <1>3, <2>1 DEF Moved
  <2>3. Moves(v, x)
    <3>1. x \in Views
      BY <1>3, <2>2 DEF Moved, Views
    <3>2. KeptBut(v, x)
      BY <1>3, <2>2 DEF Moved, KeptBut
    <3> QED
      BY <1>3, <3>1, <3>2, MovedMoves
  <2>4. PICK w : w = BeginQuery(x, "detail", category)
    OBVIOUS
  <2>5. app' = w
    BY <1>1, <1>8, <2>1, <2>4 DEF SelectCategory, Intent
  <2>6. "detail" \in Projections \ {"month"} /\ category \in ViewKeys
    BY DEF Projections, ViewKeys
  <2>7. ViewsOK(w, answers, commits)
    BY <1>2, <2>3, <2>4, <2>6, MoveAndAskKeep
  <2> QED
    BY <2>5, <2>7
<1>9. ASSUME NEW category \in CatalogCategories, OpenActivity(category)
      PROVE  ViewsOK(app', answers, commits)
  <2>1. PICK x : x = [v EXCEPT !.activity = category]
    OBVIOUS
  <2>2. PICK w : w = [x EXCEPT !.workspace = "AllTransactions"]
    OBVIOUS
  <2>3. app' = w
    BY <1>1, <1>9, <2>1, <2>2 DEF OpenActivity, Intent
  <2>4. PICK ws \in Places : ws = "AllTransactions"
    BY DEF Places
  <2>5. x = [workspace |-> v.workspace, account |-> v.account, month |-> v.month,
             archived |-> v.archived, category |-> v.category, activity |-> category,
             generation |-> v.generation, ids |-> v.ids, queries |-> v.queries,
             sent |-> v.sent, pending |-> v.pending, lost |-> v.lost]
    BY <1>3, <2>1
  <2>6. Moved(v, ws, v.account, v.month, v.archived, v.category, category, v.pending, w)
    BY <2>2, <2>4, <2>5 DEF Moved
  <2>7. Moves(v, w)
    <3>1. w \in Views
      BY <1>3, <2>6 DEF Moved, Views
    <3>2. KeptBut(v, w)
      BY <1>3, <2>6 DEF Moved, KeptBut
    <3> QED
      BY <1>3, <3>1, <3>2, MovedMoves
  <2> QED
    BY <1>2, <2>3, <2>7, MovesKeep
<1>10. ASSUME NEW report \in ReportRequests, RefreshReport(report) PROVE ViewsOK(app', answers, commits)
  <2>1. Moves(v, v)
    BY <1>3 DEF Moves
  <2>2. PICK w : w = BeginQuery(v, "report", report)
    OBVIOUS
  <2>3. app' = w
    BY <1>1, <1>10, <2>2 DEF RefreshReport, Intent
  <2>4. "report" \in Projections \ {"month"} /\ report \in ViewKeys
    BY DEF Projections, ViewKeys
  <2>5. ViewsOK(w, answers, commits)
    BY <1>2, <2>1, <2>2, <2>4, MoveAndAskKeep
  <2> QED
    BY <2>3, <2>5
<1>11. ASSUME NEW mutation \in Mutations, Mutate(mutation) PROVE ViewsOK(app', answers, commits)
  BY <1>1, <1>2, <1>11, SendKeeps DEF Mutate, Intent
<1>12. {"Overview", "Budget", "Categories", "Reports", "AllTransactions"} \subseteq Places
  BY DEF Places
<1> QED
  BY <1>4, <1>5, <1>6, <1>7, <1>8, <1>9, <1>10, <1>11, <1>12

\* Every step keeps it.
LEMMA ViewsStep == ViewsInv /\ [ViewsNext]_views => ViewsInv'
<1> SUFFICES ASSUME ViewsInv, [ViewsNext]_views PROVE ViewsInv'
  OBVIOUS
<1>1. PICK v, list, log : v = app /\ list = answers /\ log = commits
  OBVIOUS
<1>2. ViewsOK(v, list, log)
  BY <1>1 DEF ViewsInv
<1>3. CASE Drain
  <2>1. PICK u : u = FoldLeft(HandleAnswer, v, list)
    OBVIOUS
  <2>2. Drains(v, list, DOMAIN list, u)
    <3>1. v \in Views /\ list \in Seq(Answers)
      BY <1>2 DEF ViewsOK
    <3>2. Drains(v, list, DOMAIN list, FoldLeft(HandleAnswer, v, list))
      BY <3>1, DrainHandles
    <3> QED
      BY <2>1, <3>2
  <2>3. PICK w : w = ProcessInvalidations(u)
    OBVIOUS
  <2>4. ViewsOK(w, <<>>, log)
    BY <1>2, <2>2, <2>3, DrainKeeps
  <2>5. app' = w /\ answers' = <<>> /\ commits' = log
    BY <1>1, <1>3, <2>1, <2>3 DEF Drain
  <2> QED
    BY <2>4, <2>5 DEF ViewsInv
<1>4. CASE Work
  <2>1. PICK request : request = Head(v.sent)
    OBVIOUS
  <2>2. PICK w : w = [v EXCEPT !.sent = Tail(@)]
    OBVIOUS
  <2>3. v.sent # <<>> /\ app' = w
    BY <1>1, <1>4, <2>2 DEF Work
  <2>4a. PICK log2 : log2 = commits'
    OBVIOUS
  <2>4b. PICK failed \in BOOLEAN :
           /\ \/ log2 = log /\ (request.of # "command" \/ failed)
              \/ log2 = Append(log, request.key) /\ request.of = "command" /\ ~failed
           /\ answers' = Append(list, [id |-> request.id, generation |-> request.generation,
                                      of |-> request.of, key |-> request.key,
                                      failed |-> failed, revision |-> Len(log2)])
    BY <1>1, <1>4, <2>1, <2>4a DEF Work
  <2>4. PICK a :
          /\ a = [id |-> request.id, generation |-> request.generation, of |-> request.of,
                  key |-> request.key, failed |-> failed, revision |-> Len(log2)]
          /\ \/ log2 = log /\ (request.of # "command" \/ failed)
             \/ log2 = Append(log, request.key) /\ request.of = "command" /\ ~failed
          /\ answers' = Append(list, a) /\ commits' = log2
    BY <2>4a, <2>4b
  <2>5. ViewsOK(w, Append(list, a), log2)
    BY <1>2, <2>1, <2>2, <2>3, <2>4, WorkKeeps
  <2> QED
    BY <2>3, <2>4, <2>5 DEF ViewsInv
<1>5. CASE ReplaceLedger
  <2>1. PICK log2 : log2 = Append(log, [kind |-> "restore", month |-> 1])
    OBVIOUS
  <2>2. PICK w : w = [v EXCEPT !.sent = <<>>, !.lost = 1..Len(log2)]
    OBVIOUS
  <2>3. app' = w /\ answers' = <<>> /\ commits' = log2
    BY <1>1, <1>5, <2>1, <2>2 DEF ReplaceLedger
  <2>4. ViewsOK(w, <<>>, log2)
    BY <1>2, <2>1, <2>2, ReplaceKeeps
  <2> QED
    BY <2>3, <2>4 DEF ViewsInv
<1>6. CASE UNCHANGED views
  BY <1>6 DEF views, ViewsInv
<1>7. CASE \/ \E account \in ViewAccounts : ClickAccount(account)
           \/ \E w \in {"Overview", "Budget", "Categories", "Reports", "AllTransactions"} : Navigate(w)
           \/ \E month \in ViewMonths : StepMonth(month)
           \/ \E archived \in BOOLEAN : ToggleArchived(archived)
           \/ \E category \in CatalogCategories : SelectCategory(category) \/ OpenActivity(category)
           \/ \E report \in ReportRequests : RefreshReport(report)
           \/ \E mutation \in Mutations : Mutate(mutation)
  <2>1. UNCHANGED <<answers, commits>>
    BY <1>7 DEF ClickAccount, Navigate, StepMonth, ToggleArchived, SelectCategory, OpenActivity,
                RefreshReport, Mutate, Intent
  <2>2. ViewsOK(app', answers, commits)
    BY <1>7, <2>1, IntentsKeep
  <2> QED
    BY <2>1, <2>2 DEF ViewsInv
<1> QED
  BY <1>3, <1>4, <1>5, <1>6, <1>7 DEF ViewsNext

\* The screens keep to the names of what they claim to show.
LEMMA NamesKept == ViewsInv /\ NamesInv /\ [ViewsNext]_views => NamesInv'
<1> SUFFICES ASSUME ViewsInv, Named(app), [ViewsNext]_views PROVE Named(app')
  BY DEF NamesInv
<1>1. PICK v : v = app
  OBVIOUS
<1>2. /\ v \in Views /\ answers \in Seq(Answers)
      /\ v.archived \in ViewKeys /\ v.category \in CatalogCategories \cup {Nothing}
      /\ v.queries \in [Projections -> Queries]
  BY <1>1, ViewShape DEF ViewsInv, ViewsOK, ViewKeys
<1>3. {"catalog", "detail", "report"} \subseteq Projections
  BY DEF Projections
<1>4. Named(v)
  BY <1>1
<1>5. ASSUME NEW w, w.queries = v.queries, w.archived = v.archived, w.category = v.category
      PROVE  Named(w)
  BY <1>4, <1>5 DEF Named
<1>6. CASE Drain
  <2>1. PICK u : u = FoldLeft(HandleAnswer, v, answers)
    OBVIOUS
  <2>2. Drains(v, answers, DOMAIN answers, u)
    <3>1. Drains(v, answers, DOMAIN answers, FoldLeft(HandleAnswer, v, answers))
      BY <1>2, DrainHandles
    <3> QED
      BY <2>1, <3>1
  <2>3. /\ u \in Views /\ u.archived = v.archived /\ u.category \in {Nothing, v.category}
        /\ \A p \in Projections : u.queries[p].asked = v.queries[p].asked
    BY <2>2 DEF Drains, Settles
  <2>4. PICK w : w = ProcessInvalidations(u)
    OBVIOUS
  <2>5. /\ Asks([u EXCEPT !.pending = {}], w)
        /\ w.queries["catalog"] = u.queries["catalog"] /\ w.queries["detail"] = u.queries["detail"]
    BY <2>3, <2>4, InvalidationsAsk
  <2>6. w.archived = u.archived /\ w.category = u.category
    <3>1. PICK s : s = [u EXCEPT !.pending = {}]
      OBVIOUS
    <3>2. s.archived = u.archived /\ s.category = u.category
      BY <2>3, <3>1, ViewShape
    <3>3. Asks(s, w)
      BY <2>5, <3>1
    <3> QED
      BY <3>2, <3>3 DEF Asks, SameElse
  <2>7. app' = w
    BY <1>1, <1>6, <2>1, <2>4 DEF Drain
  <2> QED
    BY <1>3, <1>4, <2>3, <2>5, <2>6, <2>7 DEF Named
<1>7. CASE Work \/ ReplaceLedger
  <2>1. PICK sent, lost : app' = [v EXCEPT !.sent = sent, !.lost = lost] \/ app' = [v EXCEPT !.sent = sent]
    BY <1>1, <1>7 DEF Work, ReplaceLedger
  <2>2. app'.queries = v.queries /\ app'.archived = v.archived /\ app'.category = v.category
    BY <1>2, <2>1, ViewShape
  <2> QED
    BY <1>5, <2>2
<1>8. CASE \/ \E account \in ViewAccounts : ClickAccount(account)
           \/ \E month \in ViewMonths : StepMonth(month)
           \/ \E category \in CatalogCategories : OpenActivity(category)
           \/ \E mutation \in Mutations : Mutate(mutation)
           \/ \E place \in {"Overview", "Budget", "Reports", "AllTransactions"} : Navigate(place)
  <2>1. app'.queries = v.queries /\ app'.archived = v.archived /\ app'.category = v.category
    BY <1>1, <1>2, <1>8, ViewShape
       DEF ClickAccount, StepMonth, OpenActivity, Mutate, Navigate, Intent, Send
  <2> QED
    BY <1>5, <2>1
<1>9. ASSUME NEW x \in Views, x.queries = v.queries, NEW of \in {"catalog", "detail", "report"},
             NEW key \in ViewKeys, app' = BeginQuery(x, of, key),
             IF of = "catalog" THEN key = x.archived ELSE x.archived = v.archived,
             IF of = "detail" THEN key = x.category ELSE x.category = v.category
      PROVE  Named(app')
  <2>1. PICK w : w = app'
    OBVIOUS
  <2>2. /\ Asks(x, w) /\ w.queries[of].asked = key
        /\ \A p \in Projections \ {of} : w.queries[p] = x.queries[p]
    BY <1>3, <1>9, <2>1, BeginQueryAsks
  <2>3. w.archived = x.archived /\ w.category = x.category
    BY <2>2 DEF Asks, SameElse
  <2> QED
    BY <1>3, <1>4, <1>9, <2>1, <2>2, <2>3 DEF Named
<1>10. CASE Navigate("Categories")
  <2>0. PICK place \in Places : place = "Categories"
    BY DEF Places
  <2>1. PICK x : x = [v EXCEPT !.workspace = place]
    OBVIOUS
  <2>2. x = [workspace |-> place, account |-> v.account, month |-> v.month,
             archived |-> v.archived, category |-> v.category, activity |-> v.activity,
             generation |-> v.generation, ids |-> v.ids, queries |-> v.queries,
             sent |-> v.sent, pending |-> v.pending, lost |-> v.lost]
    BY <1>2, <2>1, ViewShape
  <2>3. x \in Views
    BY <1>2, <2>2, ViewShape DEF Views
  <2>4. app' = BeginQuery(x, "catalog", x.archived)
    BY <1>1, <1>10, <2>0, <2>1 DEF Navigate, Intent, RequestCatalog
  <2> QED
    BY <1>2, <1>9, <2>2, <2>3, <2>4
<1>11. ASSUME NEW archived \in BOOLEAN, ToggleArchived(archived) PROVE Named(app')
  <2>1. PICK x : x = [v EXCEPT !.archived = archived]
    OBVIOUS
  <2>2. x = [workspace |-> v.workspace, account |-> v.account, month |-> v.month,
             archived |-> archived, category |-> v.category, activity |-> v.activity,
             generation |-> v.generation, ids |-> v.ids, queries |-> v.queries,
             sent |-> v.sent, pending |-> v.pending, lost |-> v.lost]
    BY <1>2, <2>1, ViewShape
  <2>3. x \in Views
    BY <1>2, <2>2, ViewShape DEF Views
  <2>4. app' = BeginQuery(x, "catalog", archived)
    BY <1>1, <1>11, <2>1, <2>2 DEF ToggleArchived, Intent, RequestCatalog
  <2>5. archived \in ViewKeys
    BY DEF ViewKeys
  <2> QED
    BY <1>9, <2>2, <2>3, <2>4, <2>5
<1>12. ASSUME NEW category \in CatalogCategories, SelectCategory(category) PROVE Named(app')
  <2>1. PICK x : x = [v EXCEPT !.category = category]
    OBVIOUS
  <2>2. x = [workspace |-> v.workspace, account |-> v.account, month |-> v.month,
             archived |-> v.archived, category |-> category, activity |-> v.activity,
             generation |-> v.generation, ids |-> v.ids, queries |-> v.queries,
             sent |-> v.sent, pending |-> v.pending, lost |-> v.lost]
    BY <1>2, <2>1, ViewShape
  <2>3. x \in Views
    BY <1>2, <2>2, ViewShape DEF Views
  <2>4. app' = BeginQuery(x, "detail", category)
    BY <1>1, <1>12, <2>1 DEF SelectCategory, Intent
  <2>5. category \in ViewKeys
    BY DEF ViewKeys
  <2> QED
    BY <1>9, <2>2, <2>3, <2>4, <2>5
<1>13. ASSUME NEW report \in ReportRequests, RefreshReport(report) PROVE Named(app')
  <2>1. app' = BeginQuery(v, "report", report) /\ report \in ViewKeys
    BY <1>1, <1>13 DEF RefreshReport, Intent, ViewKeys
  <2> QED
    BY <1>2, <1>9, <2>1
<1>14. CASE UNCHANGED views
  BY <1>14 DEF views
<1> QED
  BY <1>6, <1>7, <1>8, <1>10, <1>11, <1>12, <1>13, <1>14 DEF ViewsNext

\* What the invariant says of what is shown.
LEMMA ViewsShow == ViewsInv /\ NamesInv => ShowsWhatWasAsked /\ NeverStaleUnnoticed
<1> SUFFICES ASSUME ViewsInv, Named(app) PROVE ShowsWhatWasAsked /\ NeverStaleUnnoticed
  BY DEF NamesInv
<1>1. /\ \A p \in Projections : Shows(app.queries[p])
      /\ \A p \in Watched : app.queries[p].latest # 0
      /\ MonthAsked(app)
  BY DEF ViewsInv, ViewsOK, Consistent
<1>2. ShowsWhatWasAsked
  <2>1. ASSUME NEW p \in Projections, ~app.queries[p].refreshing, ~app.queries[p].failed,
               app.queries[p].shown # Nothing
        PROVE  \/ app.queries[p].shown.key = Claimed(p)
               \/ p = "month" /\ MonthDue(app)
               \/ p = "detail" /\ app.category = Nothing
               \/ p = "register" /\ app.queries[p].asked # app.activity
                  /\ app.queries[p].shown.key = app.queries[p].asked
    <3>1. app.queries[p].shown.key = app.queries[p].asked
      BY <1>1, <2>1 DEF Shows
    <3>2. CASE p = "month"
      BY <1>1, <3>1, <3>2 DEF MonthAsked, Due, Touches, MonthDue, Claimed
    <3>3. CASE p \in {"catalog", "detail"}
      BY <3>1, <3>3 DEF Named, Claimed
    <3>4. CASE p = "register"
      BY <3>1, <3>4 DEF Claimed
    <3>5. CASE p \notin {"month", "catalog", "detail", "register"}
      BY <3>1, <3>5 DEF Claimed
    <3> QED
      BY <3>2, <3>3, <3>4, <3>5
  <2> QED
    BY <2>1 DEF ShowsWhatWasAsked
<1>3. ASSUME Quiet PROVE NeverStaleUnnoticed
  <2>1. \A p \in Watched : ~Due(app, p)
    BY <1>3 DEF Quiet, Due
  <2>2. ~app.queries["month"].refreshing /\ ~app.queries["month"].failed =>
          app.queries["month"].shown.key = app.month
    <3>1. "month" \in Watched /\ "month" \in Projections
      BY DEF Watched, Projections
    <3> QED
      BY <1>1, <2>1, <3>1 DEF MonthAsked, Shows
  <2>3. ASSUME NEW p \in Watched, NEW i \in DOMAIN commits \ app.lost,
               ~app.queries[p].refreshing, ~app.queries[p].failed, Concerns(commits[i], p)
        PROVE  app.queries[p].shown.revision >= i
    <3>1. ConcernsIn(app, commits[i], p)
      <4>1. PICK m : m = commits[i]
        OBVIOUS
      <4>2. PICK invalid \in Announced(m) :
              IF p = "month" THEN MonthTouched(invalid, app.month) ELSE invalid.kind = p
        BY <2>3, <4>1 DEF Concerns
      <4>3. invalid.kind \in {"accounts", "inbox", "payees"} => invalid = Invalid(invalid.kind)
        BY <4>2 DEF Announced, AnnouncedOfMoney, AnnouncedOfRecords, Invalid, InvalidMonth
      <4> QED
        BY <4>1, <4>2, <4>3 DEF ConcernsIn, Touches, Watched
    <3>2. Heard(app, answers, commits[i], i) /\ ~Unheard(answers, i)
      <4>1. DOMAIN answers = {}
        BY <1>3 DEF Quiet
      <4> QED
        BY <4>1 DEF ViewsInv, ViewsOK, Unheard
    <3>3. UpToDate(app, answers, p, i)
      BY <2>1, <2>3, <3>1, <3>2 DEF Heard
    <3> QED
      BY <2>3, <3>3 DEF UpToDate
  <2> QED
    BY <2>2, <2>3 DEF NeverStaleUnnoticed, Watched
<1> QED
  BY <1>2, <1>3 DEF NeverStaleUnnoticed

\* However quickly the user moves on and in whatever order answers come: a screen that is
\* neither loading nor in error shows the month, category, catalog, filter or report it
\* claims to (ViewQueryState::accept, drain_worker_responses), but for a month about to be
\* asked for, a detail whose category was let go, and the register of OpenTransactions.
THEOREM LastQuestionShown == ViewsSpec => []ShowsWhatWasAsked
BY ViewsStart, ViewsStep, NamesKept, ViewsShow, PTL DEF ViewsSpec

\* After any number of commits, failures, moves and replaced ledgers: once everything has
\* come to rest, what claims to be current was read after the last commit that announced a
\* change of it, unless that commit's answer was dropped (process_invalidations).
THEOREM StaleIsNoticed == ViewsSpec => []NeverStaleUnnoticed
BY ViewsStart, ViewsStep, NamesKept, ViewsShow, PTL DEF ViewsSpec
-----------------------------------------------------------------------------
(* Intents *)

Workspaces == {"Overview", "Budget", "Categories", "Reports", "Account", "AllTransactions"}
EditorKinds == ModalEditors \cup {"none", "transaction", "organizing"}
Editors == [kind : EditorKinds, typed : BOOLEAN, dirty : BOOLEAN, valid : BOOLEAN,
            commit : {"Idle", "Submitting", "Errors"}]
Desks == [budget : BOOLEAN, ws : Workspaces, account : BOOLEAN, row : RowKinds \cup {"none"},
          editor : Editors, dialog : BOOLEAN]

\* The workspace of an account has an account, and nobody types where no editor is.
DeskOK(d) ==
  /\ d \in Desks
  /\ d.ws = "Account" => d.account
  /\ d.editor.typed => d.editor.kind # "none"

Outcomes == {"done", "unavailable", "ignored", "warned"}
Answered(d, r) == r = [desk |-> r.desk, outcome |-> r.outcome] /\ DeskOK(r.desk)
Loses(d, r) == d.editor.typed /\ ~r.desk.editor.typed

\* An editor put in the place of what is mounted, and a result that leaves the desk alone.
LEMMA Mounted ==
  ASSUME NEW d, DeskOK(d), NEW kind \in EditorKinds, NEW valid \in BOOLEAN, NEW r, r = Mount(d, kind, valid)
  PROVE  DeskOK(r.desk) /\ r.outcome = "done"
<1>1. PICK e : e = Editor(kind, valid)
  OBVIOUS
<1>2. e \in Editors /\ ~e.typed
  BY <1>1 DEF Editor, Editors
<1>3. r.desk = [d EXCEPT !.editor = e] /\ r.outcome = "done"
  BY <1>1 DEF Mount, Became
<1> QED
  BY <1>2, <1>3 DEF DeskOK, Desks

\* Cancelled and left editors are gone.
LEMMA Unmounted ==
  ASSUME NEW d, DeskOK(d), NEW e, e = [d EXCEPT !.editor = NoEditor]
  PROVE  DeskOK(e) /\ ~e.editor.typed
<1>1. NoEditor \in Editors /\ ~NoEditor.typed
  BY DEF NoEditor, Editor, Editors, EditorKinds
<1> QED
  BY <1>1 DEF DeskOK, Desks

\* The navigation commands leave what is open, unless it is being saved.
LEMMA LeaveIs ==
  ASSUME NEW d, DeskOK(d), NEW c \in Navigations, NEW r, r = Leave(d, c)
  PROVE  /\ DeskOK(r.desk) /\ r.outcome # "unavailable"
         /\ Loses(d, r) => ~Submitting(d)
<1>1. CASE d.editor.kind # "none" /\ Submitting(d)
  <2>1. r.desk = d /\ r.outcome = "ignored"
    BY <1>1 DEF Leave, Ignored, Became
  <2> QED
    BY <2>1 DEF Loses
<1>2. CASE ~(d.editor.kind # "none" /\ Submitting(d))
  <2>1. PICK ws : ws = CASE c = "NavigateOverview" -> "Overview"
                         [] c = "NavigateBudget" -> "Budget"
                         [] c = "NavigateCategories" -> "Categories"
                         [] c = "NavigateReports" -> "Reports"
                         [] OTHER -> "AllTransactions"
    OBVIOUS
  <2>2. ws \in Workspaces /\ ws # "Account"
    BY <2>1 DEF Workspaces
  <2>3. PICK e : e = [d EXCEPT !.editor = NoEditor]
    OBVIOUS
  <2>4. DeskOK(e)
    BY <2>3, Unmounted
  <2>5. r.desk = [e EXCEPT !.ws = ws] /\ r.outcome = "done"
    BY <1>2, <2>1, <2>3 DEF Leave, Became, DeskOK, Desks
  <2>6. DeskOK(r.desk)
    BY <2>2, <2>4, <2>5 DEF DeskOK, Desks
  <2>7. Loses(d, r) => ~Submitting(d)
    BY <1>2 DEF Loses, DeskOK
  <2> QED
    BY <2>5, <2>6, <2>7
<1> QED
  BY <1>1, <1>2

\* A focused row opens, or nothing happens.
LEMMA BeginRowIs ==
  ASSUME NEW d, DeskOK(d), RowFocused(d), NEW r, r = BeginRow(d)
  PROVE  DeskOK(r.desk) /\ r.outcome # "unavailable"
<1>1. CASE d.row \in {"plain", "reconciled"}
  <2>1. r = Mount(d, "transaction", TRUE)
    BY <1>1 DEF BeginRow
  <2> QED
    BY <2>1, Mounted DEF EditorKinds
<1>2. CASE d.row = "transfer"
  <2>1. r = Mount(d, "transfer", TRUE)
    BY <1>2 DEF BeginRow
  <2> QED
    BY <2>1, Mounted DEF EditorKinds, ModalEditors
<1>3. CASE d.row = "incomplete"
  BY <1>3 DEF BeginRow, Ignored, Became
<1> QED
  BY <1>1, <1>2, <1>3 DEF RowFocused, RowKinds

\* A Cancel warns first.
LEMMA CancelIs ==
  ASSUME NEW d, DeskOK(d), NEW r, r = CancelIntent(d)
  PROVE  /\ DeskOK(r.desk)
         /\ r.outcome = "unavailable" => d.editor.kind = "none"
         /\ Loses(d, r) => ~Submitting(d) /\ ~d.editor.dirty
<1>0. d \in Desks /\ d.editor \in Editors
  BY DEF DeskOK, Desks
<1>1. CASE d.editor.kind # "none" /\ Submitting(d)
  <2>1. r.desk = d /\ r.outcome = "ignored"
    BY <1>1 DEF CancelIntent, Ignored, Became
  <2> QED
    BY <2>1 DEF Loses
<1>2. CASE d.editor.kind # "none" /\ ~Submitting(d) /\ d.editor.dirty
  <2>1. PICK e : e = [d.editor EXCEPT !.dirty = FALSE, !.commit = "Errors"]
    OBVIOUS
  <2>2. e \in Editors /\ e.typed = d.editor.typed /\ e.kind = d.editor.kind
    BY <1>0, <2>1 DEF Editors
  <2>3. r.desk = [d EXCEPT !.editor.dirty = FALSE, !.editor.commit = "Errors"] /\ r.outcome = "warned"
    BY <1>2 DEF CancelIntent, Became
  <2>4. r.desk = [d EXCEPT !.editor = e]
    BY <1>0, <2>1, <2>3 DEF Desks, Editors
  <2>5. DeskOK(r.desk) /\ r.desk.editor.typed = d.editor.typed
    BY <2>2, <2>4 DEF DeskOK, Desks
  <2> QED
    BY <2>3, <2>5 DEF Loses
<1>3. CASE d.editor.kind # "none" /\ ~Submitting(d) /\ ~d.editor.dirty
  <2>1. r.desk = [d EXCEPT !.editor = NoEditor] /\ r.outcome = "done"
    BY <1>3 DEF CancelIntent, Became
  <2> QED
    BY <1>3, <2>1, Unmounted
<1>4. CASE d.editor.kind = "none" /\ d.dialog
  <2>1. r.desk = [d EXCEPT !.dialog = FALSE]
    BY <1>4 DEF CancelIntent, Became
  <2>2. DeskOK(r.desk) /\ r.desk.editor = d.editor
    BY <2>1 DEF DeskOK, Desks
  <2> QED
    BY <1>4, <2>2 DEF Loses
<1>5. CASE d.editor.kind = "none" /\ ~d.dialog
  <2>1. r.desk = d
    BY <1>5 DEF CancelIntent, Unavailable, Became
  <2> QED
    BY <1>5, <2>1 DEF Loses
<1> QED
  BY <1>1, <1>2, <1>3, <1>4, <1>5

\* A Commit submits or complains, and keeps the form.
LEMMA CommitIs ==
  ASSUME NEW d, DeskOK(d), d.editor.kind # "none", NEW r, r = CommitEditor(d)
  PROVE  /\ DeskOK(r.desk) /\ r.outcome # "unavailable"
         /\ r.desk.editor.typed = d.editor.typed /\ r.desk.editor.dirty = d.editor.dirty
         /\ r.desk.editor.kind = d.editor.kind
         /\ Submitting(d) => r.desk = d
<1>0. d \in Desks /\ d.editor \in Editors
  BY DEF DeskOK, Desks
<1>1. CASE Submitting(d)
  BY <1>1 DEF CommitEditor, Ignored, Became
<1>2. CASE ~Submitting(d)
  <2>1. PICK state \in {"Idle", "Submitting", "Errors"} :
          r.desk = [d EXCEPT !.editor.commit = state] /\ r.outcome = "done"
    BY <1>2 DEF CommitEditor, Became
  <2>2. PICK e : e = [d.editor EXCEPT !.commit = state]
    OBVIOUS
  <2>3. e \in Editors /\ e.typed = d.editor.typed /\ e.kind = d.editor.kind /\ e.dirty = d.editor.dirty
    BY <1>0, <2>2 DEF Editors
  <2>4. r.desk = [d EXCEPT !.editor = e]
    BY <1>0, <2>1, <2>2 DEF Desks
  <2>5. DeskOK(r.desk) /\ r.desk.editor = e
    BY <2>3, <2>4 DEF DeskOK, Desks
  <2> QED
    BY <1>2, <2>1, <2>3, <2>5
<1> QED
  BY <1>1, <1>2

\* What the commands that open something need.
OpensNothing(d, c) ==
  \/ c \in {"EditAccount", "CreateTransfer", "ReconcileAccount", "Import", "ContextualNew"} /\ ~d.account
  \/ c = "AddTransaction" /\ ~RegisterOpen(d)
  \/ c = "EditTransaction" /\ ~RowFocused(d)

\* A command that opens something is unavailable for want of what it needs only.
LEMMA OpenEditorIs ==
  ASSUME NEW d, DeskOK(d), NEW c \in OpensSomething, NEW r, r = OpenEditor(d, c)
  PROVE  DeskOK(r.desk) /\ (r.outcome = "unavailable" => OpensNothing(d, c))
<1>1. CASE OpensNothing(d, c)
  <2>1. r = Unavailable(d)
    BY <1>1 DEF OpensNothing, OpenEditor
  <2> QED
    BY <1>1, <2>1 DEF Unavailable, Became
<1>2. CASE ~OpensNothing(d, c)
  <2>1. \/ r = Ignored(d)
        \/ \E kind \in EditorKinds, valid \in BOOLEAN : r = Mount(d, kind, valid)
    BY <1>2 DEF OpensNothing, OpenEditor, OpensSomething, EditorKinds, ModalEditors
  <2>2. CASE r = Ignored(d)
    BY <2>2 DEF Ignored, Became
  <2>3. CASE \E kind \in EditorKinds, valid \in BOOLEAN : r = Mount(d, kind, valid)
    BY <2>3, Mounted
  <2> QED
    BY <2>1, <2>2, <2>3
<1> QED
  BY <1>1, <1>2

\* The arms of dispatch_ui.
Arms(d, c, r) ==
  \/ c \in Navigations /\ r = Leave(d, c)
  \/ c \notin Navigations /\ InRegister(d, c) /\ c \in {"Edit", "EditTransaction", "Commit"} /\ r = BeginRow(d)
  \/ c \notin Navigations /\ r = Became(d, "done")
  \/ c \in OpensSomething /\ ~InRegister(d, c) /\ r = OpenEditor(d, c)
  \/ c = "Commit" /\ ~InRegister(d, c) /\ d.editor.kind # "none" /\ r = CommitEditor(d)
  \/ c = "Cancel" /\ r = CancelIntent(d)
  \/ c \in {"Settings", "Backup"} /\ r = Became([d EXCEPT !.dialog = TRUE], "done")
  \/ /\ r = Unavailable(d)
     /\ \/ c = "Commit" /\ d.editor.kind = "none"
        \/ c = "Backup" /\ ~d.budget
        \/ c \in {"PreviousMonth", "NextMonth"} /\ d.ws # "Budget"
        \/ /\ ~InRegister(d, c)
           /\ c \notin Navigations \cup OpensSomething \cup
                       {"Commit", "Cancel", "Settings", "Backup", "PreviousMonth", "NextMonth",
                        "ToggleInspector", "FocusSearch"}

\* Every intent goes through one of the arms.
LEMMA HandleArms ==
  ASSUME NEW d, NEW c, NEW r, r = Handle(d, c)
  PROVE  Arms(d, c, r)
<1>1. CASE c \in Navigations
  <2>1. ~InRegister(d, c) /\ c \notin OpensSomething
    BY <1>1 DEF Navigations, InRegister, OpensSomething
  <2>2. r = Leave(d, c)
    BY <1>1, <2>1 DEF Handle, Navigations
  <2> QED
    BY <1>1, <2>2 DEF Arms
<1>2. CASE c \notin Navigations /\ InRegister(d, c)
  BY <1>2 DEF Handle, Arms
<1>3. CASE c \notin Navigations /\ ~InRegister(d, c)
  BY <1>3 DEF Handle, Arms, OpensSomething
<1> QED
  BY <1>1, <1>2, <1>3

\* dispatch_ui leaves a desk that is one, and loses what was typed as it may.
LEMMA HandleIs ==
  ASSUME NEW d, DeskOK(d), NEW c, NEW r, r = Handle(d, c)
  PROVE  /\ DeskOK(r.desk)
         /\ Loses(d, r) => \/ c \in OpensSomething
                           \/ ~Submitting(d) /\ c \in Navigations
                           \/ ~Submitting(d) /\ c = "Cancel" /\ ~d.editor.dirty
<1>0. Arms(d, c, r)
  BY HandleArms
<1>1. CASE c \in Navigations /\ r = Leave(d, c)
  BY <1>1, LeaveIs
<1>2. CASE InRegister(d, c) /\ c \in {"Edit", "EditTransaction", "Commit"} /\ r = BeginRow(d)
  <2>1. RowFocused(d) /\ d.editor.kind = "none"
    BY <1>2 DEF InRegister
  <2>2. ~d.editor.typed
    BY <2>1 DEF DeskOK
  <2> QED
    BY <1>2, <2>1, <2>2, BeginRowIs DEF Loses
<1>3. CASE r = Became(d, "done") \/ r = Unavailable(d)
  BY <1>3 DEF Became, Unavailable, Loses
<1>4. CASE c \in OpensSomething /\ r = OpenEditor(d, c)
  BY <1>4, OpenEditorIs
<1>5. CASE d.editor.kind # "none" /\ r = CommitEditor(d)
  BY <1>5, CommitIs DEF Loses
<1>6. CASE c = "Cancel" /\ r = CancelIntent(d)
  BY <1>6, CancelIs
<1>7. CASE r = Became([d EXCEPT !.dialog = TRUE], "done")
  <2>1. r.desk = [d EXCEPT !.dialog = TRUE]
    BY <1>7 DEF Became
  <2>2. DeskOK(r.desk) /\ r.desk.editor = d.editor
    BY <2>1 DEF DeskOK, Desks
  <2> QED
    BY <2>2 DEF Loses
<1> QED
  BY <1>0, <1>1, <1>2, <1>3, <1>4, <1>5, <1>6, <1>7 DEF Arms

\* What the palette offers and dispatch_ui does not carry out.
Excused(d, c) ==
  \/ c \in {"Edit", "Delete", "DeleteTransaction", "ToggleSelection"} /\ ~InRegister(d, c)
  \/ c = "CloseAccount"
  \/ c = "AddTransaction" /\ d.ws = "Reports"
  \/ c = "CreateTransfer" /\ ~d.account
  \/ c \in {"Cancel", "Commit"} /\ d.editor.kind = "none"

\* What the context of the palette says of a desk.
LEMMA PaletteSays ==
  ASSUME NEW d, DeskOK(d), NEW ctx, ctx = PaletteContext(d)
  PROVE  /\ ctx.dialog = d.dialog /\ ctx.budget = d.budget /\ ctx.account = d.account
         /\ ctx.transaction = RowFocused(d)
         /\ ctx.ws = IF d.ws \in {"Budget", "Overview", "Account", "Categories"} THEN d.ws
                     ELSE IF d.budget THEN "AllTransactions" ELSE "none"
<1>1. PICK b : b = ButtonContext(d)
  OBVIOUS
<1>2. /\ b.dialog = d.dialog /\ b.budget = d.budget /\ b.account = d.account
      /\ b.transaction = RowFocused(d)
      /\ DOMAIN b = {"typing", "dialog", "busy", "budget", "readOnly", "locked", "ws", "account",
                     "transaction", "reconciled", "selection", "editing", "valid", "planning"}
  BY <1>1 DEF ButtonContext, Context
<1> QED
  BY <1>1, <1>2 DEF PaletteContext

\* What the palette offers is carried out, or excused.
LEMMA OfferedIsDone ==
  ASSUME NEW d, DeskOK(d), NEW c \in InPalette, ~Refused(PaletteContext(d), c),
         NEW r, r = Handle(d, c), r.outcome = "unavailable"
  PROVE  Excused(d, c)
<1>0. Arms(d, c, r)
  BY HandleArms
<1>1. PICK ctx : ctx = PaletteContext(d)
  OBVIOUS
<1>2. /\ ctx.dialog = d.dialog /\ ctx.budget = d.budget /\ ctx.account = d.account
      /\ ctx.transaction = RowFocused(d)
      /\ ctx.ws = IF d.ws \in {"Budget", "Overview", "Account", "Categories"} THEN d.ws
                  ELSE IF d.budget THEN "AllTransactions" ELSE "none"
  BY <1>1, PaletteSays
<1>3. ~Refused(ctx, c)
  BY <1>1
<1>4. c \in {"Commit", "Cancel"} \/ ~d.dialog
  BY <1>2, <1>3 DEF Refused
<1>5. d.ws \in Workspaces
  BY DEF DeskOK, Desks
<1>6. CASE c \in OpensSomething /\ r = OpenEditor(d, c)
  <2>1. OpensNothing(d, c)
    BY <1>6, OpenEditorIs
  <2>2. ~d.dialog /\ d.budget
    BY <1>2, <1>3, <1>4, <1>6 DEF Refused, NeedsBudget, Mutating, OpensSomething
  <2>3. CASE c = "EditAccount" \/ c = "ReconcileAccount"
    BY <1>2, <1>3, <2>1, <2>2, <2>3 DEF Refused, OpensNothing
  <2>4. CASE c = "Import" \/ c = "ContextualNew"
    <3>1. ctx.ws = "Account"
      BY <1>2, <1>3, <2>2, <2>4 DEF Refused
    <3>2. d.ws = "Account"
      BY <1>2, <3>1
    <3> QED
      BY <2>1, <2>4, <3>2 DEF OpensNothing, DeskOK
  <2>5. CASE c = "AddTransaction"
    <3>1. ctx.ws \in {"Account", "AllTransactions"}
      BY <1>2, <1>3, <2>2, <2>5 DEF Refused
    <3>2. d.ws \in {"Account", "Reports", "AllTransactions"}
      BY <1>2, <1>5, <3>1 DEF Workspaces
    <3> QED
      BY <2>1, <2>5, <3>2 DEF OpensNothing, RegisterOpen, Excused
  <2>6. CASE c = "EditTransaction"
    BY <1>2, <1>3, <2>1, <2>2, <2>6 DEF Refused, OpensNothing
  <2>7. CASE c = "CreateTransfer"
    BY <2>1, <2>7 DEF OpensNothing, Excused
  <2> QED
    BY <2>1, <2>3, <2>4, <2>5, <2>6, <2>7 DEF OpensNothing
<1>7. CASE c = "Cancel" /\ r = CancelIntent(d)
  BY <1>7, CancelIs DEF Excused
<1>8. CASE r = Unavailable(d) /\ c = "Commit" /\ d.editor.kind = "none"
  BY <1>8 DEF Excused
<1>9. CASE c = "Backup" /\ ~d.budget
  BY <1>2, <1>3, <1>4, <1>9 DEF Refused, NeedsBudget
<1>10. CASE c \in {"PreviousMonth", "NextMonth"} /\ d.ws # "Budget"
  <2>1. ctx.ws # "Budget"
    BY <1>2, <1>10
  <2> QED
    BY <1>2, <1>3, <1>4, <1>10, <2>1 DEF Refused
<1>11. CASE /\ ~InRegister(d, c)
            /\ c \notin Navigations \cup OpensSomething \cup
                        {"Commit", "Cancel", "Settings", "Backup", "PreviousMonth", "NextMonth",
                         "ToggleInspector", "FocusSearch"}
  <2>1. c \in Groups \cup {"CloseAccount", "DeleteTransaction", "Edit", "Delete", "ToggleSelection"}
    BY <1>11 DEF InPalette
  <2>2. c \notin Groups
    BY <1>2, <1>3, <1>4, <1>11 DEF Refused
  <2> QED
    BY <1>11, <2>1, <2>2 DEF Excused
<1>12. CASE c \in Navigations /\ r = Leave(d, c)
  BY <1>12, LeaveIs
<1>13. CASE InRegister(d, c) /\ c \in {"Edit", "EditTransaction", "Commit"} /\ r = BeginRow(d)
  BY <1>13, BeginRowIs DEF InRegister
<1>14. CASE d.editor.kind # "none" /\ r = CommitEditor(d)
  BY <1>14, CommitIs
<1>15. CASE r = Became(d, "done") \/ r = Became([d EXCEPT !.dialog = TRUE], "done")
  BY <1>15 DEF Became
<1> QED
  BY <1>0, <1>6, <1>7, <1>8, <1>9, <1>10, <1>11, <1>12, <1>13, <1>14, <1>15 DEF Arms
\* What is still open after a Commit is what was typed, and a Commit is ignored while saving.
LEMMA CommitKeepsTyping ==
  ASSUME NEW d, DeskOK(d), d.editor.typed, NEW r, r = Handle(d, "Commit"), r.desk # d
  PROVE  /\ r.desk.editor.typed /\ ~Submitting(d)
         /\ r.desk.editor.dirty = d.editor.dirty
<1>1. d.editor.kind # "none"
  BY DEF DeskOK
<1>2. ~InRegister(d, "Commit")
  BY <1>1 DEF InRegister
<1>3. r = CommitEditor(d)
  BY <1>1, <1>2 DEF Handle, Navigations, OpensSomething
<1> QED
  BY <1>1, <1>3, CommitIs

IntentsInv == DeskOK(desk)

\* The property, of one step.
Kept ==
  desk.editor.typed /\ ~desk'.editor.typed =>
    \/ last'.intent \in {"answer", "category", "budget"} \cup OpensSomething
    \/ ~Submitting(desk) /\ last'.intent \in Navigations
    \/ ~Submitting(desk) /\ last'.intent = "Cancel" /\ ~desk.editor.dirty
CarriedOut == last'.offered /\ last'.outcome = "unavailable" => Excused(desk, last'.intent)

\* What an intent that was sent notes down.
LEMMA SentIs ==
  ASSUME NEW offered \in BOOLEAN, NEW c, NEW r, Sent(offered, c, r)
  PROVE  /\ desk' = r.desk
         /\ Loses(desk, r) => last'.intent = c
         /\ last'.offered /\ last'.outcome = "unavailable" =>
              offered /\ r.outcome = "unavailable" /\ last'.intent = c
<1>1. Lost(r) <=> Loses(desk, r)
  BY DEF Lost, Loses
<1>2. CASE Lost(r) \/ Refuted(offered, r)
  <2>1. last' = [offered |-> offered, intent |-> c, outcome |-> r.outcome]
    BY <1>2 DEF Sent, Noted
  <2> QED
    BY <1>1, <2>1 DEF Sent
<1>3. CASE ~(Lost(r) \/ Refuted(offered, r))
  <2>1. last' = Unnoted
    BY <1>3 DEF Sent, Noted
  <2> QED
    BY <1>1, <1>3, <2>1 DEF Sent, Unnoted
<1> QED
  BY <1>2, <1>3

\* Steps that leave the editor to itself, and note nothing.
LEMMA EditorAlone ==
  ASSUME IntentsInv, desk' \in Desks, desk'.editor = desk.editor, desk'.ws = "Account" => desk'.account,
         last' = Unnoted
  PROVE  IntentsInv' /\ Kept /\ CarriedOut
<1>1. IntentsInv'
  BY DEF IntentsInv, DeskOK
<1> QED
  BY <1>1 DEF Kept, CarriedOut, Unnoted

\* Steps that put away the editor and say why.
LEMMA NotedKeeps ==
  ASSUME NEW why \in {"answer", "category", "budget"}, DeskOK(desk'),
         NEW r, r.desk = desk', r.outcome = "done", Noted(FALSE, why, r)
  PROVE  IntentsInv' /\ Kept /\ CarriedOut
<1>1. IntentsInv'
  BY DEF IntentsInv
<1>2. CASE Lost(r)
  <2>1. last' = [offered |-> FALSE, intent |-> why, outcome |-> "done"]
    BY <1>2 DEF Noted
  <2>2. last'.intent = why /\ ~last'.offered
    BY <2>1
  <2> QED
    BY <1>1, <2>2 DEF Kept, CarriedOut
<1>3. CASE ~Lost(r)
  <2>1. ~(desk.editor.typed /\ ~desk'.editor.typed)
    BY <1>3 DEF Lost
  <2>2. last' = Unnoted
    BY <1>3 DEF Noted, Refuted
  <2>3. ~last'.offered
    BY <2>2 DEF Unnoted
  <2> QED
    BY <1>1, <2>1, <2>3 DEF Kept, CarriedOut
<1> QED
  BY <1>2, <1>3

\* Keys, buttons and the palette.
LEMMA IntendKeeps == ASSUME IntentsInv, Intend PROVE IntentsInv' /\ Kept /\ CarriedOut
<1>1. PICK d : d = desk
  OBVIOUS
<1>2. DeskOK(d)
  BY <1>1 DEF IntentsInv
<1>3. ASSUME NEW offered \in BOOLEAN, NEW c, Sent(offered, c, Handle(desk, c)),
             offered => c \in InPalette /\ ~Refused(PaletteContext(desk), c)
      PROVE  IntentsInv' /\ Kept /\ CarriedOut
  <2>1. PICK r : r = Handle(d, c)
    OBVIOUS
  <2>2. Sent(offered, c, r)
    BY <1>1, <1>3, <2>1
  <2>3. /\ DeskOK(r.desk)
        /\ Loses(d, r) => \/ c \in OpensSomething
                          \/ ~Submitting(d) /\ c \in Navigations
                          \/ ~Submitting(d) /\ c = "Cancel" /\ ~d.editor.dirty
    BY <1>2, <2>1, HandleIs
  <2>4. /\ desk' = r.desk
        /\ Loses(desk, r) => last'.intent = c
        /\ last'.offered /\ last'.outcome = "unavailable" =>
             offered /\ r.outcome = "unavailable" /\ last'.intent = c
    BY <2>2, SentIs
  <2>5. IntentsInv'
    BY <2>3, <2>4 DEF IntentsInv
  <2>6. Kept
    BY <1>1, <2>3, <2>4 DEF Kept, Loses
  <2>7. CarriedOut
    <3>1. SUFFICES ASSUME last'.offered, last'.outcome = "unavailable" PROVE Excused(desk, last'.intent)
      BY DEF CarriedOut
    <3>2. offered /\ r.outcome = "unavailable" /\ last'.intent = c
      BY <2>4, <3>1
    <3>3. c \in InPalette /\ ~Refused(PaletteContext(d), c)
      BY <1>1, <1>3, <3>2
    <3>4. Excused(d, c)
      BY <1>2, <2>1, <3>2, <3>3, OfferedIsDone
    <3> QED
      BY <1>1, <3>2, <3>4
  <2> QED
    BY <2>5, <2>6, <2>7
<1>4. CASE \E c \in OnPalette : Sent(TRUE, c, Handle(desk, c))
  <2>1. PICK c \in OnPalette : Sent(TRUE, c, Handle(desk, c))
    BY <1>4
  <2>2. c \in InPalette /\ ~Refused(PaletteContext(desk), c)
    BY DEF OnPalette
  <2> QED
    BY <1>3, <2>1, <2>2
<1>5. CASE \E c \in (ShownButtons \cup KeyedIntents) \ OnPalette : Sent(FALSE, c, Handle(desk, c))
  BY <1>3, <1>5
<1> QED
  BY <1>4, <1>5 DEF Intend

\* An Enter in the palette.
LEMMA EnterKeeps == ASSUME IntentsInv, EnterInPalette PROVE IntentsInv' /\ Kept /\ CarriedOut
<1>1. PICK d : d = desk
  OBVIOUS
<1>2. DeskOK(d)
  BY <1>1 DEF IntentsInv
<1>3. PICK s : s = Handle(d, "Commit")
  OBVIOUS
<1>4. PICK below : below = s.desk
  OBVIOUS
<1>5. below # d /\ \E c \in OnPalette : Sent(FALSE, c, Handle(below, c))
  BY <1>1, <1>3, <1>4 DEF EnterInPalette
<1>6. PICK c : Sent(FALSE, c, Handle(below, c))
  BY <1>5
<1>7. DeskOK(below)
  BY <1>2, <1>3, <1>4, HandleIs
<1>8. PICK r : r = Handle(below, c)
  OBVIOUS
<1>9. Sent(FALSE, c, r)
  BY <1>6, <1>8
<1>10. /\ DeskOK(r.desk)
       /\ Loses(below, r) => \/ c \in OpensSomething
                             \/ ~Submitting(below) /\ c \in Navigations
                             \/ ~Submitting(below) /\ c = "Cancel" /\ ~below.editor.dirty
  BY <1>7, <1>8, HandleIs
<1>11. /\ desk' = r.desk
       /\ Loses(desk, r) => last'.intent = c
       /\ ~(last'.offered /\ last'.outcome = "unavailable")
  BY <1>9, SentIs
<1>12. d.editor.typed => below.editor.typed /\ ~Submitting(d) /\ below.editor.dirty = d.editor.dirty
  BY <1>2, <1>3, <1>4, <1>5, CommitKeepsTyping
<1>13. Kept
  <2>1. SUFFICES ASSUME d.editor.typed, ~r.desk.editor.typed
                 PROVE  \/ c \in OpensSomething
                        \/ ~Submitting(d) /\ c \in Navigations
                        \/ ~Submitting(d) /\ c = "Cancel" /\ ~d.editor.dirty
    BY <1>1, <1>11 DEF Kept, Loses
  <2>2. Loses(below, r) /\ ~Submitting(d) /\ below.editor.dirty = d.editor.dirty
    BY <1>12, <2>1 DEF Loses
  <2> QED
    BY <1>10, <2>2
<1> QED
  BY <1>10, <1>11, <1>13 DEF IntentsInv, CarriedOut

\* Everything else that happens to the desk.
LEMMA RestKeeps ==
  ASSUME IntentsInv, \/ OpenBudget \/ Wander \/ GlobalBar \/ FocusRow \/ EditCategory \/ CloseDialog
                     \/ TypeInEditor \/ AnswerEditor
  PROVE  IntentsInv' /\ Kept /\ CarriedOut
<1>1. DeskOK(desk) /\ desk \in Desks /\ desk.editor \in Editors
  BY DEF IntentsInv, DeskOK, Desks
<1>2. CASE OpenBudget
  <2>1. NoEditor \in Editors /\ ~NoEditor.typed
    BY DEF NoEditor, Editor, Editors, EditorKinds
  <2>2. desk' = [budget |-> TRUE, ws |-> "Budget", account |-> FALSE, row |-> "none",
                 editor |-> NoEditor, dialog |-> FALSE]
    BY <1>2 DEF OpenBudget, AtDesk
  <2>3. DeskOK(desk') /\ ~desk'.editor.typed
    BY <2>1, <2>2 DEF DeskOK, Desks, Workspaces
  <2>4. PICK r : r = Became(desk', "done")
    OBVIOUS
  <2>5. r.desk = desk' /\ r.outcome = "done" /\ Noted(FALSE, "budget", r)
    BY <1>2, <2>4 DEF OpenBudget, Became
  <2> QED
    BY <2>3, <2>5, NotedKeeps
<1>3. CASE Wander
  <2>1. CASE \E ws \in {"Budget", "Categories", "Reports", "AllTransactions"} : desk' = [desk EXCEPT !.ws = ws]
    <3>1. desk' \in Desks /\ desk'.editor = desk.editor /\ desk'.ws # "Account"
      BY <1>1, <2>1 DEF Desks, Workspaces
    <3> QED
      BY <1>3, <3>1, EditorAlone DEF Wander
  <2>2. CASE desk' = [desk EXCEPT !.ws = "Account", !.account = TRUE]
    <3>1. desk' \in Desks /\ desk'.editor = desk.editor /\ desk'.account
      BY <1>1, <2>2 DEF Desks, Workspaces
    <3> QED
      BY <1>3, <3>1, EditorAlone DEF Wander
  <2> QED
    BY <1>3, <2>1, <2>2 DEF Wander
<1>4. CASE GlobalBar
  <2>1. PICK r : r = Handle(desk, "Settings")
    OBVIOUS
  <2>2. r = Became([desk EXCEPT !.dialog = TRUE], "done")
    BY <2>1 DEF Handle, Navigations, OpensSomething, InRegister
  <2>3. r.desk = [desk EXCEPT !.dialog = TRUE]
    BY <2>2 DEF Became
  <2>4. desk' = [desk EXCEPT !.ws = "Reports"] \/ desk' = [desk EXCEPT !.dialog = TRUE]
    BY <1>4, <2>1, <2>3 DEF GlobalBar
  <2>5. desk' \in Desks /\ desk'.editor = desk.editor /\ (desk'.ws = "Account" => desk'.account)
    BY <1>1, <2>4 DEF Desks, Workspaces, DeskOK
  <2> QED
    BY <1>4, <2>5, EditorAlone DEF GlobalBar
<1>5. CASE FocusRow
  <2>1. PICK kind \in RowKinds : desk' = [desk EXCEPT !.row = kind]
    BY <1>5 DEF FocusRow
  <2>2. desk' \in Desks /\ desk'.editor = desk.editor /\ (desk'.ws = "Account" => desk'.account)
    BY <1>1, <2>1 DEF Desks, DeskOK
  <2> QED
    BY <1>5, <2>2, EditorAlone DEF FocusRow
<1>6. CASE EditCategory
  <2>1. PICK d : d = desk
    OBVIOUS
  <2>2. PICK r : r = Mount(d, "organizing", FALSE)
    OBVIOUS
  <2>3. DeskOK(r.desk) /\ r.outcome = "done"
    BY <1>1, <2>1, <2>2, Mounted DEF EditorKinds
  <2>4. desk' = r.desk /\ Noted(FALSE, "category", r)
    BY <1>6, <2>1, <2>2 DEF EditCategory
  <2> QED
    BY <2>3, <2>4, NotedKeeps
<1>7. CASE CloseDialog
  <2>1. desk' = [desk EXCEPT !.dialog = FALSE]
    BY <1>7 DEF CloseDialog
  <2>2. desk' \in Desks /\ desk'.editor = desk.editor /\ (desk'.ws = "Account" => desk'.account)
    BY <1>1, <2>1 DEF Desks, DeskOK
  <2> QED
    BY <1>7, <2>2, EditorAlone DEF CloseDialog
<1>8. CASE TypeInEditor
  <2>1. TracksEdits(desk.editor) \in BOOLEAN
    BY DEF TracksEdits
  <2>2. PICK valid \in BOOLEAN :
          desk' = [desk EXCEPT !.editor.typed = TRUE, !.editor.valid = valid,
                               !.editor.dirty = TracksEdits(desk.editor)]
    BY <1>8 DEF TypeInEditor
  <2>3. PICK e : e = [desk.editor EXCEPT !.typed = TRUE, !.valid = valid,
                                     !.dirty = TracksEdits(desk.editor)]
    OBVIOUS
  <2>4. e \in Editors /\ e.typed /\ e.kind = desk.editor.kind
    BY <1>1, <2>1, <2>3 DEF Editors
  <2>5. desk' = [desk EXCEPT !.editor = e]
    BY <1>1, <2>2, <2>3 DEF Desks
  <2>6. DeskOK(desk') /\ desk'.editor.typed
    BY <1>1, <1>8, <2>4, <2>5 DEF DeskOK, Desks, TypeInEditor
  <2> QED
    BY <1>8, <2>6 DEF IntentsInv, Kept, CarriedOut, Unnoted, TypeInEditor
<1>9. CASE AnswerEditor
  <2>1. DeskOK(desk')
    <3>1. CASE desk' = [desk EXCEPT !.editor = NoEditor]
      BY <1>1, <3>1, Unmounted
    <3>2. CASE desk' = [desk EXCEPT !.editor.commit = "Errors"]
      <4>1. PICK e : e = [desk.editor EXCEPT !.commit = "Errors"]
        OBVIOUS
      <4>2. e \in Editors /\ e.kind = desk.editor.kind /\ e.typed = desk.editor.typed
        BY <1>1, <4>1 DEF Editors
      <4>3. desk' = [desk EXCEPT !.editor = e]
        BY <1>1, <3>2, <4>1 DEF Desks
      <4> QED
        BY <1>1, <4>2, <4>3 DEF DeskOK, Desks
    <3> QED
      BY <1>9, <3>1, <3>2 DEF AnswerEditor
  <2>2. PICK r : r = Became(desk', "done")
    OBVIOUS
  <2>3. r.desk = desk' /\ r.outcome = "done" /\ Noted(FALSE, "answer", r)
    BY <1>9, <2>2 DEF AnswerEditor, Became
  <2> QED
    BY <2>1, <2>3, NotedKeeps
<1> QED
  BY <1>2, <1>3, <1>4, <1>5, <1>6, <1>7, <1>8, <1>9

\* The program starts with nothing open.
LEMMA IntentsStart == IntentsInit => IntentsInv
<1> SUFFICES ASSUME IntentsInit PROVE IntentsInv
  OBVIOUS
<1>1. NoEditor \in Editors /\ ~NoEditor.typed
  BY DEF NoEditor, Editor, Editors, EditorKinds
<1>2. desk = [budget |-> FALSE, ws |-> "Overview", account |-> FALSE, row |-> "none",
              editor |-> NoEditor, dialog |-> FALSE]
  BY DEF IntentsInit, AtDesk
<1> QED
  BY <1>1, <1>2 DEF IntentsInv, DeskOK, Desks, Workspaces

\* Each step of the user, the worker and the program keeps the desk, and its word.
LEMMA IntentsStep == IntentsInv /\ IntentsNext => IntentsInv' /\ Kept /\ CarriedOut
BY IntendKeeps, EnterKeeps, RestKeeps DEF IntentsNext

\* IntentsKeepTheirWord: whatever was opened, typed, focused and answered before, typed text is
\* lost only when the worker saved it, when another editor is opened, or when a navigation or a
\* Cancel may discard it, and what the palette offers is carried out.
THEOREM WordKept == IntentsSpec => IntentsKeepTheirWord
<1>1. IntentsInv /\ [IntentsNext]_intents => IntentsInv'
  <2>1. IntentsInv /\ UNCHANGED intents => IntentsInv'
    BY DEF IntentsInv, intents
  <2> QED
    BY <2>1, IntentsStep
<1>2. IntentsInv /\ [IntentsNext]_intents =>
        [/\ desk.editor.typed /\ ~desk'.editor.typed =>
                \/ last'.intent \in {"answer", "category", "budget"} \cup OpensSomething
                \/ ~Submitting(desk) /\ last'.intent \in Navigations
                \/ /\ ~Submitting(desk) /\ last'.intent = "Cancel"
                   /\ ~desk.editor.dirty
         /\ last'.offered /\ last'.outcome = "unavailable" =>
                \/ last'.intent \in {"Edit", "Delete", "DeleteTransaction", "ToggleSelection"}
                   /\ ~InRegister(desk, last'.intent)
                \/ last'.intent = "CloseAccount"
                \/ last'.intent = "AddTransaction" /\ desk.ws = "Reports"
                \/ last'.intent = "CreateTransfer" /\ ~desk.account
                \/ last'.intent \in {"Cancel", "Commit"} /\ desk.editor.kind = "none"]_intents
  BY IntentsStep DEF Kept, CarriedOut, Excused
<1> QED
  BY <1>1, <1>2, IntentsStart, PTL DEF IntentsSpec, IntentsKeepTheirWord

-----------------------------------------------------------------------------
(***************************************************************************)
(* What the clean-shutdown marker vouches for, for every set of operations *)
(* that can fail and any number of launches.                               *)
(***************************************************************************)
Alive == phase # "Off"

\* Once the worker is gone, what it did not checkpoint is known to be lost.
WorkerAccounted == Alive /\ ~worker => (dirty => stopFailed)

\* A launch that accepts input has not begun to shut down, and has no marker.
AcceptsBeforeShutdown ==
  Alive /\ accepting => phase = "Idle" /\ lifecycle = "Running" /\ steps = {} /\ ~marker

\* A launch that does not has no worker, except while it is being stopped.
StoppedAfterShutdown == Alive /\ ~accepting => ~worker \/ (phase = "Stopping" /\ ~marker)

\* Each step of shutdown() is entered with the ones before it done.
StepsInOrder ==
  /\ phase = "Saving" => "worker" \in steps
  /\ phase = "Marking" => {"worker", "settings"} \subseteq steps
  /\ phase \in ShutdownPhases => ~accepting /\ lifecycle = "ShuttingDown"

\* What is changed after the settings step is not the session's any more.
SettingsAccounted ==
  /\ Alive /\ "settings" \in steps => unsaved # "Session"
  /\ Alive /\ marker => "settings" \in steps

\* The marker step is done exactly when the window may close.
MarkerStepDone ==
  /\ Alive /\ lifecycle = "ReadyToClose" =>
       phase = "Idle" /\ marker /\ steps = {"worker", "settings", "marker"}
  /\ Alive => lifecycle # "Exiting"

LifecycleInv ==
  /\ WorkerAccounted
  /\ AcceptsBeforeShutdown
  /\ StoppedAfterShutdown
  /\ StepsInOrder
  /\ SettingsAccounted
  /\ MarkerStepDone
  /\ MarkerMeansDurable

\* A fresh installation satisfies the invariant: no process runs.
LEMMA LifecycleInit == Init => TypeOK /\ LifecycleInv
<1> SUFFICES ASSUME Init
             PROVE  TypeOK /\ LifecycleInv
  OBVIOUS
<1>1. launches \in 0..MaxLaunches
  BY LifecycleAssumption DEF Init
<1>2. TypeOK
  BY <1>1 DEF Init, TypeOK, ShutdownPhases
<1>3. LifecycleInv
  BY DEF Init, LifecycleInv, WorkerAccounted, AcceptsBeforeShutdown, Alive,
         StoppedAfterShutdown, StepsInOrder, SettingsAccounted, MarkerStepDone, MarkerMeansDurable,
         ShutdownPhases
<1> QED
  BY <1>2, <1>3

\* Every step of the process, a kill included, preserves the invariant.
LEMMA LifecycleStep == TypeOK /\ LifecycleInv /\ [Next]_vars => TypeOK' /\ LifecycleInv'
<1> SUFFICES ASSUME TypeOK, LifecycleInv, [Next]_vars
             PROVE  TypeOK' /\ LifecycleInv'
  OBVIOUS
<1> USE LifecycleAssumption
    DEF TypeOK, LifecycleInv, WorkerAccounted, AcceptsBeforeShutdown, Alive,
        StoppedAfterShutdown, StepsInOrder, SettingsAccounted, MarkerStepDone, MarkerMeansDurable,
        ShutdownPhases, diskVars, processVars, historyVars
<1>1. CASE Launch
  <2>1. launches' \in 0..MaxLaunches
    BY <1>1 DEF Launch
  <2>2. worker' \in BOOLEAN /\ database' \in {"FirstRunRequired", "Ready", "RecoveryRequired"}
    BY <1>1 DEF Launch
  <2>3. checkDue' \in BOOLEAN
    BY <1>1 DEF Launch
  <2>4. TypeOK'
    BY <1>1, <2>1, <2>2, <2>3 DEF Launch
  <2>5. LifecycleInv'
    BY <1>1, ZenonT(60) DEF Launch
  <2> QED
    BY <2>4, <2>5
<1>2. CASE CompleteOnboarding
  BY <1>2 DEF CompleteOnboarding
<1>3. CASE Commit
  BY <1>3 DEF Commit
<1>4. CASE ChangeSettings
  BY <1>4 DEF ChangeSettings
<1>5. CASE RequestClose
  BY <1>5 DEF RequestClose
<1>6. CASE RequestExit
  BY <1>6, ZenonT(60) DEF RequestExit, EnterShutdown
<1>7. CASE CloseFrame
  <2>1. CASE CloseRunning
    BY <2>1, ZenonT(60) DEF CloseRunning, EnterShutdown
  <2>2. CASE CancelClose
    BY <2>2, ZenonT(60) DEF CancelClose
  <2>3. CASE AllowClose
    BY <2>3, ZenonT(60) DEF AllowClose, End
  <2> QED
    BY <1>7, <2>1, <2>2, <2>3 DEF CloseFrame
<1>8. CASE LoseWindow
  BY <1>8, ZenonT(60) DEF LoseWindow, EnterShutdown
<1>9. CASE ShutdownStep
  <2>1. CASE StopWorker
    <3>1. TypeOK'
      BY <2>1, ZenonT(60) DEF StopWorker, FailShutdown, End, Attempt
    <3>2. LifecycleInv'
      BY <2>1, ZenonT(60) DEF StopWorker, FailShutdown, End, Attempt
    <3> QED
      BY <3>1, <3>2
  <2>2. CASE SaveSettings
    <3>1. TypeOK'
      BY <2>2, ZenonT(60) DEF SaveSettings, FailShutdown, End, Attempt
    <3>2. LifecycleInv'
      BY <2>2, ZenonT(60) DEF SaveSettings, FailShutdown, End, Attempt
    <3> QED
      BY <3>1, <3>2
  <2>3. CASE WriteMarker
    <3>1. TypeOK'
      BY <2>3, ZenonT(60) DEF WriteMarker, FailShutdown, End, Attempt
    <3>2. LifecycleInv'
      BY <2>3, ZenonT(60) DEF WriteMarker, FailShutdown, End, Attempt
    <3> QED
      BY <3>1, <3>2
  <2> QED
    BY <1>9, <2>1, <2>2, <2>3 DEF ShutdownStep
<1>10. CASE Kill
  BY <1>10 DEF Kill, End
<1>11. CASE UNCHANGED vars
  BY <1>11 DEF vars
<1> QED
  BY <1>1, <1>2, <1>3, <1>4, <1>5, <1>6, <1>7, <1>8, <1>9, <1>10, <1>11 DEF Next

\* Whatever fails and wherever the process is killed, the marker only vouches
\* for saved settings and for transactions that are checkpointed or were lost
\* with a worker whose stop failed (runtime.rs:2536-2598).
THEOREM MarkerIsHonest == Spec => []MarkerMeansDurable
<1>1. LifecycleInv => MarkerMeansDurable
  BY DEF LifecycleInv
<1> QED
  BY <1>1, LifecycleInit, LifecycleStep, PTL DEF Spec

\* A window is let go only after a complete shutdown (lifecycle.rs:101-110).
THEOREM WindowClosesComplete == Spec => []ClosesOnlyWhenComplete
<1>1. TypeOK /\ LifecycleInv => ClosesOnlyWhenComplete
  BY DEF TypeOK, LifecycleInv, AcceptsBeforeShutdown, StoppedAfterShutdown, Alive,
         MarkerStepDone, ClosesOnlyWhenComplete
<1> QED
  BY <1>1, LifecycleInit, LifecycleStep, PTL DEF Spec
=============================================================================
