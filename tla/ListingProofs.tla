---------------------------- MODULE ListingProofs ----------------------------
(***************************************************************************)
(* Theorems of Listing, for any number of tasks and writers, any length of *)
(* the pages and any time.                                                 *)
(***************************************************************************)
EXTENDS Listing, FiniteSetTheorems, TLAPS

\* The rows that come before a task in the list.
Above(t) == {u \in Stored : Stamp(u) > Stamp(t)}

\* Only finitely many rows have been inserted, and nothing is known of them before the
\* first page.
TableInv ==
  /\ TypeOK
  /\ IsFiniteSet(Stored)
  /\ skip = 0 => stored = {}

\* The other tasks written since the first page.
Others(t) == touched \ {t}

\* The walk is past every task it has shown, by the rows above it that nobody wrote
\* and by one row for each time it was shown; and was it shown again, then as many
\* other rows have been written.
RepeatInv ==
  \A t \in Tasks \ (tied \cup older) : Times(t) > 0 =>
    /\ Cardinality(Above(t) \ touched) + Times(t) <= skip
    /\ Times(t) <= 1 + Cardinality(Others(t))

\* The walk is not yet past a task that it has still to show.
AheadInv ==
  older = {} => \A t \in stored \ (touched \cup tied) : Times(t) = 0 =>
    walking /\ skip <= Cardinality(Above(t))

-----------------------------------------------------------------------------
(* Rows and stamps *)

LEMMA Constants ==
  /\ Limit \in Nat /\ Limit >= 1 /\ MaxTime \in Nat /\ MaxTime >= 1
  /\ \A x \in Time : x \in Nat /\ x # Null
  /\ Null \in Nat
BY ListingAssumption DEF Time, Null

LEMMA Stamps ==
  ASSUME TypeOK, NEW t \in Tasks
  PROVE  /\ Stamp(t) \in Nat
         /\ t \in Stored => Stamp(t) \in Time
<1>1. row[t] \in [created : Time, updated : Time \cup {Null}] \/ row[t] = Absent
  BY DEF TypeOK
<1>2. CASE row[t] = Absent  BY <1>2, Constants DEF Absent, Stamp, Stored
<1>3. CASE row[t] \in [created : Time, updated : Time \cup {Null}]
  BY <1>3, Constants DEF Stamp
<1> QED  BY <1>1, <1>2, <1>3

\* Fewer rows are above a row than there are.
LEMMA AboveSize ==
  ASSUME TableInv, NEW t \in Tasks
  PROVE  /\ IsFiniteSet(Above(t)) /\ Cardinality(Above(t)) \in Nat
         /\ Cardinality(Stored) \in Nat
         /\ t \in Stored => Cardinality(Above(t)) < Cardinality(Stored)
<1>1. Above(t) \subseteq Stored /\ IsFiniteSet(Stored)  BY DEF Above, TableInv
<1>2. t \notin Above(t)
  <2>1. Stamp(t) \in Nat  BY Stamps DEF TableInv
  <2> QED  BY <2>1 DEF Above
<1>3. /\ IsFiniteSet(Above(t)) /\ Cardinality(Above(t)) \in Nat
      /\ Cardinality(Stored) \in Nat
      /\ Cardinality(Above(t)) <= Cardinality(Stored)
      /\ Cardinality(Stored) = Cardinality(Above(t)) => Stored = Above(t)
  BY <1>1, FS_Subset, FS_CardinalityType
<1> QED  BY <1>2, <1>3

-----------------------------------------------------------------------------
(* A page *)

\* An order of a finite set has each element once.
LEMMA Enumerates ==
  ASSUME NEW S, IsFiniteSet(S), NEW order \in SetToSeqs(S)
  PROVE  LET n == Cardinality(S)
         IN  /\ n \in Nat /\ order \in [1 .. n -> S]
             /\ order \in Seq(S) /\ Len(order) = n
             /\ \A i, j \in 1 .. n : order[i] = order[j] => i = j
             /\ \A x \in S : \E i \in 1 .. n : order[i] = x
<1> DEFINE n == Cardinality(S)
<1>1. n \in Nat  BY FS_CardinalityType
<1>2. /\ order \in [1 .. n -> S]
      /\ \A i, j \in 1 .. n : order[i] = order[j] => i = j
  BY DEF SetToSeqs
<1>3. IsFiniteSet(1 .. n) /\ Cardinality(1 .. n) = n
  <2>1. 1 \in Int /\ n \in Int /\ (IF 1 > n THEN 0 ELSE n - 1 + 1) = n  BY <1>1
  <2> HIDE DEF n
  <2> QED  BY <2>1, FS_Interval
<1> HIDE DEF n
<1>4. order \in Injection(1 .. n, S)  BY <1>2 DEF Injection, IsInjective
<1>5. order \in Surjection(1 .. n, S)
  <2>1. Cardinality(1 .. n) = Cardinality(S)  BY <1>3 DEF n
  <2> QED  BY <1>4, <2>1, FS_Injection
<1>6. \A x \in S : \E i \in 1 .. n : order[i] = x  BY <1>5 DEF Surjection
<1>7. order \in Seq(S) /\ Len(order) = n  BY <1>1, <1>2
<1> QED  BY <1>1, <1>2, <1>6, <1>7 DEF n

\* A row that shares its stamp with none has one place in the list.
LEMMA Position ==
  ASSUME TableInv, NEW order \in SetToSeqs(Stored), NewestFirst(order),
         NEW i \in 1 .. Cardinality(Stored), order[i] \notin Tied
  PROVE  Cardinality(Above(order[i])) = i - 1
<1> DEFINE n == Cardinality(Stored)
           t == order[i]
           I == 1 .. (i - 1)
           f == [j \in I |-> order[j]]
<1>1. /\ n \in Nat /\ order \in [1 .. n -> Stored]
      /\ \A j, k \in 1 .. n : order[j] = order[k] => j = k
      /\ \A x \in Stored : \E j \in 1 .. n : order[j] = x
  BY Enumerates DEF TableInv
<1>2. \A x \in Stored : Stamp(x) \in Nat
  BY Stamps DEF TableInv, Stored
<1>3. t \in Stored /\ \A x \in Stored : x # t => Stamp(x) # Stamp(t)
  BY <1>1 DEF Tied
<1>4. \A j, k \in 1 .. n : j < k => Stamp(order[j]) >= Stamp(order[k])
  BY <1>1 DEF NewestFirst
<1>5. i \in Nat /\ i >= 1 /\ i <= n  BY <1>1
<1> HIDE DEF n, t
<1>6. \A j \in I : order[j] \in Above(t)
  <2> SUFFICES ASSUME NEW j \in I  PROVE order[j] \in Above(t)
    OBVIOUS
  <2>1. j \in 1 .. n /\ j < i /\ i \in 1 .. n /\ j # i  BY <1>1, <1>5
  <2>2. order[j] \in Stored /\ order[j] # t  BY <1>1, <2>1 DEF t
  <2>3. Stamp(order[j]) >= Stamp(t)  BY <1>4, <2>1 DEF t
  <2>4. Stamp(order[j]) > Stamp(t)  BY <1>2, <1>3, <2>2, <2>3
  <2> QED  BY <2>2, <2>4 DEF Above
<1>7. \A x \in Above(t) : \E j \in I : order[j] = x
  <2> SUFFICES ASSUME NEW x \in Above(t)  PROVE \E j \in I : order[j] = x
    OBVIOUS
  <2>1. x \in Stored /\ Stamp(x) > Stamp(t)  BY DEF Above
  <2>2. PICK j \in 1 .. n : order[j] = x  BY <1>1, <2>1
  <2>3. i \in 1 .. n  BY <1>5
  <2>4. ~(i < j)
    <3> SUFFICES ASSUME i < j  PROVE FALSE
      OBVIOUS
    <3>1. Stamp(t) >= Stamp(x)  BY <1>4, <2>2, <2>3 DEF t
    <3> QED  BY <1>2, <1>3, <2>1, <3>1
  <2>5. i # j
    <3> SUFFICES ASSUME i = j  PROVE FALSE
      OBVIOUS
    <3>1. x = t  BY <2>2 DEF t
    <3> QED  BY <1>2, <1>3, <2>1, <3>1
  <2>6. j \in I  BY <1>1, <1>5, <2>4, <2>5
  <2> QED  BY <2>2, <2>6
<1>8. f \in Bijection(I, Above(t))
  <2>1. f \in [I -> Above(t)]  BY <1>6
  <2>2. I \subseteq 1 .. n  BY <1>1, <1>5
  <2>3. f \in Injection(I, Above(t))  BY <1>1, <2>1, <2>2 DEF Injection, IsInjective
  <2>4. f \in Surjection(I, Above(t))  BY <1>7, <2>1 DEF Surjection
  <2> QED  BY <2>3, <2>4 DEF Bijection
<1>9. IsFiniteSet(I) /\ Cardinality(I) = i - 1
  <2> DEFINE m == i - 1
  <2>1. 1 \in Int /\ m \in Int /\ (IF 1 > m THEN 0 ELSE m - 1 + 1) = m  BY <1>5
  <2> HIDE DEF m
  <2>2. IsFiniteSet(1 .. m) /\ Cardinality(1 .. m) = m  BY <2>1, FS_Interval
  <2> QED  BY <2>2 DEF m
<1> HIDE DEF f, I
<1>10. ExistsBijection(I, Above(t))  BY <1>8 DEF ExistsBijection
<1>11. Cardinality(Above(t)) = Cardinality(I)  BY <1>9, <1>10, FS_Bijection
<1> QED  BY <1>9, <1>11 DEF t

LEMMA PageRows ==
  ASSUME TableInv, NEW order \in SetToSeqs(Stored)
  PROVE  LET n    == Cardinality(Stored)
             last == IF skip + Limit <= n THEN skip + Limit ELSE n
             k    == IF skip + 1 <= last THEN last - skip ELSE 0
         IN  /\ last \in Nat /\ k \in Nat
             /\ Page(order) \in Seq(Tasks) /\ Len(Page(order)) = k
             /\ \A j \in 1 .. k : Page(order)[j] = order[skip + j]
<1> DEFINE n    == Cardinality(Stored)
           last == IF skip + Limit <= n THEN skip + Limit ELSE n
           k    == IF skip + 1 <= last THEN last - skip ELSE 0
<1>1. n \in Nat /\ order \in Seq(Stored) /\ Len(order) = n
      /\ order \in [1 .. n -> Stored]
  BY Enumerates DEF TableInv
<1>2. skip \in Nat /\ Limit \in Nat /\ Limit >= 1  BY Constants DEF TableInv, TypeOK
<1>3. Page(order) = SubSeq(order, skip + 1, last)  BY <1>1 DEF Page, Rows
<1> HIDE DEF n
<1>4. /\ last \in Nat /\ k \in Nat /\ last <= n
      /\ k = 0 \/ skip + k = last
      /\ k > 0 <=> skip + 1 <= last
  BY <1>1, <1>2
<1> HIDE DEF last, k
<1> DEFINE first == skip + 1
<1>5. first \in Nat /\ first >= 1 /\ last \in Nat /\ last <= Len(order)
  BY <1>1, <1>2, <1>4
<1>6. k = IF first <= last THEN last - first + 1 ELSE 0
  BY <1>2, <1>4
<1>7. \A j \in 1 .. k : j \in 1 .. (last - first + 1) /\ first + j - 1 = skip + j
  BY <1>2, <1>4
<1> HIDE DEF first
<1>8. /\ SubSeq(order, first, last) \in Seq(Stored)
      /\ Len(SubSeq(order, first, last)) = IF first <= last THEN last - first + 1 ELSE 0
      /\ \A j \in 1 .. (last - first + 1) :
           SubSeq(order, first, last)[j] = order[first + j - 1]
  BY <1>1, <1>5
<1>9. Page(order) = SubSeq(order, first, last)  BY <1>3 DEF first
<1>10. Page(order) \in Seq(Stored) /\ Len(Page(order)) = k
       /\ \A j \in 1 .. k : Page(order)[j] = order[skip + j]
  BY <1>6, <1>7, <1>8, <1>9
<1>11. Page(order) \in Seq(Tasks)  BY <1>10 DEF Stored
<1> QED  BY <1>4, <1>10, <1>11 DEF last, k, n

\* How often a task has been shown is a number, and nothing was before the first page.
LEMMA TimesType ==
  ASSUME TableInv, NEW t
  PROVE  /\ IsFiniteSet({i \in DOMAIN pages : pages[i] = t})
         /\ Times(t) \in Nat
         /\ skip = 0 => Times(t) = 0
<1> DEFINE A == {i \in DOMAIN pages : pages[i] = t}
           l == Len(pages)
<1>1. l \in Nat /\ DOMAIN pages = 1 .. l /\ l <= skip /\ skip \in Nat
  BY DEF TableInv, TypeOK
<1> HIDE DEF l
<1>2. IsFiniteSet(1 .. l)
  <2>1. 1 \in Int /\ l \in Int  BY <1>1
  <2> QED  BY <2>1, FS_Interval
<1>3. A \subseteq 1 .. l  BY <1>1
<1> HIDE DEF A
<1>4. IsFiniteSet(A) /\ Cardinality(A) \in Nat  BY <1>2, <1>3, FS_Subset, FS_CardinalityType
<1>5. skip = 0 => A = {}
  <2>1. skip = 0 => 1 .. l = {}  BY <1>1
  <2> QED  BY <1>3, <2>1
<1>6. skip = 0 => Cardinality(A) = 0  BY <1>5, FS_EmptySet
<1> QED  BY <1>4, <1>6 DEF A, Times

\* A page shows a row that shares its stamp with no other once, if as many rows are
\* above it as the page skips, and fewer than it ends with; otherwise not at all.
LEMMA ShownOnce ==
  ASSUME TableInv, List, NEW t \in Tasks, t \notin tied'
  PROVE  Times(t)' = IF t \in Stored /\ skip <= Cardinality(Above(t))
                        /\ Cardinality(Above(t)) < skip + Limit
                     THEN Times(t) + 1 ELSE Times(t)
<1>1. PICK order \in SetToSeqs(Stored) :
        NewestFirst(order) /\ pages' = pages \o Page(order)
  BY DEF List
<1> DEFINE n    == Cardinality(Stored)
           last == IF skip + Limit <= n THEN skip + Limit ELSE n
           k    == IF skip + 1 <= last THEN last - skip ELSE 0
           l    == Len(pages)
           A    == {i \in DOMAIN pages : pages[i] = t}
           B    == {i \in DOMAIN pages' : pages'[i] = t}
<1>2. /\ last \in Nat /\ k \in Nat
      /\ Page(order) \in Seq(Tasks) /\ Len(Page(order)) = k
      /\ \A j \in 1 .. k : Page(order)[j] = order[skip + j]
  BY PageRows
<1>3. /\ n \in Nat /\ order \in [1 .. n -> Stored]
      /\ \A i, j \in 1 .. n : order[i] = order[j] => i = j
      /\ \A x \in Stored : \E i \in 1 .. n : order[i] = x
  BY Enumerates DEF TableInv
<1>4. skip \in Nat /\ Limit \in Nat /\ Limit >= 1 /\ pages \in Seq(Tasks)
  BY Constants DEF TableInv, TypeOK
<1>5. t \notin Tied  BY DEF List
<1>6. ASSUME t \in Stored
      PROVE  \E p \in 1 .. n : order[p] = t /\ Cardinality(Above(t)) = p - 1
  <2>1. PICK p \in 1 .. n : order[p] = t  BY <1>3, <1>6
  <2>2. Cardinality(Above(order[p])) = p - 1  BY <1>1, <1>5, <2>1, Position
  <2> QED  BY <2>1, <2>2
<1>7. /\ Times(t) = Cardinality(A) /\ Times(t)' = Cardinality(B)
      /\ IsFiniteSet(A)
  BY TimesType DEF Times
<1>8. /\ k = 0 \/ skip + k = last
      /\ k > 0 <=> skip + 1 <= last
      /\ last <= n /\ last <= skip + Limit
      /\ last = n \/ last = skip + Limit
  BY <1>2, <1>3, <1>4
<1> HIDE DEF n, last, k
<1>9. /\ l \in Nat /\ DOMAIN pages = 1 .. l /\ DOMAIN pages' = 1 .. (l + k)
      /\ \A i \in 1 .. l : pages'[i] = pages[i]
      /\ \A j \in 1 .. k : pages'[l + j] = order[skip + j]
  <2> DEFINE P == Page(order)
  <2>1. P \in Seq(Tasks) /\ Len(P) = k /\ pages' = pages \o P  BY <1>1, <1>2
  <2>2. \A j \in 1 .. k : P[j] = order[skip + j]  BY <1>2
  <2> HIDE DEF P
  <2>3. /\ l \in Nat /\ DOMAIN pages = 1 .. l /\ DOMAIN pages' = 1 .. (l + k)
        /\ \A i \in 1 .. l : pages'[i] = pages[i]
        /\ \A j \in 1 .. k : pages'[l + j] = P[j]
    BY <1>2, <1>4, <2>1
  <2> QED  BY <2>2, <2>3
<1> HIDE DEF l
<1>10. ASSUME NEW p \in 1 .. n, order[p] = t, skip < p, p <= last
       PROVE  Cardinality(B) = Cardinality(A) + 1
  <2> DEFINE b == l + (p - skip)
  <2>1. p - skip \in 1 .. k /\ skip + (p - skip) = p
    BY <1>2, <1>3, <1>4, <1>8, <1>10
  <2>2. b \in DOMAIN pages' /\ pages'[b] = t /\ b \notin A
    BY <1>2, <1>9, <1>10, <2>1
  <2>3. ASSUME NEW i \in B, i \notin A  PROVE i = b
    <3>1. i \in 1 .. (l + k) /\ pages'[i] = t  BY <1>9, <2>3
    <3>2. i \notin 1 .. l  BY <1>9, <2>3, <3>1
    <3>3. i - l \in 1 .. k /\ l + (i - l) = i  BY <1>2, <1>9, <3>1, <3>2
    <3>4. order[skip + (i - l)] = t  BY <1>9, <3>1, <3>3
    <3>5. skip + (i - l) \in 1 .. n  BY <1>2, <1>3, <1>4, <1>8, <3>3
    <3>6. skip + (i - l) = p  BY <1>3, <1>10, <3>4, <3>5
    <3> QED  BY <1>2, <1>3, <1>4, <1>9, <3>1, <3>6
  <2>4. A \subseteq B  BY <1>2, <1>9
  <2>5. B = A \cup {b} /\ b \notin A  BY <2>2, <2>3, <2>4
  <2> HIDE DEF A, B, b
  <2> QED  BY <1>7, <2>5, FS_AddElement
<1>11. ASSUME ~\E p \in 1 .. n : order[p] = t /\ skip < p /\ p <= last
       PROVE  B = A
  <2>1. A \subseteq B  BY <1>2, <1>9
  <2>2. ASSUME NEW i \in B, i \notin A  PROVE FALSE
    <3>1. i \in 1 .. (l + k) /\ pages'[i] = t  BY <1>9, <2>2
    <3>2. i \notin 1 .. l  BY <1>9, <2>2, <3>1
    <3>3. i - l \in 1 .. k /\ l + (i - l) = i  BY <1>2, <1>9, <3>1, <3>2
    <3>4. order[skip + (i - l)] = t  BY <1>9, <3>1, <3>3
    <3>5. /\ skip + (i - l) \in 1 .. n
          /\ skip < skip + (i - l) /\ skip + (i - l) <= last
      BY <1>2, <1>3, <1>4, <1>8, <3>3
    <3> QED  BY <1>11, <3>4, <3>5
  <2> QED  BY <2>1, <2>2
<1> HIDE DEF A, B
<1>12. CASE t \in Stored
  <2>1. PICK p \in 1 .. n : order[p] = t /\ Cardinality(Above(t)) = p - 1  BY <1>6, <1>12
  <2>2. p \in Nat /\ p <= n  BY <1>3
  <2>3. (skip <= Cardinality(Above(t)) /\ Cardinality(Above(t)) < skip + Limit)
          <=> (skip < p /\ p <= last)
    BY <1>2, <1>3, <1>4, <1>8, <2>1, <2>2
  <2>4. \A q \in 1 .. n : order[q] = t => q = p  BY <1>3, <2>1
  <2>5. CASE skip < p /\ p <= last  BY <1>7, <1>10, <1>12, <2>1, <2>3, <2>5
  <2>6. CASE ~(skip < p /\ p <= last)
    <3>1. B = A  BY <1>11, <2>4, <2>6
    <3> QED  BY <1>7, <2>3, <2>6, <3>1
  <2> QED  BY <2>5, <2>6
<1>13. CASE t \notin Stored
  <2>1. \A p \in 1 .. n : order[p] # t  BY <1>3, <1>13
  <2>2. B = A  BY <1>11, <2>1
  <2> QED  BY <1>7, <1>13, <2>2
<1> QED  BY <1>12, <1>13

\* A page that is not full is the last of the list.
LEMMA Ends ==
  ASSUME TableInv, List, ~walking'
  PROVE  Cardinality(Stored) < skip + Limit
<1>1. PICK order \in SetToSeqs(Stored) : walking' = (Len(Page(order)) >= Limit)
  BY DEF List
<1> DEFINE n    == Cardinality(Stored)
           last == IF skip + Limit <= n THEN skip + Limit ELSE n
           k    == IF skip + 1 <= last THEN last - skip ELSE 0
<1>2. Len(Page(order)) = k  BY PageRows
<1>3. n \in Nat  BY FS_CardinalityType DEF TableInv
<1>4. skip \in Nat /\ Limit \in Nat /\ Limit >= 1  BY Constants DEF TableInv, TypeOK
<1>5. ~(k >= Limit)  BY <1>1, <1>2
<1> HIDE DEF n
<1>6. n < skip + Limit  BY <1>3, <1>4, <1>5
<1> QED  BY <1>6 DEF n

-----------------------------------------------------------------------------
(* A commit *)

LEMMA CommitRow ==
  ASSUME TypeOK, NEW w \in Writers, NEW t \in Tasks, NEW new, Shows(w, t, new),
         new \in [created : Time, updated : Time \cup {Null}]
  PROVE  /\ row' \in [Tasks -> [created : Time, updated : Time \cup {Null}] \cup {Absent}]
         /\ row'[t] = new /\ \A u \in Tasks : u # t => row'[u] = row[u]
         /\ Stored' = Stored \cup {t}
         /\ \A u \in Tasks : u # t => Stamp(u)' = Stamp(u)
         /\ since' \in [Writers -> Time \cup {Null}]
<1>1. row' = [row EXCEPT ![t] = new] /\ since' = [since EXCEPT ![w] = Null]  BY DEF Shows
<1>2. row' \in [Tasks -> [created : Time, updated : Time \cup {Null}] \cup {Absent}]
  BY <1>1 DEF TypeOK
<1>3. row'[t] = new /\ \A u \in Tasks : u # t => row'[u] = row[u]  BY <1>1 DEF TypeOK
<1>4. new # Absent
  <2>1. new.created \in Time /\ Absent.created = Null  BY DEF Absent
  <2> QED  BY <2>1, Constants
<1>5. Stored' = Stored \cup {t}  BY <1>3, <1>4 DEF Stored
<1>6. \A u \in Tasks : u # t => Stamp(u)' = Stamp(u)  BY <1>3 DEF Stamp
<1>7. since' \in [Writers -> Time \cup {Null}]  BY <1>1 DEF TypeOK
<1> QED  BY <1>2, <1>3, <1>5, <1>6, <1>7

\* What a transaction leaves: a row with the time it began, which is later than what was
\* there unless the row is now among the older ones.
LEMMA Commit ==
  ASSUME TypeOK, NEW w \in Writers, NEW t \in Tasks, Insert(w, t) \/ Update(w, t)
  PROVE  /\ row' \in [Tasks -> [created : Time, updated : Time \cup {Null}] \cup {Absent}]
         /\ Stored' = Stored \cup {t}
         /\ \A u \in Tasks : u # t => Stamp(u)' = Stamp(u)
         /\ since' \in [Writers -> Time \cup {Null}]
         /\ Stamp(t)' \in Nat
         /\ skip > 0 /\ t \notin older' => Stamp(t) <= Stamp(t)'
         /\ older \subseteq older' /\ older' \subseteq older \cup {t}
         /\ touched' = IF skip > 0 THEN touched \cup {t} ELSE {}
         /\ UNCHANGED <<clock, pages, skip, walking, stored, tied>>
<1>1. since[w] \in Time /\ since[w] # Null /\ since[w] \in Nat
  BY Constants DEF Insert, Update, TypeOK
<1>2. Stamp(t) \in Nat  BY Stamps
<1>3. CASE Insert(w, t)
  <2> DEFINE new == [created |-> since[w], updated |-> Null]
  <2>1. new \in [created : Time, updated : Time \cup {Null}]
        /\ new.updated = Null /\ new.created = since[w]
    BY <1>1
  <2>2. Shows(w, t, new) /\ t \notin Stored /\ older' = older  BY <1>3 DEF Insert
  <2> HIDE DEF new
  <2>3. /\ row' \in [Tasks -> [created : Time, updated : Time \cup {Null}] \cup {Absent}]
        /\ row'[t] = new
        /\ Stored' = Stored \cup {t}
        /\ \A u \in Tasks : u # t => Stamp(u)' = Stamp(u)
        /\ since' \in [Writers -> Time \cup {Null}]
    BY <2>1, <2>2, CommitRow
  <2>4. Stamp(t)' = since[w]  BY <2>1, <2>3 DEF Stamp
  <2>5. Stamp(t) = Null
    <3>1. row[t] = Absent  BY <2>2 DEF Stored
    <3> QED  BY <3>1 DEF Stamp, Absent
  <2>6. Stamp(t) <= Stamp(t)'  BY <1>1, <2>4, <2>5 DEF Null
  <2>7. /\ touched' = IF skip > 0 THEN touched \cup {t} ELSE {}
        /\ UNCHANGED <<clock, pages, skip, walking, stored, tied>>
    BY <2>2 DEF Shows, client
  <2> QED  BY <1>1, <2>2, <2>3, <2>4, <2>6, <2>7
<1>4. CASE Update(w, t)
  <2> DEFINE new == [row[t] EXCEPT !.updated = since[w]]
  <2>1. row[t] \in [created : Time, updated : Time \cup {Null}]
    BY <1>4 DEF Update, Stored, TypeOK
  <2>2. new \in [created : Time, updated : Time \cup {Null}]
        /\ new.updated = since[w]
    BY <1>1, <2>1
  <2>3. Shows(w, t, new)
        /\ older' = IF skip > 0 /\ since[w] < Stamp(t) THEN older \cup {t} ELSE older
    BY <1>4 DEF Update
  <2> HIDE DEF new
  <2>4. /\ row' \in [Tasks -> [created : Time, updated : Time \cup {Null}] \cup {Absent}]
        /\ row'[t] = new
        /\ Stored' = Stored \cup {t}
        /\ \A u \in Tasks : u # t => Stamp(u)' = Stamp(u)
        /\ since' \in [Writers -> Time \cup {Null}]
    BY <2>2, <2>3, CommitRow
  <2>5. Stamp(t)' = since[w]  BY <1>1, <2>2, <2>4 DEF Stamp
  <2>6. skip > 0 /\ t \notin older' => Stamp(t) <= Stamp(t)'
    BY <1>1, <1>2, <2>3, <2>5
  <2>7. /\ touched' = IF skip > 0 THEN touched \cup {t} ELSE {}
        /\ UNCHANGED <<clock, pages, skip, walking, stored, tied>>
    BY <2>3 DEF Shows, client
  <2> QED  BY <1>1, <2>3, <2>4, <2>5, <2>6, <2>7
<1> QED  BY <1>3, <1>4

-----------------------------------------------------------------------------
(* The table *)

LEMMA ListTable ==
  ASSUME TableInv, List
  PROVE  TableInv'
<1>1. PICK order \in SetToSeqs(Stored) : /\ pages' = pages \o Page(order)
                                         /\ walking' = (Len(Page(order)) >= Limit)
  BY DEF List
<1> DEFINE n    == Cardinality(Stored)
           last == IF skip + Limit <= n THEN skip + Limit ELSE n
           k    == IF skip + 1 <= last THEN last - skip ELSE 0
           P    == Page(order)
<1>2. P \in Seq(Tasks) /\ Len(P) = k /\ k \in Nat /\ last \in Nat  BY PageRows
<1>3. n \in Nat  BY FS_CardinalityType DEF TableInv
<1>4. /\ skip \in Nat /\ Limit \in Nat /\ Limit >= 1
      /\ pages \in Seq(Tasks) /\ Len(pages) <= skip
  BY Constants DEF TableInv, TypeOK
<1>5. skip' = skip + Limit /\ skip' \in Nat /\ skip' # 0  BY <1>4 DEF List
<1> HIDE DEF n
<1>6. k <= Limit  BY <1>3, <1>4
<1> HIDE DEF k, last, P
<1>7. pages' \in Seq(Tasks) /\ Len(pages') <= skip'
  <2>1. pages' = pages \o P  BY <1>1 DEF P
  <2>2. pages \o P \in Seq(Tasks) /\ Len(pages \o P) = Len(pages) + k  BY <1>2, <1>4
  <2>3. Len(pages) \in Nat  BY <1>4
  <2> QED  BY <1>2, <1>4, <1>5, <1>6, <2>1, <2>2, <2>3
<1>8. walking' \in BOOLEAN  BY <1>1
<1>9. Stored' = Stored  BY DEF List, Stored
<1>10. (stored \cup touched \cup tied \cup older)' \subseteq Stored
  BY DEF List, TableInv, TypeOK, Tied
<1>11. TypeOK'
  BY <1>5, <1>7, <1>8, <1>9, <1>10 DEF List, TableInv, TypeOK
<1> QED  BY <1>5, <1>9, <1>11 DEF TableInv

LEMMA CommitTable ==
  ASSUME TableInv, NEW w \in Writers, NEW t \in Tasks, Insert(w, t) \/ Update(w, t)
  PROVE  TableInv'
<1>1. /\ row' \in [Tasks -> [created : Time, updated : Time \cup {Null}] \cup {Absent}]
      /\ Stored' = Stored \cup {t}
      /\ since' \in [Writers -> Time \cup {Null}]
      /\ older' \subseteq older \cup {t}
      /\ touched' = IF skip > 0 THEN touched \cup {t} ELSE {}
      /\ UNCHANGED <<clock, pages, skip, walking, stored, tied>>
  BY Commit DEF TableInv
<1>2. TypeOK'  BY <1>1 DEF TableInv, TypeOK
<1>3. IsFiniteSet(Stored')  BY <1>1, FS_AddElement DEF TableInv
<1> QED  BY <1>1, <1>2, <1>3 DEF TableInv

LEMMA TableKept == TableInv /\ [Next]_vars => TableInv'
<1> SUFFICES ASSUME TableInv, [Next]_vars  PROVE TableInv'
  OBVIOUS
<1>1. CASE List  BY <1>1, ListTable
<1>2. CASE Tick
  <2>1. clock' \in Time  BY <1>2, Constants DEF Tick, TableInv, TypeOK, Time
  <2>2. Stored' = Stored  BY <1>2 DEF Tick, Stored
  <2> QED  BY <1>2, <2>1, <2>2 DEF Tick, TableInv, TypeOK, client, history
<1>3. ASSUME NEW w \in Writers, Begin(w)  PROVE TableInv'
  <2>1. since' \in [Writers -> Time \cup {Null}]  BY <1>3 DEF Begin, TableInv, TypeOK
  <2>2. Stored' = Stored  BY <1>3 DEF Begin, Stored
  <2> QED  BY <1>3, <2>1, <2>2 DEF Begin, TableInv, TypeOK, client, history
<1>4. CASE \E w \in Writers : \E t \in Tasks : Insert(w, t) \/ Update(w, t)
  BY <1>4, CommitTable
<1>5. CASE UNCHANGED vars
  <2>1. Stored' = Stored  BY <1>5 DEF vars, Stored
  <2> QED  BY <1>5, <2>1 DEF vars, TableInv, TypeOK, client, history
<1> QED  BY <1>1, <1>2, <1>3, <1>4, <1>5 DEF Next

\* Every variable has its type, and the table is finite.
THEOREM TableInvariant == Spec => []TableInv
<1>1. Init => TableInv
  <2> SUFFICES ASSUME Init  PROVE TableInv
    OBVIOUS
  <2>1. Stored = {}  BY DEF Init, Stored
  <2>2. <<>> \in Seq(Tasks) /\ Len(<<>>) = 0  OBVIOUS
  <2>3. 1 \in Time  BY Constants DEF Time
  <2>4. TypeOK  BY <2>1, <2>2, <2>3 DEF Init, TypeOK
  <2> QED  BY <2>1, <2>4, FS_EmptySet DEF Init, TableInv
<1>2. TableInv /\ [Next]_vars => TableInv'  BY TableKept
<1> QED  BY <1>1, <1>2, PTL DEF Spec

\* No stamp is missing from a row, and no page has more rows than were skipped for it.
THEOREM TypeCorrect == Spec => []TypeOK
<1>1. TableInv => TypeOK  BY DEF TableInv
<1> QED  BY <1>1, TableInvariant, PTL

-----------------------------------------------------------------------------
(* Repeated rows *)

\* The rows above a task are those that were written since the first page, and others.
LEMMA Split ==
  ASSUME TableInv, NEW t \in Tasks
  PROVE  LET quiet == Cardinality(Above(t) \ touched)
         IN  /\ IsFiniteSet(Above(t) \ touched) /\ quiet \in Nat
             /\ IsFiniteSet(Others(t)) /\ Cardinality(Others(t)) \in Nat
             /\ quiet <= Cardinality(Above(t))
             /\ Cardinality(Above(t)) <= quiet + Cardinality(Others(t))
<1> DEFINE A == Above(t)
           O == Others(t)
<1>1. IsFiniteSet(A) /\ Cardinality(A) \in Nat  BY AboveSize
<1>2. IsFiniteSet(O) /\ Cardinality(O) \in Nat
  <2>1. O \subseteq Stored /\ IsFiniteSet(Stored)  BY DEF TableInv, TypeOK, Others
  <2> QED  BY <2>1, FS_Subset, FS_CardinalityType
<1>3. A \ touched = A \ O
  <2>1. t \notin A
    <3>1. Stamp(t) \in Nat  BY Stamps DEF TableInv
    <3> QED  BY <3>1 DEF Above
  <2> QED  BY <2>1 DEF Others
<1> HIDE DEF A, O
<1>4. /\ IsFiniteSet(A \ O)
      /\ Cardinality(A \ O) = Cardinality(A) - Cardinality(A \cap O)
  BY <1>1, FS_Difference
<1>5. Cardinality(A \cap O) <= Cardinality(O) /\ IsFiniteSet(A \cap O)
  BY <1>2, FS_Intersection
<1>6. Cardinality(A \cap O) \in Nat  BY <1>5, FS_CardinalityType
<1>7. Cardinality(A \ O) \in Nat  BY <1>4, FS_CardinalityType
<1> QED  BY <1>1, <1>2, <1>3, <1>4, <1>5, <1>6, <1>7 DEF A, O

LEMMA ListRepeats ==
  ASSUME TableInv, RepeatInv, List
  PROVE  RepeatInv'
<1> SUFFICES ASSUME NEW t \in Tasks, t \notin tied', t \notin older', Times(t)' > 0
             PROVE  /\ Cardinality(Above(t) \ touched)' + Times(t)' <= skip'
                    /\ Times(t)' <= 1 + Cardinality(Others(t)')
  BY DEF RepeatInv
<1> DEFINE a == Cardinality(Above(t))
           q == Cardinality(Above(t) \ touched)
           c == Cardinality(Others(t))
           m == Times(t)
<1>1. /\ q \in Nat /\ c \in Nat /\ q <= a /\ a <= q + c  BY Split
<1>2. a \in Nat  BY AboveSize
<1>3. m \in Nat  BY TimesType
<1>4. /\ skip \in Nat /\ Limit \in Nat /\ Limit >= 1 /\ skip' = skip + Limit
  BY Constants DEF TableInv, TypeOK, List
<1>5. (Above(t) \ touched)' = Above(t) \ touched /\ Others(t)' = Others(t)
  BY DEF List, Above, Stored, Stamp, Others
<1>6. Times(t)' = IF t \in Stored /\ skip <= a /\ a < skip + Limit THEN m + 1 ELSE m
  BY ShownOnce
<1>7. m > 0 => q + m <= skip /\ m <= 1 + c
  <2>1. t \notin tied /\ t \notin older  BY DEF List
  <2> QED  BY <2>1 DEF RepeatInv
<1>8. Cardinality((Above(t) \ touched)') = q /\ Cardinality(Others(t)') = c  BY <1>5
<1> HIDE DEF a, q, c, m
<1>9. CASE t \in Stored /\ skip <= a /\ a < skip + Limit
  <2>1. Times(t)' = m + 1  BY <1>6, <1>9
  <2>2. CASE m = 0
    <3>1. q + 1 <= skip + Limit /\ 1 <= 1 + c  BY <1>1, <1>2, <1>4, <1>9
    <3> QED  BY <1>4, <1>8, <2>1, <2>2, <3>1
  <2>3. CASE m > 0
    <3>1. q + m + 1 <= skip + Limit /\ m <= c
      BY <1>1, <1>2, <1>3, <1>4, <1>7, <1>9, <2>3
    <3> QED  BY <1>1, <1>3, <1>4, <1>8, <2>1, <3>1
  <2> QED  BY <1>3, <2>2, <2>3
<1>10. CASE ~(t \in Stored /\ skip <= a /\ a < skip + Limit)
  <2>1. Times(t)' = m /\ m > 0  BY <1>6, <1>10
  <2> QED  BY <1>1, <1>3, <1>4, <1>7, <1>8, <2>1
<1> QED  BY <1>9, <1>10

\* A commit puts no row above a task but the one it writes.
LEMMA CommitRepeats ==
  ASSUME TableInv, RepeatInv, NEW w \in Writers, NEW u \in Tasks,
         Insert(w, u) \/ Update(w, u)
  PROVE  RepeatInv'
<1> SUFFICES ASSUME NEW t \in Tasks, t \notin tied', t \notin older', Times(t)' > 0
             PROVE  /\ Cardinality(Above(t) \ touched)' + Times(t)' <= skip'
                    /\ Times(t)' <= 1 + Cardinality(Others(t)')
  BY DEF RepeatInv
<1>1. /\ Stored' = Stored \cup {u}
      /\ \A v \in Tasks : v # u => Stamp(v)' = Stamp(v)
      /\ Stamp(u)' \in Nat
      /\ skip > 0 /\ u \notin older' => Stamp(u) <= Stamp(u)'
      /\ older \subseteq older'
      /\ touched' = IF skip > 0 THEN touched \cup {u} ELSE {}
      /\ UNCHANGED <<pages, skip, tied>>
  BY Commit DEF TableInv
<1>2. Times(t)' = Times(t) /\ Times(t) \in Nat  BY <1>1, TimesType DEF Times
<1>3. skip \in Nat /\ skip > 0
  <2>1. skip \in Nat  BY DEF TableInv, TypeOK
  <2>2. Times(t) > 0  BY <1>2
  <2>3. skip = 0 => Times(t) = 0  BY TimesType
  <2>4. skip # 0
    <3>1. SUFFICES ASSUME skip = 0  PROVE FALSE
      OBVIOUS
    <3>2. Times(t) = 0  BY <2>3, <3>1
    <3> QED  BY <2>2, <3>2
  <2> QED  BY <2>1, <2>4
<1>4. touched' = touched \cup {u}  BY <1>1, <1>3
<1> DEFINE Q == Above(t) \ touched
           R == (Above(t) \ touched)'
           O == Others(t)
           P == Others(t)'
<1>5. IsFiniteSet(Q) /\ Cardinality(Q) \in Nat /\ IsFiniteSet(O)
      /\ Cardinality(O) \in Nat
  BY Split
<1>6. R \subseteq Q
  <2> SUFFICES ASSUME NEW x \in R  PROVE x \in Q
    OBVIOUS
  <2>1. x \in Stored' /\ Stamp(x)' > Stamp(t)' /\ x \notin touched'  BY DEF Above
  <2>2. x \in Stored /\ x \in Tasks /\ x # u /\ x \notin touched
    BY <1>1, <1>4, <2>1 DEF Stored
  <2>3. Stamp(x)' = Stamp(x)  BY <1>1, <2>2
  <2>4. Stamp(t) <= Stamp(t)'
    <3>1. CASE t = u  BY <1>1, <1>3, <3>1
    <3>2. CASE t # u
      <4>1. Stamp(t)' = Stamp(t) /\ Stamp(t) \in Nat  BY <1>1, <3>2, Stamps DEF TableInv
      <4> QED  BY <4>1
    <3> QED  BY <3>1, <3>2
  <2>5. Stamp(t) \in Nat /\ Stamp(x) \in Nat /\ Stamp(t)' \in Nat
    BY <1>1, <2>2, Stamps DEF TableInv
  <2>6. Stamp(x) > Stamp(t)  BY <2>1, <2>3, <2>4, <2>5
  <2> QED  BY <2>2, <2>6 DEF Above
<1>7. P \in {O, O \cup {u}}  BY <1>4 DEF Others
<1> HIDE DEF Q, R, O, P
<1>8. Cardinality(R) <= Cardinality(Q) /\ IsFiniteSet(R)  BY <1>5, <1>6, FS_Subset
<1>9. Cardinality(R) \in Nat  BY <1>8, FS_CardinalityType
<1>10. Cardinality(O) <= Cardinality(P) /\ Cardinality(P) \in Nat
  <2>1. Cardinality(O \cup {u})
          = IF u \in O THEN Cardinality(O) ELSE Cardinality(O) + 1
    BY <1>5, FS_AddElement
  <2> QED  BY <1>5, <1>7, <2>1
<1>11. Cardinality(Q) + Times(t) <= skip /\ Times(t) <= 1 + Cardinality(O)
  BY <1>1, <1>2 DEF RepeatInv, Q, O
<1>12. skip' = skip  BY <1>1
<1>13. Cardinality(R) + Times(t)' <= skip' /\ Times(t)' <= 1 + Cardinality(P)
  BY <1>2, <1>3, <1>5, <1>8, <1>9, <1>10, <1>11, <1>12
<1> QED  BY <1>13 DEF R, P

-----------------------------------------------------------------------------
(* Rows that are still to come *)

LEMMA ListAhead ==
  ASSUME TableInv, AheadInv, List
  PROVE  AheadInv'
<1> SUFFICES ASSUME older' = {}, NEW t \in stored', t \notin touched', t \notin tied',
                    Times(t)' = 0
             PROVE  walking' /\ skip' <= Cardinality(Above(t))'
  BY DEF AheadInv
<1> DEFINE a == Cardinality(Above(t))
<1>1. t \in Stored /\ t \in Tasks
  BY DEF List, TableInv, TypeOK, Stored
<1>2. Times(t) \in Nat /\ (skip = 0 => Times(t) = 0)  BY TimesType
<1>3. a \in Nat /\ Cardinality(Stored) \in Nat /\ a < Cardinality(Stored)
  BY <1>1, AboveSize
<1>4. /\ skip \in Nat /\ Limit \in Nat /\ Limit >= 1 /\ skip' = skip + Limit
  BY Constants DEF TableInv, TypeOK, List
<1>5. Times(t)' = IF t \in Stored /\ skip <= a /\ a < skip + Limit
                  THEN Times(t) + 1 ELSE Times(t)
  BY <1>1, ShownOnce
<1>6. Cardinality(Above(t))' = a  BY DEF List, Above, Stored, Stamp
<1>7. Times(t) = 0 /\ ~(skip <= a /\ a < skip + Limit)  BY <1>1, <1>2, <1>5
<1>8. skip <= a
  <2>1. CASE skip = 0  BY <1>3, <2>1
  <2>2. CASE skip # 0
    <3>1. older = {} /\ t \in stored /\ t \notin touched /\ t \notin tied
      BY <2>2 DEF List
    <3> QED  BY <1>7, <3>1 DEF AheadInv
  <2> QED  BY <2>1, <2>2
<1> HIDE DEF a
<1>9. skip' <= a  BY <1>3, <1>4, <1>7, <1>8
<1>10. walking'
  <2> SUFFICES ASSUME ~walking'  PROVE FALSE
    OBVIOUS
  <2>1. Cardinality(Stored) < skip + Limit  BY Ends
  <2> QED  BY <1>3, <1>4, <1>9, <2>1
<1> QED  BY <1>6, <1>9, <1>10

LEMMA CommitAhead ==
  ASSUME TableInv, AheadInv, NEW w \in Writers, NEW u \in Tasks,
         Insert(w, u) \/ Update(w, u)
  PROVE  AheadInv'
<1> SUFFICES ASSUME older' = {}, NEW t \in stored', t \notin touched', t \notin tied',
                    Times(t)' = 0
             PROVE  walking' /\ skip' <= Cardinality(Above(t))'
  BY DEF AheadInv
<1>1. /\ Stored' = Stored \cup {u}
      /\ \A v \in Tasks : v # u => Stamp(v)' = Stamp(v)
      /\ Stamp(u)' \in Nat
      /\ skip > 0 /\ u \notin older' => Stamp(u) <= Stamp(u)'
      /\ older \subseteq older'
      /\ touched' = IF skip > 0 THEN touched \cup {u} ELSE {}
      /\ UNCHANGED <<pages, skip, walking, stored, tied>>
  BY Commit DEF TableInv
<1>2. skip \in Nat /\ skip > 0
  <2>1. skip \in Nat /\ t \in stored  BY <1>1 DEF TableInv, TypeOK
  <2>2. skip # 0  BY <2>1 DEF TableInv
  <2> QED  BY <2>1, <2>2
<1>3. t \in stored /\ t \notin touched /\ t \notin tied /\ t # u /\ older = {}
  BY <1>1, <1>2
<1>4. t \in Tasks  BY <1>3 DEF TableInv, TypeOK, Stored
<1>5. Times(t) = 0  BY <1>1 DEF Times
<1>6. walking /\ skip <= Cardinality(Above(t))  BY <1>3, <1>5 DEF AheadInv
<1>7. Above(t) \subseteq Above(t)'
  <2> SUFFICES ASSUME NEW x \in Above(t)  PROVE x \in Above(t)'
    OBVIOUS
  <2>1. x \in Stored /\ x \in Tasks /\ Stamp(x) > Stamp(t)  BY DEF Above, Stored
  <2>2. Stamp(t)' = Stamp(t)  BY <1>1, <1>3, <1>4
  <2>3. Stamp(x) <= Stamp(x)' /\ Stamp(x)' \in Nat
    <3>1. CASE x = u  BY <1>1, <1>2, <3>1
    <3>2. CASE x # u
      <4>1. Stamp(x)' = Stamp(x) /\ Stamp(x) \in Nat  BY <1>1, <2>1, <3>2, Stamps DEF TableInv
      <4> QED  BY <4>1
    <3> QED  BY <3>1, <3>2
  <2>4. Stamp(t) \in Nat /\ Stamp(x) \in Nat  BY <1>4, <2>1, Stamps DEF TableInv
  <2>5. Stamp(x)' > Stamp(t)'  BY <2>1, <2>2, <2>3, <2>4
  <2> QED  BY <1>1, <2>1, <2>5 DEF Above
<1>8. IsFiniteSet(Above(t)')
  <2>1. Above(t)' \subseteq Stored \cup {u}  BY <1>1 DEF Above
  <2>2. IsFiniteSet(Stored \cup {u})  BY FS_AddElement DEF TableInv
  <2> QED  BY <2>1, <2>2, FS_Subset
<1> DEFINE A == Above(t)
           B == Above(t)'
<1>9. A \subseteq B /\ IsFiniteSet(B)  BY <1>7, <1>8
<1>10. skip <= Cardinality(A)  BY <1>6
<1> HIDE DEF A, B
<1>11. Cardinality(A) <= Cardinality(B)  BY <1>9, FS_Subset
<1>12. Cardinality(A) \in Nat /\ Cardinality(B) \in Nat
  BY <1>9, FS_Subset, FS_CardinalityType
<1>13. skip <= Cardinality(B)  BY <1>2, <1>10, <1>11, <1>12
<1> QED  BY <1>1, <1>6, <1>13 DEF B

-----------------------------------------------------------------------------

LEMMA WalkKept ==
  TableInv /\ RepeatInv /\ AheadInv /\ [Next]_vars => RepeatInv' /\ AheadInv'
<1> SUFFICES ASSUME TableInv, RepeatInv, AheadInv, [Next]_vars
             PROVE  RepeatInv' /\ AheadInv'
  OBVIOUS
<1>1. CASE List  BY <1>1, ListRepeats, ListAhead
<1>2. CASE \E w \in Writers : \E t \in Tasks : Insert(w, t) \/ Update(w, t)
  BY <1>2, CommitRepeats, CommitAhead
<1>3. ASSUME UNCHANGED <<row, client, history>>
      PROVE  RepeatInv' /\ AheadInv'
  <2>1. UNCHANGED <<row, pages, skip, walking, stored, touched, tied, older>>
    BY <1>3 DEF client, history
  <2>2. \A t : Above(t)' = Above(t) /\ Times(t)' = Times(t) /\ Others(t)' = Others(t)
    BY <2>1 DEF Above, Stored, Stamp, Times, Others
  <2> QED  BY <2>1, <2>2 DEF RepeatInv, AheadInv
<1>4. CASE Tick \/ (\E w \in Writers : Begin(w)) \/ UNCHANGED vars
  BY <1>3, <1>4 DEF Tick, Begin, vars
<1> QED  BY <1>1, <1>2, <1>4 DEF Next

\* Where the walk is, by the rows above each task.
THEOREM WalkInvariant == Spec => [](RepeatInv /\ AheadInv)
<1>1. Init /\ TableInv => RepeatInv /\ AheadInv
  <2> SUFFICES ASSUME Init, TableInv  PROVE RepeatInv /\ AheadInv
    OBVIOUS
  <2>1. \A t \in Tasks : Times(t) = 0  BY TimesType DEF Init
  <2>2. ~(0 > 0)  OBVIOUS
  <2> QED  BY <2>1, <2>2 DEF Init, RepeatInv, AheadInv
<1> QED  BY <1>1, WalkKept, TableInvariant, PTL DEF Spec

\* However long the list and its pages, each repeat of a task takes another row written
\* since the first page.
THEOREM RepeatsNeedWrites == Spec => []RepeatsAreWrites
<1>1. TableInv /\ RepeatInv => RepeatsAreWrites
  <2> SUFFICES ASSUME TableInv, RepeatInv, NEW t \in Tasks, t \notin tied, t \notin older
               PROVE  Times(t) <= 1 + Cardinality(Others(t))
    BY DEF RepeatsAreWrites, Others
  <2>1. Times(t) \in Nat /\ Cardinality(Others(t)) \in Nat  BY TimesType, Split
  <2>2. Times(t) > 0 => Times(t) <= 1 + Cardinality(Others(t))  BY DEF RepeatInv
  <2> QED  BY <2>1, <2>2
<1> QED  BY <1>1, TableInvariant, WalkInvariant, PTL

\* A finished walk has missed no task but those named, whatever other rows did.
THEOREM QuietListed == Spec => []QuietTasksAreListed
<1>1. TableInv /\ AheadInv => QuietTasksAreListed
  <2> SUFFICES ASSUME TableInv, AheadInv, ~walking, older = {},
                      NEW t \in stored, t \notin touched, t \notin tied
               PROVE  Times(t) > 0
    BY DEF QuietTasksAreListed
  <2>1. Times(t) \in Nat  BY TimesType
  <2>2. Times(t) # 0  BY DEF AheadInv
  <2> QED  BY <2>1, <2>2
<1> QED  BY <1>1, TableInvariant, WalkInvariant, PTL

=============================================================================
