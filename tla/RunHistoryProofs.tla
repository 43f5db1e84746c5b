--------------------------- MODULE RunHistoryProofs ---------------------------
(***************************************************************************)
(* Theorems about RunHistory, for any limit, any executions and any lists  *)
(* in the browser's storage.                                               *)
(***************************************************************************)
EXTENDS RunHistory, ExecutionRunnerProofs, FiniteSetTheorems, SequenceTheorems

-----------------------------------------------------------------------------
(* Lists                                                                   *)

\* A list cut is its beginning.
LEMMA CutFacts ==
  ASSUME NEW S, NEW list \in Seq(S)
  PROVE  /\ Cut(list) \in Seq(S)
         /\ Len(Cut(list)) = IF Len(list) < HistoryLimit THEN Len(list) ELSE HistoryLimit
         /\ \A i \in 1..Len(Cut(list)) : Cut(list)[i] = list[i]
  <1> DEFINE m == IF Len(list) < HistoryLimit THEN Len(list) ELSE HistoryLimit
  <1>1. Len(list) \in Nat /\ HistoryLimit \in Nat
    BY LenProperties, HistoryAssumption
  <1>2. m \in Nat /\ m <= Len(list)
    BY <1>1
  <1>3. \A i \in 1..m : list[i] \in S
    BY <1>2, ElementOfSeq
  <1>4. /\ SubSeq(list, 1, m) \in Seq(S)
        /\ Len(SubSeq(list, 1, m)) = m
        /\ \A i \in 1..m : SubSeq(list, 1, m)[i] = list[i]
    BY <1>2, <1>3, SubSeqProperties
  <1> QED
    BY <1>4 DEF Cut

\* One that is short enough stays as it is.
LEMMA CutShort ==
  ASSUME NEW S, NEW list \in Seq(S), Len(list) <= HistoryLimit
  PROVE  Cut(list) = list
  <1>1. Len(list) \in Nat /\ HistoryLimit \in Nat
    BY LenProperties, HistoryAssumption
  <1>2. Len(Cut(list)) = Len(list)
    BY <1>1, CutFacts
  <1> QED
    BY <1>2, CutFacts, SeqEqual

\* How many of the positions kept there are up to one of them.
Rank(kept, i) == Cardinality({j \in kept : j <= i})

\* Of the positions kept each is the n-th for an n of its own, and each n has one.
LEMMA Ranks ==
  ASSUME NEW n \in Nat, NEW kept \in SUBSET (1..n)
  PROVE  /\ IsFiniteSet(kept)
         /\ Cardinality(kept) \in Nat
         /\ \A i \in kept : Rank(kept, i) \in 1..Cardinality(kept)
         /\ \A i, j \in kept : i < j => Rank(kept, i) < Rank(kept, j)
         /\ \A m \in 1..Cardinality(kept) : \E i \in kept : Rank(kept, i) = m
  <1> DEFINE Below(i) == {j \in kept : j <= i}
  <1>1. IsFiniteSet(kept) /\ Cardinality(kept) \in Nat
    <2>1. IsFiniteSet(1..n)
      BY FS_Interval
    <2> QED
      BY <2>1, FS_Subset, FS_CardinalityType
  <1>2. ASSUME NEW i \in kept
        PROVE  /\ IsFiniteSet(Below(i))
               /\ Rank(kept, i) \in 1..Cardinality(kept)
    <2>1. Below(i) \in SUBSET kept
      OBVIOUS
    <2>2. /\ IsFiniteSet(Below(i))
          /\ Cardinality(Below(i)) \in Nat
          /\ Cardinality(Below(i)) <= Cardinality(kept)
      BY <1>1, <2>1, FS_Subset, FS_CardinalityType
    <2>3. Below(i) # {}
      BY <1>2
    <2>4. Cardinality(Below(i)) # 0
      BY <2>2, <2>3, FS_EmptySet
    <2> QED
      BY <1>1, <2>2, <2>4 DEF Rank
  <1>3. ASSUME NEW i \in kept, NEW j \in kept, i < j
        PROVE  Rank(kept, i) < Rank(kept, j)
    <2>1. /\ Below(i) \in SUBSET Below(j)
          /\ j \in Below(j) /\ j \notin Below(i)
      <3>1. i \in Int /\ j \in Int /\ \A k \in kept : k \in Int
        OBVIOUS
      <3>2. ~(j <= i) /\ j <= j /\ \A k \in kept : k <= i => k <= j
        BY <1>3, <3>1
      <3> QED
        BY <3>2
    <2>2. /\ Cardinality(Below(i)) <= Cardinality(Below(j))
          /\ Cardinality(Below(j)) # Cardinality(Below(i))
      BY <1>2, <2>1, FS_Subset
    <2>3. Cardinality(Below(i)) \in Nat /\ Cardinality(Below(j)) \in Nat
      BY <1>2, FS_CardinalityType
    <2> QED
      BY <2>2, <2>3 DEF Rank
  <1>4. ASSUME NEW m \in 1..Cardinality(kept)
        PROVE  \E i \in kept : Rank(kept, i) = m
    <2> DEFINE rank == [i \in kept |-> Rank(kept, i)]
    <2>1. rank \in Injection(kept, 1..Cardinality(kept))
      <3>1. rank \in [kept -> 1..Cardinality(kept)]
        BY <1>2
      <3>2. \A i, j \in kept : i < j \/ j < i \/ i = j
        OBVIOUS
      <3>3. ASSUME NEW i \in kept, NEW j \in kept, i # j
            PROVE  rank[i] # rank[j]
        <4>1. rank[i] \in Nat /\ rank[j] \in Nat
          BY <1>1, <3>1
        <4>2. rank[i] < rank[j] \/ rank[j] < rank[i]
          BY <1>3, <3>2, <3>3
        <4> QED
          BY <4>1, <4>2
      <3> QED
        BY <3>1, <3>3 DEF Injection, IsInjective
    <2>2. /\ IsFiniteSet(1..Cardinality(kept))
          /\ Cardinality(1..Cardinality(kept)) = Cardinality(kept)
      BY <1>1, FS_Interval
    <2>3. rank \in Surjection(kept, 1..Cardinality(kept))
      BY <2>1, <2>2, FS_Injection
    <2> QED
      BY <2>3 DEF Surjection
  <1> QED
    BY <1>1, <1>2, <1>3, <1>4

\* What is kept of a list is listed at increasing positions, and all of it.
LEMMA FilteredFacts ==
  ASSUME NEW S, NEW list \in Seq(S), NEW kept \in SUBSET (DOMAIN list)
  PROVE  \E position \in [1..Cardinality(kept) -> kept] :
           /\ Cardinality(kept) \in Nat
           /\ Filtered(list, kept) = [m \in 1..Cardinality(kept) |-> list[position[m]]]
           /\ \A i, j \in 1..Cardinality(kept) : i # j => position[i] # position[j]
  <1>1. Len(list) \in Nat /\ DOMAIN list = 1..Len(list)
    BY LenProperties
  <1>2. /\ Cardinality(kept) \in Nat
        /\ \A m \in 1..Cardinality(kept) : \E i \in kept : Rank(kept, i) = m
    BY <1>1, Ranks
  <1> DEFINE position == [m \in 1..Cardinality(kept) |->
                            CHOOSE i \in kept : Rank(kept, i) = m]
  <1>3. \A m \in 1..Cardinality(kept) :
          position[m] \in kept /\ Rank(kept, position[m]) = m
    BY <1>2
  <1>4. position \in [1..Cardinality(kept) -> kept]
    BY <1>3
  <1>5. Filtered(list, kept) = [m \in 1..Cardinality(kept) |-> list[position[m]]]
    BY DEF Filtered, Rank
  <1>6. \A i, j \in 1..Cardinality(kept) : i # j => position[i] # position[j]
    BY <1>3
  <1> HIDE DEF position
  <1> QED
    BY <1>2, <1>4, <1>5, <1>6

\* So it is a list of the same kind.
LEMMA FilteredSeq ==
  ASSUME NEW S, NEW list \in Seq(S), NEW T, NEW kept \in SUBSET (DOMAIN list),
         \A i \in kept : list[i] \in T
  PROVE  Filtered(list, kept) \in Seq(T)
  <1>1. PICK position \in [1..Cardinality(kept) -> kept] :
          /\ Cardinality(kept) \in Nat
          /\ Filtered(list, kept) = [m \in 1..Cardinality(kept) |-> list[position[m]]]
    BY FilteredFacts
  <1>2. Filtered(list, kept) \in [1..Cardinality(kept) -> T]
    BY <1>1
  <1> QED
    BY <1>1, <1>2, SeqDef

\* As many numbers as there are from 1 to n.
LEMMA Counting ==
  ASSUME NEW n \in Nat
  PROVE  IsFiniteSet(1..n) /\ Cardinality(1..n) = n
  <1>1. /\ IsFiniteSet(1..n)
        /\ Cardinality(1..n) = IF 1 > n THEN 0 ELSE n - 1 + 1
    BY FS_Interval
  <1> QED
    BY <1>1

\* Everything kept is everything.
LEMMA FilteredAll ==
  ASSUME NEW S, NEW list \in Seq(S)
  PROVE  Filtered(list, DOMAIN list) = list
  <1>1. Len(list) \in Nat /\ list \in [1..Len(list) -> S] /\ DOMAIN list = 1..Len(list)
    BY LenProperties
  <1>2. Cardinality(1..Len(list)) = Len(list)
    BY <1>1, Counting
  <1>3. ASSUME NEW i \in 1..Len(list)
        PROVE  Rank(1..Len(list), i) = i
    <2>1. {j \in 1..Len(list) : j <= i} = 1..i
      BY <1>1
    <2>2. Rank(1..Len(list), i) = Cardinality(1..i)
      BY <2>1, Zenon DEF Rank
    <2>3. i \in Nat
      BY <1>1
    <2> QED
      BY <2>2, <2>3, Counting
  <1>4. ASSUME NEW m \in 1..Len(list)
        PROVE  (CHOOSE i \in 1..Len(list) : Rank(1..Len(list), i) = m) = m
    BY <1>3
  <1>5. Filtered(list, DOMAIN list)
          = [m \in 1..Len(list) |->
               list[CHOOSE i \in 1..Len(list) : Rank(1..Len(list), i) = m]]
    BY <1>1, <1>2 DEF Filtered, Rank
  <1> QED
    BY <1>1, <1>4, <1>5

\* Without one of its elements a list closes up.
LEMMA FilteredBut ==
  ASSUME NEW S, NEW list \in Seq(S), NEW k \in DOMAIN list
  PROVE  LET rest == Filtered(list, (DOMAIN list) \ {k})
         IN  /\ Len(rest) = Len(list) - 1
             /\ \A i \in 1..Len(rest) : rest[i] = IF i < k THEN list[i] ELSE list[i + 1]
  <1> DEFINE kept == (1..Len(list)) \ {k}
  <1>1. Len(list) \in Nat /\ DOMAIN list = 1..Len(list) /\ k \in 1..Len(list)
    BY LenProperties
  <1>2. Cardinality(kept) = Len(list) - 1
    <2>1. IsFiniteSet(1..Len(list)) /\ Cardinality(1..Len(list)) = Len(list)
      BY <1>1, Counting
    <2>2. Cardinality(kept) = IF k \in 1..Len(list) THEN Cardinality(1..Len(list)) - 1
                                                   ELSE Cardinality(1..Len(list))
      BY <2>1, FS_RemoveElement
    <2> QED
      BY <1>1, <2>1, <2>2
  <1>3. ASSUME NEW i \in kept
        PROVE  Rank(kept, i) = IF i < k THEN i ELSE i - 1
    <2>1. IsFiniteSet(1..i) /\ Cardinality(1..i) = i
      BY <1>1, Counting
    <2>2. Cardinality((1..i) \ {k}) = IF k \in 1..i THEN i - 1 ELSE i
      BY <2>1, FS_RemoveElement
    <2>3. {j \in kept : j <= i} = (1..i) \ {k}
      BY <1>1
    <2>4. Rank(kept, i) = Cardinality((1..i) \ {k})
      BY <2>3, Zenon DEF Rank
    <2>5. k \in 1..i <=> ~(i < k)
      BY <1>1
    <2> QED
      BY <2>2, <2>4, <2>5
  <1>4. ASSUME NEW m \in 1..(Len(list) - 1)
        PROVE  (CHOOSE i \in kept : Rank(kept, i) = m) = IF m < k THEN m ELSE m + 1
    <2> DEFINE p == IF m < k THEN m ELSE m + 1
    <2>1. p \in kept
      BY <1>1
    <2>2. ASSUME NEW i \in kept
          PROVE  Rank(kept, i) = m <=> i = p
      <3>1. i \in Int /\ k \in Int /\ m \in Int /\ i # k
        BY <1>1
      <3>2. Rank(kept, i) = IF i < k THEN i ELSE i - 1
        BY <1>3
      <3>3. (IF i < k THEN i ELSE i - 1) = m <=> i = p
        BY <3>1
      <3> QED
        BY <3>2, <3>3
    <2> QED
      BY <2>1, <2>2
  <1>5. Filtered(list, kept)
          = [m \in 1..(Len(list) - 1) |-> list[CHOOSE i \in kept : Rank(kept, i) = m]]
    BY <1>2 DEF Filtered, Rank
  <1>6. Filtered(list, kept)
          = [m \in 1..(Len(list) - 1) |-> IF m < k THEN list[m] ELSE list[m + 1]]
    BY <1>1, <1>4, <1>5
  <1>7. Len(list) - 1 \in Nat
    BY <1>1
  <1> HIDE DEF kept
  <1>8. Len(Filtered(list, kept)) = Len(list) - 1
    BY <1>6, <1>7
  <1>9. \A i \in 1..(Len(list) - 1) :
          Filtered(list, kept)[i] = IF i < k THEN list[i] ELSE list[i + 1]
    BY <1>6
  <1>10. (DOMAIN list) \ {k} = kept
    BY <1>1 DEF kept
  <1> QED
    BY <1>8, <1>9, <1>10

\* No execution is listed twice.
Once(ids) == \A i, j \in DOMAIN ids : ids[i] = ids[j] => i = j

\* `rest' is `list' without its k-th element.
Closed(rest, list, k) ==
  /\ Len(rest) = Len(list) - 1
  /\ \A i \in 1..Len(rest) : rest[i] = IF i < k THEN list[i] ELSE list[i + 1]

\* Taking an execution out of a list in which it is at most once.
LEMMA TakenOut ==
  ASSUME NEW recent \in Seq(Executions), Once(recent), NEW e
  PROVE  LET rest == Filtered(recent, {i \in DOMAIN recent : recent[i] # e})
         IN  /\ rest \in Seq(Executions)
             /\ \/ (\A i \in DOMAIN recent : recent[i] # e) /\ rest = recent
                \/ \E k \in DOMAIN recent : recent[k] = e /\ Closed(rest, recent, k)
  <1>1. Filtered(recent, {i \in DOMAIN recent : recent[i] # e}) \in Seq(Executions)
    BY FilteredSeq, ElementOfSeq, LenProperties
  <1>2. CASE \A i \in DOMAIN recent : recent[i] # e
    <2>1. {i \in DOMAIN recent : recent[i] # e} = DOMAIN recent
      BY <1>2
    <2> QED
      BY <1>1, <1>2, <2>1, FilteredAll
  <1>3. ASSUME NEW k \in DOMAIN recent, recent[k] = e
        PROVE  Closed(Filtered(recent, {i \in DOMAIN recent : recent[i] # e}), recent, k)
    <2>1. {i \in DOMAIN recent : recent[i] # e} = (DOMAIN recent) \ {k}
      BY <1>3 DEF Once
    <2> QED
      BY <2>1, FilteredBut DEF Closed
  <1> QED
    BY <1>1, <1>2, <1>3

\* And its entry out of a list of entries.
LEMMA EntryTakenOut ==
  ASSUME NEW list \in Seq(Entries), Once(Ids(list)), NEW e
  PROVE  LET rest == Filtered(list, {i \in DOMAIN list : list[i].id # e})
         IN  /\ rest \in Seq(Entries)
             /\ \/ (\A i \in DOMAIN list : list[i].id # e) /\ rest = list
                \/ \E k \in DOMAIN list : list[k].id = e /\ Closed(rest, list, k)
  <1>1. Filtered(list, {i \in DOMAIN list : list[i].id # e}) \in Seq(Entries)
    BY FilteredSeq, ElementOfSeq, LenProperties
  <1>2. CASE \A i \in DOMAIN list : list[i].id # e
    <2>1. {i \in DOMAIN list : list[i].id # e} = DOMAIN list
      BY <1>2
    <2> QED
      BY <1>1, <1>2, <2>1, FilteredAll
  <1>3. ASSUME NEW k \in DOMAIN list, list[k].id = e
        PROVE  Closed(Filtered(list, {i \in DOMAIN list : list[i].id # e}), list, k)
    <2>1. {i \in DOMAIN list : list[i].id # e} = (DOMAIN list) \ {k}
      BY <1>3 DEF Once, Ids
    <2> QED
      BY <2>1, FilteredBut DEF Closed
  <1> QED
    BY <1>1, <1>2, <1>3

\* What is put in front of a list is its first element.
LEMMA InFront ==
  ASSUME NEW S, NEW x \in S, NEW rest \in Seq(S)
  PROVE  /\ <<x>> \o rest \in Seq(S)
         /\ Len(<<x>> \o rest) = Len(rest) + 1
         /\ (<<x>> \o rest)[1] = x
         /\ \A i \in 2..(Len(rest) + 1) : (<<x>> \o rest)[i] = rest[i - 1]
  <1>1. <<x>> \in Seq(S) /\ Len(<<x>>) = 1 /\ <<x>>[1] = x
    OBVIOUS
  <1>2. Len(rest) \in Nat
    BY LenProperties
  <1>3. /\ <<x>> \o rest \in Seq(S)
        /\ Len(<<x>> \o rest) = 1 + Len(rest)
        /\ \A i \in 1..(1 + Len(rest)) :
             (<<x>> \o rest)[i] = IF i <= 1 THEN <<x>>[i] ELSE rest[i - 1]
    BY <1>1, ConcatProperties
  <1> QED
    BY <1>1, <1>2, <1>3

\* An execution that is filed goes in front of the others, and stays listed once.
LEMMA FiledOnce ==
  ASSUME NEW recent \in Seq(Executions), Once(recent), NEW e \in Executions
  PROVE  LET rest == Filtered(recent, {i \in DOMAIN recent : recent[i] # e})
         IN  <<e>> \o rest \in Seq(Executions) /\ Once(<<e>> \o rest)
  <1> DEFINE rest == Filtered(recent, {i \in DOMAIN recent : recent[i] # e})
  <1>1. /\ rest \in Seq(Executions)
        /\ \/ (\A i \in DOMAIN recent : recent[i] # e) /\ rest = recent
           \/ \E k \in DOMAIN recent : recent[k] = e /\ Closed(rest, recent, k)
    BY TakenOut
  <1> HIDE DEF rest
  <1>2. /\ Len(rest) \in Nat /\ DOMAIN rest = 1..Len(rest)
        /\ Len(recent) \in Nat /\ DOMAIN recent = 1..Len(recent)
    BY <1>1, LenProperties
  <1>3. Once(rest) /\ \A i \in 1..Len(rest) : rest[i] # e
    <2>1. ASSUME NEW k \in DOMAIN recent, recent[k] = e, Closed(rest, recent, k)
          PROVE  Once(rest) /\ \A i \in 1..Len(rest) : rest[i] # e
      <3> DEFINE place(i) == IF i < k THEN i ELSE i + 1
      <3>1. \A i \in 1..Len(rest) : /\ place(i) \in DOMAIN recent
                                    /\ place(i) # k
                                    /\ rest[i] = recent[place(i)]
        BY <1>2, <2>1 DEF Closed
      <3>2. \A i, j \in 1..Len(rest) : place(i) = place(j) => i = j
        BY <1>2
      <3> HIDE DEF place
      <3> QED
        BY <1>2, <2>1, <3>1, <3>2 DEF Once
    <2> QED
      BY <1>1, <1>2, <2>1
  <1>4. /\ <<e>> \o rest \in Seq(Executions)
        /\ Len(<<e>> \o rest) = Len(rest) + 1
        /\ (<<e>> \o rest)[1] = e
        /\ \A i \in 2..(Len(rest) + 1) : (<<e>> \o rest)[i] = rest[i - 1]
    BY <1>1, InFront
  <1>5. DOMAIN (<<e>> \o rest) = 1..(Len(rest) + 1)
    BY <1>4, LenProperties
  <1>6. Once(<<e>> \o rest)
    <2>1. ASSUME NEW i \in 2..(Len(rest) + 1)
          PROVE  i - 1 \in 1..Len(rest) /\ (<<e>> \o rest)[i] = rest[i - 1]
      BY <1>2, <1>4
    <2>2. ASSUME NEW i \in 2..(Len(rest) + 1)
          PROVE  (<<e>> \o rest)[i] # e
      BY <1>3, <2>1
    <2>3. ASSUME NEW i \in 2..(Len(rest) + 1), NEW j \in 2..(Len(rest) + 1),
                 (<<e>> \o rest)[i] = (<<e>> \o rest)[j]
          PROVE  i = j
      <3>1. i - 1 = j - 1
        BY <1>2, <1>3, <2>1, <2>3 DEF Once
      <3> QED
        BY <3>1
    <2>4. \A i \in 1..(Len(rest) + 1) : i = 1 \/ i \in 2..(Len(rest) + 1)
      BY <1>2
    <2> QED
      BY <1>4, <1>5, <2>2, <2>3, <2>4 DEF Once
  <1> QED
    BY <1>4, <1>6 DEF rest

\* The executions of the entries listed.
LEMMA IdsFacts ==
  ASSUME NEW list \in Seq(Entries)
  PROVE  /\ Ids(list) \in Seq(Executions)
         /\ Len(Ids(list)) = Len(list)
         /\ DOMAIN Ids(list) = 1..Len(list)
         /\ \A i \in 1..Len(list) : Ids(list)[i] = list[i].id
  <1>1. Len(list) \in Nat /\ DOMAIN list = 1..Len(list) /\ list \in [1..Len(list) -> Entries]
    BY LenProperties
  <1>2. Ids(list) = [i \in 1..Len(list) |-> list[i].id]
    BY <1>1 DEF Ids
  <1>3. Ids(list) \in [1..Len(list) -> Executions]
    BY <1>1, <1>2 DEF Entries
  <1> QED
    BY <1>1, <1>2, <1>3, SeqDef

\* The beginning of a list names no execution twice when the list does not.
LEMMA CutOnce ==
  ASSUME NEW recent \in Seq(Executions), Once(recent)
  PROVE  Once(Cut(recent))
  <1>1. /\ HistoryLimit \in Nat
        /\ Len(recent) \in Nat /\ DOMAIN recent = 1..Len(recent)
    BY LenProperties, HistoryAssumption
  <1>2. /\ Cut(recent) \in Seq(Executions)
        /\ Len(Cut(recent)) <= Len(recent)
        /\ \A i \in 1..Len(Cut(recent)) : Cut(recent)[i] = recent[i]
    BY <1>1, CutFacts
  <1>3. Len(Cut(recent)) \in Nat /\ DOMAIN Cut(recent) = 1..Len(Cut(recent))
    BY <1>2, LenProperties
  <1> QED
    BY <1>1, <1>2, <1>3 DEF Once

\* Entries and executions of which each list is a beginning of the other go on
\* to be that when an execution is taken out of both, as far as one place
\* before the limit: those are the places that remain behind what is filed.
LEMMA SameRest ==
  ASSUME NEW recent \in Seq(Executions), Once(recent),
         NEW list \in Seq(Entries), Ids(list) = Cut(recent), NEW e \in Executions
  PROVE  LET rest == Filtered(recent, {i \in DOMAIN recent : recent[i] # e})
             left == Filtered(list, {i \in DOMAIN list : list[i].id # e})
         IN  /\ \/ Len(left) = Len(rest)
                \/ Len(left) >= HistoryLimit - 1 /\ Len(rest) >= HistoryLimit - 1
             /\ \A j \in 1..Len(left) :
                  j <= HistoryLimit - 1 => j \in 1..Len(rest) /\ left[j].id = rest[j]
  <1> DEFINE rest == Filtered(recent, {i \in DOMAIN recent : recent[i] # e})
             left == Filtered(list, {i \in DOMAIN list : list[i].id # e})
  <1>1. /\ HistoryLimit \in Nat /\ HistoryLimit >= 1
        /\ Len(recent) \in Nat /\ DOMAIN recent = 1..Len(recent)
        /\ Len(list) \in Nat /\ DOMAIN list = 1..Len(list)
    BY LenProperties, HistoryAssumption
  <1>2. /\ Len(list) = IF Len(recent) < HistoryLimit THEN Len(recent) ELSE HistoryLimit
        /\ \A i \in 1..Len(list) : list[i].id = recent[i]
    BY IdsFacts, CutFacts
  <1>3. Once(Ids(list))
    BY <1>1, <1>2, IdsFacts DEF Once
  <1>4. \/ (\A i \in DOMAIN recent : recent[i] # e) /\ rest = recent
        \/ \E k \in DOMAIN recent : recent[k] = e /\ Closed(rest, recent, k)
    BY TakenOut
  <1>5. \/ (\A i \in DOMAIN list : list[i].id # e) /\ left = list
        \/ \E k \in DOMAIN list : list[k].id = e /\ Closed(left, list, k)
    BY <1>3, EntryTakenOut
  <1> HIDE DEF rest, left
  <1>6. /\ HistoryLimit \in Nat /\ Len(recent) \in Nat /\ Len(list) \in Nat
        /\ Len(list) = IF Len(recent) < HistoryLimit THEN Len(recent) ELSE HistoryLimit
    BY <1>1, <1>2
  <1> DEFINE Same == /\ \/ Len(left) = Len(rest)
                        \/ Len(left) >= HistoryLimit - 1 /\ Len(rest) >= HistoryLimit - 1
                     /\ \A j \in 1..Len(left) : j <= HistoryLimit - 1 =>
                          j \in 1..Len(rest) /\ left[j].id = rest[j]
  <1>7. ASSUME \A i \in DOMAIN recent : recent[i] # e, rest = recent
        PROVE  Same
    <2>1. \A i \in DOMAIN list : i \in DOMAIN recent /\ list[i].id # e
      BY <1>1, <1>2, <1>7
    <2>2. left = list
      BY <1>5, <2>1
    <2>3. Len(left) = Len(rest) \/ (Len(left) >= HistoryLimit - 1 /\ Len(rest) >= HistoryLimit - 1)
      <3>1. Len(left) = Len(list) /\ Len(rest) = Len(recent)
        BY <1>7, <2>2
      <3> QED
        BY <1>6, <3>1
    <2>4. \A j \in 1..Len(left) : j \in 1..Len(rest) /\ left[j].id = rest[j]
      BY <1>1, <1>2, <1>7, <2>1, <2>2
    <2> QED
      BY <2>3, <2>4
  <1>8. ASSUME NEW k \in DOMAIN recent, recent[k] = e, Closed(rest, recent, k)
        PROVE  Same
    <2>1. /\ k \in Int /\ 1 <= k /\ k <= Len(recent)
          /\ Len(rest) = Len(recent) - 1
          /\ \A i \in 1..Len(rest) : rest[i] = IF i < k THEN recent[i] ELSE recent[i + 1]
      BY <1>1, <1>8 DEF Closed
    <2>2. \A i \in DOMAIN list : list[i].id = e <=> i = k
      BY <1>1, <1>2, <1>8 DEF Once
    <2>3. CASE k <= Len(list)
      <3>1. k \in DOMAIN list
        BY <1>1, <2>1, <2>3
      <3>2. Closed(left, list, k)
        BY <1>5, <2>2, <3>1
      <3>3. /\ Len(left) = Len(list) - 1
            /\ \A i \in 1..Len(left) : left[i] = IF i < k THEN list[i] ELSE list[i + 1]
        BY <3>2 DEF Closed
      <3>4. Len(left) = Len(rest) \/ (Len(left) >= HistoryLimit - 1 /\ Len(rest) >= HistoryLimit - 1)
        <4>1. Len(left) = Len(list) - 1 /\ Len(rest) = Len(recent) - 1
          BY <2>1, <3>3
        <4> QED
          BY <1>6, <4>1
      <3>5. ASSUME NEW j \in 1..Len(left)
            PROVE  j \in 1..Len(rest) /\ left[j].id = rest[j]
        <4>1. /\ j \in 1..Len(rest)
              /\ j \in 1..Len(list) /\ j + 1 \in 1..Len(list)
          BY <1>1, <1>2, <2>1, <3>3
        <4> QED
          BY <1>2, <2>1, <3>3, <4>1
      <3> QED
        BY <3>4, <3>5
    <2>4. CASE ~(k <= Len(list))
      <3>1. k \notin DOMAIN list
        BY <1>1, <2>4
      <3>2. left = list
        BY <1>5, <2>2, <3>1
      <3>3. Len(list) = HistoryLimit /\ Len(rest) >= HistoryLimit
        <4>1. k \in Int /\ k <= Len(recent) /\ Len(rest) = Len(recent) - 1
          BY <2>1
        <4> QED
          BY <1>6, <2>4, <4>1
      <3>4. ASSUME NEW j \in 1..Len(left)
            PROVE  j \in 1..Len(rest) /\ left[j].id = rest[j]
        <4>1. j \in 1..Len(rest) /\ j \in 1..Len(list) /\ j < k
          BY <1>1, <2>1, <2>4, <3>2, <3>3
        <4> QED
          BY <1>2, <2>1, <3>2, <4>1
      <3>5. Len(left) >= HistoryLimit - 1 /\ Len(rest) >= HistoryLimit - 1
        BY <1>1, <2>1, <3>2, <3>3
      <3> QED
        BY <3>4, <3>5
    <2> QED
      BY <2>3, <2>4
  <1>9. Same
    BY <1>4, <1>7, <1>8
  <1> QED
    BY <1>9 DEF rest, left

\* upsertHistoryEntry cuts at every update what one cut would have kept.
LEMMA Refiled ==
  ASSUME NEW recent \in Seq(Executions), Once(recent),
         NEW list \in Seq(Entries), Ids(list) = Cut(recent),
         NEW e \in Executions, NEW s \in ExecutionStatuses
  PROVE  LET rest == Filtered(recent, {i \in DOMAIN recent : recent[i] # e})
             new == Upsert(list, Entry(e, s))
         IN  /\ new \in Seq(Entries)
             /\ Len(new) <= HistoryLimit
             /\ Ids(new) = Cut(<<e>> \o rest)
             /\ \A i \in DOMAIN new :
                  new[i] = Entry(e, s) \/ \E j \in DOMAIN list : new[i] = list[j]
  <1> DEFINE rest == Filtered(recent, {i \in DOMAIN recent : recent[i] # e})
             left == Filtered(list, {i \in DOMAIN list : list[i].id # e})
             new == Cut(<<Entry(e, s)>> \o left)
  <1>1. HistoryLimit \in Nat /\ HistoryLimit >= 1
    BY HistoryAssumption
  <1>2. Entry(e, s) \in Entries /\ Entry(e, s).id = e
    BY DEF Entry, Entries
  <1>3. /\ left \in Seq(Entries)
        /\ \A i \in 1..Len(left) : \E j \in DOMAIN list : left[i] = list[j]
    <2>1. Once(Ids(list))
      <3>1. Once(Cut(recent))
        BY CutOnce
      <3> QED
        BY <3>1
    <2>2. left \in Seq(Entries)
      BY <2>1, EntryTakenOut
    <2>3. left \in Seq({list[j] : j \in DOMAIN list})
      <3>1. \A j \in {i \in DOMAIN list : list[i].id # e} : list[j] \in {list[i] : i \in DOMAIN list}
        OBVIOUS
      <3> QED
        BY <3>1, FilteredSeq
    <2> HIDE DEF left
    <2>4. \A i \in 1..Len(left) : left[i] \in {list[j] : j \in DOMAIN list}
      BY <2>3, ElementOfSeq
    <2> QED
      BY <2>2, <2>4
  <1>4. rest \in Seq(Executions)
    BY TakenOut
  <1>5. /\ \/ Len(left) = Len(rest)
           \/ Len(left) >= HistoryLimit - 1 /\ Len(rest) >= HistoryLimit - 1
        /\ \A j \in 1..Len(left) :
             j <= HistoryLimit - 1 => j \in 1..Len(rest) /\ left[j].id = rest[j]
    BY SameRest
  <1>6. new = Upsert(list, Entry(e, s))
    BY <1>2 DEF Upsert
  <1> HIDE DEF rest, left
  <1>7. /\ <<Entry(e, s)>> \o left \in Seq(Entries)
        /\ Len(<<Entry(e, s)>> \o left) = Len(left) + 1
        /\ (<<Entry(e, s)>> \o left)[1] = Entry(e, s)
        /\ \A i \in 2..(Len(left) + 1) : (<<Entry(e, s)>> \o left)[i] = left[i - 1]
    BY <1>2, <1>3, InFront
  <1>8. /\ <<e>> \o rest \in Seq(Executions)
        /\ Len(<<e>> \o rest) = Len(rest) + 1
        /\ (<<e>> \o rest)[1] = e
        /\ \A i \in 2..(Len(rest) + 1) : (<<e>> \o rest)[i] = rest[i - 1]
    BY <1>4, InFront
  <1>9. Len(left) \in Nat /\ Len(rest) \in Nat
    BY <1>3, <1>4, LenProperties
  <1> DEFINE before == <<Entry(e, s)>> \o left
             filed == <<e>> \o rest
  <1> HIDE DEF before, filed
  <1>10. /\ new \in Seq(Entries)
         /\ Len(new) = IF Len(before) < HistoryLimit THEN Len(before) ELSE HistoryLimit
         /\ \A i \in 1..Len(new) : new[i] = before[i]
    BY <1>7, CutFacts DEF before
  <1>11. /\ Cut(filed) \in Seq(Executions)
         /\ Len(Cut(filed)) = IF Len(filed) < HistoryLimit THEN Len(filed) ELSE HistoryLimit
         /\ \A i \in 1..Len(Cut(filed)) : Cut(filed)[i] = filed[i]
    BY <1>8, CutFacts DEF filed
  <1> HIDE DEF new
  <1>12. Len(before) = Len(left) + 1 /\ Len(filed) = Len(rest) + 1
    BY <1>7, <1>8 DEF before, filed
  <1>13. Len(new) = Len(Cut(filed)) /\ Len(new) <= HistoryLimit /\ Len(new) \in Nat
    BY <1>1, <1>5, <1>9, <1>10, <1>11, <1>12
  <1>14. new[1] = Entry(e, s) /\ Cut(filed)[1] = e
    <2>1. before[1] = Entry(e, s) /\ filed[1] = e
      BY <1>7, <1>8 DEF before, filed
    <2>2. 1 \in 1..Len(new) /\ 1 \in 1..Len(Cut(filed))
      BY <1>1, <1>9, <1>10, <1>11, <1>12
    <2> QED
      BY <1>10, <1>11, <2>1, <2>2
  <1>15. ASSUME NEW i \in 2..Len(new)
         PROVE  /\ i - 1 \in 1..Len(left)
                /\ new[i] = left[i - 1]
                /\ Cut(filed)[i] = left[i - 1].id
    <2>1. /\ i - 1 \in 1..Len(left) /\ i - 1 <= HistoryLimit - 1
          /\ i \in 1..Len(new) /\ i \in 2..(Len(left) + 1)
      BY <1>1, <1>9, <1>10, <1>12, <1>13
    <2>2. i - 1 \in 1..Len(rest) /\ left[i - 1].id = rest[i - 1]
      BY <1>5, <2>1
    <2>3. i \in 2..(Len(rest) + 1) /\ i \in 1..Len(Cut(filed))
      BY <1>9, <1>13, <2>1, <2>2
    <2> QED
      BY <1>7, <1>8, <1>10, <1>11, <2>1, <2>2, <2>3 DEF before, filed
  <1>16. \A i \in 1..Len(new) : i = 1 \/ i \in 2..Len(new)
    BY <1>13
  <1>17. Ids(new) = Cut(filed)
    <2>1. ASSUME NEW i \in 1..Len(new)
          PROVE  Ids(new)[i] = Cut(filed)[i]
      <3>1. Ids(new)[i] = new[i].id
        BY <1>10, IdsFacts
      <3>2. CASE i = 1
        BY <1>2, <1>14, <3>1, <3>2
      <3>3. CASE i \in 2..Len(new)
        BY <1>15, <3>1, <3>3
      <3> QED
        BY <1>16, <3>2, <3>3
    <2> QED
      BY <1>10, <1>11, <1>13, <2>1, IdsFacts, SeqEqual
  <1>18. \A i \in DOMAIN new :
           new[i] = Entry(e, s) \/ \E j \in DOMAIN list : new[i] = list[j]
    <2>1. ASSUME NEW i \in 1..Len(new)
          PROVE  new[i] = Entry(e, s) \/ \E j \in DOMAIN list : new[i] = list[j]
      <3>1. CASE i = 1
        BY <1>14, <3>1
      <3>2. CASE i \in 2..Len(new)
        <4>1. i - 1 \in 1..Len(left) /\ new[i] = left[i - 1]
          BY <1>15, <3>2
        <4>2. \E j \in DOMAIN list : left[i - 1] = list[j]
          BY <1>3, <4>1
        <4> QED
          BY <4>1, <4>2
      <3> QED
        BY <1>16, <3>1, <3>2
    <2>2. DOMAIN new = 1..Len(new)
      BY <1>10, LenProperties
    <2> QED
      BY <2>1, <2>2
  <1> QED
    BY <1>6, <1>10, <1>13, <1>17, <1>18 DEF rest, filed

-----------------------------------------------------------------------------
(* The storage                                                             *)

\* The outcomes a list tells of are ones the executions had.
Truthful(list) ==
  \A i \in DOMAIN list :
    list[i].status \in Outcomes => list[i].status \in answers[list[i].id]

\* What is listed is the beginning of what was filed; what is stored can be
\* listed after a reload, and is what is listed after this page stored it.
Listed ==
  /\ entries \in Seq(Entries)
  /\ recency \in Seq(Executions)
  /\ Once(recency)
  /\ Ids(entries) = Cut(recency)
  /\ Truthful(entries)
  /\ WellFormed(storage)
  /\ Truthful(storage)
  /\ ours => storage = entries

\* The inductive invariant.
ListInv == RunnerInv /\ Listed


\* A beginning of a list names a beginning of its executions.
LEMMA CutIds ==
  ASSUME NEW list \in Seq(Entries)
  PROVE  Ids(Cut(list)) = Cut(Ids(list))
  <1>1. /\ Ids(list) \in Seq(Executions)
        /\ Len(Ids(list)) = Len(list)
        /\ \A i \in 1..Len(list) : Ids(list)[i] = list[i].id
    BY IdsFacts
  <1>2. /\ Cut(list) \in Seq(Entries)
        /\ Len(Cut(list)) = IF Len(list) < HistoryLimit THEN Len(list) ELSE HistoryLimit
        /\ \A i \in 1..Len(Cut(list)) : Cut(list)[i] = list[i]
    BY CutFacts
  <1>3. /\ Cut(Ids(list)) \in Seq(Executions)
        /\ Len(Cut(Ids(list))) = Len(Cut(list))
        /\ \A i \in 1..Len(Cut(list)) : Cut(Ids(list))[i] = Ids(list)[i]
    BY <1>1, <1>2, CutFacts
  <1>4. /\ Ids(Cut(list)) \in Seq(Executions)
        /\ Len(Ids(Cut(list))) = Len(Cut(list))
        /\ \A i \in 1..Len(Cut(list)) : Ids(Cut(list))[i] = Cut(list)[i].id
    BY <1>2, IdsFacts
  <1>5. Len(list) \in Nat /\ HistoryLimit \in Nat
    BY LenProperties, HistoryAssumption
  <1>6. \A i \in 1..Len(Cut(list)) : i \in 1..Len(list)
    BY <1>2, <1>5
  <1>7. \A i \in 1..Len(Cut(list)) : Ids(Cut(list))[i] = Cut(Ids(list))[i]
    BY <1>1, <1>2, <1>3, <1>4, <1>6
  <1> QED
    BY <1>3, <1>4, <1>7, SeqEqual

\* Junk is no entry, and no outcome.
LEMMA JunkFacts == Junk \notin Entries /\ Junk.status \notin Outcomes
  BY RunnerAssumption DEF Junk, Entry, Entries, TerminalStatuses

\* What is read is the entries stored, none of them twice.
LEMMA ReadFacts ==
  ASSUME NEW list, WellFormed(list), Truthful(list)
  PROVE  /\ Readable(list) \in Seq(Entries)
         /\ Once(Ids(Readable(list)))
         /\ Truthful(Readable(list))
  <1> DEFINE kept == {i \in DOMAIN list : IsRunHistoryEntry(list[i])}
  <1>1. /\ list \in Seq(Entries \cup {Junk})
        /\ \A i \in kept : list[i] \in Entries
        /\ \A i, j \in kept : list[i].id = list[j].id => i = j
    BY ElementOfSeq, LenProperties DEF WellFormed, IsRunHistoryEntry
  <1>2. kept \in SUBSET (DOMAIN list)
    OBVIOUS
  <1> HIDE DEF kept
  <1>3. PICK position \in [1..Cardinality(kept) -> kept] :
          /\ Cardinality(kept) \in Nat
          /\ Filtered(list, kept) = [m \in 1..Cardinality(kept) |-> list[position[m]]]
          /\ \A i, j \in 1..Cardinality(kept) : i # j => position[i] # position[j]
    BY <1>1, <1>2, FilteredFacts
  <1>4. Readable(list) = Filtered(list, kept)
    BY DEF Readable, kept
  <1>5. Readable(list) \in Seq(Entries)
    BY <1>1, <1>2, <1>4, FilteredSeq
  <1>6. /\ DOMAIN Readable(list) = 1..Cardinality(kept)
        /\ \A m \in 1..Cardinality(kept) :
             position[m] \in kept /\ Readable(list)[m] = list[position[m]]
    BY <1>3, <1>4
  <1>7. Once(Ids(Readable(list)))
    <2>1. /\ DOMAIN Ids(Readable(list)) = 1..Cardinality(kept)
          /\ \A m \in 1..Cardinality(kept) : Ids(Readable(list))[m] = list[position[m]].id
      BY <1>6 DEF Ids
    <2> QED
      BY <1>1, <1>3, <1>6, <2>1 DEF Once
  <1>8. Truthful(Readable(list))
    BY <1>2, <1>6 DEF Truthful
  <1> QED
    BY <1>5, <1>7, <1>8

\* What is listed after a reload is the beginning of what is read.
LEMMA LoadFacts ==
  ASSUME NEW list, WellFormed(list), Truthful(list)
  PROVE  /\ Load(list) \in Seq(Entries)
         /\ Ids(Load(list)) = Cut(Ids(Readable(list)))
         /\ Truthful(Load(list))
  <1>1. Readable(list) \in Seq(Entries) /\ Truthful(Readable(list))
    BY ReadFacts
  <1>2. /\ Load(list) \in Seq(Entries)
        /\ Ids(Load(list)) = Cut(Ids(Readable(list)))
    BY <1>1, CutFacts, CutIds DEF Load
  <1>3. /\ Len(Load(list)) <= Len(Readable(list))
        /\ \A i \in 1..Len(Load(list)) : Load(list)[i] = Readable(list)[i]
        /\ Len(Readable(list)) \in Nat /\ DOMAIN Readable(list) = 1..Len(Readable(list))
    BY <1>1, CutFacts, LenProperties, HistoryAssumption DEF Load
  <1>4. Len(Load(list)) \in Nat /\ DOMAIN Load(list) = 1..Len(Load(list))
    BY <1>2, LenProperties
  <1>5. \A i \in DOMAIN Load(list) :
          i \in DOMAIN Readable(list) /\ Load(list)[i] = Readable(list)[i]
    BY <1>3, <1>4
  <1>6. Truthful(Load(list))
    BY <1>1, <1>5 DEF Truthful
  <1> QED
    BY <1>2, <1>6

\* A list that this page stored is read as it was.
LEMMA LoadOwn ==
  ASSUME NEW list \in Seq(Entries), Len(list) <= HistoryLimit
  PROVE  Load(list) = list
  <1>1. \A i \in DOMAIN list : list[i] \in Entries
    BY ElementOfSeq, LenProperties
  <1>2. {i \in DOMAIN list : IsRunHistoryEntry(list[i])} = DOMAIN list
    BY <1>1, JunkFacts DEF IsRunHistoryEntry
  <1>3. Readable(list) = list
    BY <1>2, FilteredAll DEF Readable
  <1> QED
    BY <1>3, CutShort DEF Load

\* A list of entries can be stored.
LEMMA Storable ==
  ASSUME NEW list \in Seq(Entries), Once(Ids(list))
  PROVE  WellFormed(list)
  <1>1. list \in Seq(Entries \cup {Junk})
    BY ElementOfSeq, LenProperties, SeqDef
  <1>2. /\ DOMAIN list = 1..Len(list) /\ DOMAIN Ids(list) = 1..Len(list)
        /\ \A i \in 1..Len(list) : Ids(list)[i] = list[i].id
    BY IdsFacts, LenProperties
  <1> QED
    BY <1>1, <1>2 DEF WellFormed, Once

\* The list shown fits, and names no execution twice.
LEMMA ListShape ==
  ASSUME NEW list \in Seq(Entries), NEW recent \in Seq(Executions), Once(recent),
         Ids(list) = Cut(recent)
  PROVE  Len(list) <= HistoryLimit /\ Once(Ids(list))
  <1>1. Len(Ids(list)) = Len(list)
    BY IdsFacts
  <1>2. Len(Cut(recent)) <= HistoryLimit
    BY CutFacts, LenProperties, HistoryAssumption
  <1> QED
    BY <1>1, <1>2, CutOnce


-----------------------------------------------------------------------------
(* Steps                                                                   *)

\* A step of the hook with its list is one of the hook.
LEMMA HookStep == [RunNext]_runVars => [Next]_vars
  <1>1. ASSUME RunNext
        PROVE  Next \/ UNCHANGED vars
    <2>1. ASSUME NEW e \in Executions, Begin(e)
          PROVE  Next
      BY <2>1 DEF Begin, Next, User
    <2>2. CASE FileStreamEvent
      BY <2>2 DEF FileStreamEvent, Next, Stream
    <2>3. ASSUME NEW l \in Loops, FilePollAnswer(l)
          PROVE  Next
      BY <2>3 DEF FilePollAnswer, Next, Polling
    <2>4. CASE Clear \/ LoadPage
      BY <2>4 DEF Clear, LoadPage, Next, User
    <2>5. CASE OtherTabSaves
      BY <2>5 DEF OtherTabSaves
    <2>6. CASE Elsewhere
      BY <2>6 DEF Elsewhere, Next, User, Stream, Polling
    <2> QED
      BY <1>1, <2>1, <2>2, <2>3, <2>4, <2>5, <2>6 DEF RunNext
  <1>2. UNCHANGED runVars => UNCHANGED vars
    BY DEF runVars
  <1> QED
    BY <1>1, <1>2

\* An outcome that a record has had stays one it has had.
LEMMA AnswersKept ==
  ASSUME TypeOK, [Next]_vars, NEW e \in Executions
  PROVE  answers[e] \subseteq answers'[e]
  <1>1. ASSUME NEW f \in Executions, NEW s \in Outcomes, Store(f, s)
        PROVE  answers[e] \subseteq answers'[e]
    BY <1>1 DEF Store, TypeOK
  <1>2. CASE UNCHANGED answers
    BY <1>2
  <1> QED
    BY <1>1, <1>2
    DEF Next, User, Server, Stream, Polling, Expire, ServeStatus, ServeUnavailable,
        AnswerPoll, RunExecution, SubmitRejected, SubmitAccepted, WatchExecution,
        StopWatching, ClearHistory, Reload, StreamOpens, StreamEvent,
        StreamBreaks, StreamEnds, PollAnswered, PollFails, TimerFires, vars,
        serverVars, FallBack

\* So a list that told the truth goes on to.
LEMMA StillTruthful ==
  ASSUME TypeOK, [Next]_vars, NEW list \in Seq(Entries \cup {Junk}), Truthful(list)
  PROVE  \A i \in DOMAIN list :
           list[i].status \in Outcomes => list[i].status \in answers'[list[i].id]
  <1> SUFFICES ASSUME NEW i \in DOMAIN list, list[i].status \in Outcomes
               PROVE  list[i].status \in answers'[list[i].id]
    OBVIOUS
  <1>1. list[i] \in Entries
    BY JunkFacts, ElementOfSeq, LenProperties
  <1>2. list[i].id \in Executions
    BY <1>1 DEF Entries
  <1> QED
    BY <1>2, AnswersKept DEF Truthful

\* Storing a list leaves in the storage that list or what was there.
LEMMA Saved ==
  ASSUME Listed, TypeOK, [Next]_vars, NEW list \in Seq(Entries),
         Len(list) <= HistoryLimit, Once(Ids(list)),
         \A i \in DOMAIN list :
           list[i].status \in Outcomes => list[i].status \in answers'[list[i].id],
         Save(list)
  PROVE  /\ entries' = list
         /\ Truthful(entries)'
         /\ WellFormed(storage)'
         /\ Truthful(storage)'
         /\ ours' => storage' = entries'
  <1>1. entries' = list /\ Cut(list) = list
    BY CutShort DEF Save
  <1>2. Truthful(entries)'
    BY <1>1 DEF Truthful
  <1>3. CASE full
    <2>1. storage' = storage /\ ~ours'
      BY <1>3 DEF Save
    <2>2. storage \in Seq(Entries \cup {Junk})
      BY DEF Listed, WellFormed
    <2>3. \A i \in DOMAIN storage :
            storage[i].status \in Outcomes => storage[i].status \in answers'[storage[i].id]
      BY <2>2, StillTruthful DEF Listed
    <2>4. WellFormed(storage)' /\ Truthful(storage)'
      BY <2>1, <2>3 DEF Listed, WellFormed, Truthful
    <2> QED
      BY <1>1, <1>2, <2>1, <2>4
  <1>4. CASE ~full
    <2>1. storage' = list
      BY <1>1, <1>4 DEF Save
    <2>2. WellFormed(list)
      BY Storable
    <2>3. WellFormed(storage)' /\ Truthful(storage)'
      BY <2>1, <2>2 DEF WellFormed, Truthful
    <2> QED
      BY <1>1, <1>2, <2>1, <2>3
  <1> QED
    BY <1>3, <1>4

\* Filing a status that an execution had keeps the list what it is.
LEMMA FileStep ==
  ASSUME Listed, TypeOK, [Next]_vars, NEW e \in Executions, NEW s \in ExecutionStatuses,
         s \in Outcomes => s \in answers'[e],
         File(e, s)
  PROVE  Listed'
  <1> DEFINE new == Upsert(entries, Entry(e, s))
             recent == <<e>> \o Filtered(recency, {i \in DOMAIN recency : recency[i] # e})
  <1>1. /\ new \in Seq(Entries)
        /\ Len(new) <= HistoryLimit
        /\ Ids(new) = Cut(recent)
        /\ \A i \in DOMAIN new :
             new[i] = Entry(e, s) \/ \E j \in DOMAIN entries : new[i] = entries[j]
    BY Refiled DEF Listed
  <1>2. recent \in Seq(Executions) /\ Once(recent)
    BY FiledOnce DEF Listed
  <1>3. recency' = recent /\ Save(new)
    BY DEF File
  <1> HIDE DEF new, recent
  <1>4. Once(Ids(new))
    BY <1>1, <1>2, ListShape
  <1>5. entries \in Seq(Entries \cup {Junk})
    BY ElementOfSeq, LenProperties, SeqDef DEF Listed
  <1>6. \A j \in DOMAIN entries :
          entries[j].status \in Outcomes => entries[j].status \in answers'[entries[j].id]
    BY <1>5, StillTruthful DEF Listed
  <1>7. Entry(e, s).id = e /\ Entry(e, s).status = s
    BY DEF Entry
  <1>8. \A i \in DOMAIN new :
          new[i].status \in Outcomes => new[i].status \in answers'[new[i].id]
    BY <1>1, <1>6, <1>7
  <1>9. /\ entries' = new
        /\ Truthful(entries)'
        /\ WellFormed(storage)'
        /\ Truthful(storage)'
        /\ ours' => storage' = entries'
    BY <1>1, <1>3, <1>4, <1>8, Saved
  <1>10. /\ entries' \in Seq(Entries) /\ recency' \in Seq(Executions)
         /\ Once(recency)'
         /\ Ids(entries)' = Cut(recency)'
    BY <1>1, <1>2, <1>3, <1>9 DEF Once, Ids, Cut
  <1> QED
    BY <1>9, <1>10 DEF Listed

\* A page that is loaded lists what is stored.
LEMMA LoadStep ==
  ASSUME Listed, UNCHANGED answers, LoadPage
  PROVE  Listed'
  <1>1. /\ entries' = Load(storage) /\ recency' = Ids(Readable(storage))
        /\ storage' = storage /\ ours' = ours
    BY DEF LoadPage
  <1>2. /\ Load(storage) \in Seq(Entries)
        /\ Ids(Load(storage)) = Cut(Ids(Readable(storage)))
        /\ Truthful(Load(storage))
    BY LoadFacts DEF Listed
  <1>3. Ids(Readable(storage)) \in Seq(Executions) /\ Once(Ids(Readable(storage)))
    BY ReadFacts, IdsFacts DEF Listed
  <1>4. ours => Load(storage) = storage
    BY ListShape, LoadOwn DEF Listed
  <1>5. /\ entries' \in Seq(Entries) /\ recency' \in Seq(Executions)
        /\ Once(recency)'
        /\ Ids(entries)' = Cut(recency)'
    BY <1>1, <1>2, <1>3 DEF Once, Ids, Cut
  <1>6. Truthful(entries)'
    BY <1>1, <1>2 DEF Truthful
  <1>7. WellFormed(storage)' /\ Truthful(storage)' /\ (ours' => storage' = entries')
    BY <1>1, <1>4 DEF Listed, WellFormed, Truthful
  <1> QED
    BY <1>5, <1>6, <1>7 DEF Listed

\* What files nothing leaves the lists, and what another tab stores is a list
\* of its own.
LEMMA OtherStep ==
  ASSUME Listed, TypeOK, [Next]_vars,
         UNCHANGED <<entries, recency>>,
         \/ UNCHANGED <<storage, ours>>
         \/ WellFormed(storage') /\ ~ours'
            /\ \A i \in DOMAIN storage' : storage'[i].status \in Outcomes =>
                 storage'[i].status \in answers'[storage'[i].id]
  PROVE  Listed'
  <1>1. entries \in Seq(Entries \cup {Junk}) /\ storage \in Seq(Entries \cup {Junk})
    BY ElementOfSeq, LenProperties, SeqDef DEF Listed, WellFormed
  <1>2. /\ \A i \in DOMAIN entries :
             entries[i].status \in Outcomes => entries[i].status \in answers'[entries[i].id]
        /\ \A i \in DOMAIN storage :
             storage[i].status \in Outcomes => storage[i].status \in answers'[storage[i].id]
    BY <1>1, StillTruthful DEF Listed
  <1>3. Truthful(entries)'
    BY <1>2 DEF Truthful
  <1>4. WellFormed(storage)' /\ Truthful(storage)' /\ (ours' => storage' = entries')
    BY <1>2 DEF Listed, WellFormed, Truthful
  <1> QED
    BY <1>3, <1>4 DEF Listed, Once, Ids, Cut

\* Every step keeps what is listed and what is stored in step.
LEMMA ListedStep ==
  ASSUME RunnerInv, Listed, [RunNext]_runVars
  PROVE  Listed'
  <1>1. TypeOK /\ Known /\ Reported /\ [Next]_vars
    BY HookStep DEF RunnerInv
  <1>2. ASSUME NEW e \in Executions, Begin(e)
        PROVE  Listed'
    <2>1. "queued" \in ExecutionStatuses /\ "queued" \notin Outcomes
      BY OutcomeFacts DEF ExecutionStatuses
    <2> QED
      BY <1>1, <1>2, <2>1, FileStep DEF Begin
  <1>3. CASE FileStreamEvent
    <2>1. /\ source.id \in Executions /\ source.event \in ExecutionStatuses
          /\ source.event \in Outcomes => source.event \in answers'[source.id]
          /\ File(source.id, source.event)
      BY <1>1, <1>3
      DEF FileStreamEvent, StreamEvent, TypeOK, Source, Reported, serverVars
    <2> QED
      BY <1>1, <2>1, FileStep
  <1>4. ASSUME NEW l \in Loops, FilePollAnswer(l)
        PROVE  Listed'
    <2>1. /\ loop[l].id \in Executions /\ loop[l].answer \in ExecutionStatuses
          /\ loop[l].answer \in Outcomes => loop[l].answer \in answers'[loop[l].id]
          /\ File(loop[l].id, loop[l].answer)
      BY <1>1, <1>4
      DEF FilePollAnswer, PollAnswered, TypeOK, LoopState, Known, Reported,
          ExecutionStatuses, serverVars
    <2> QED
      BY <1>1, <2>1, FileStep
  <1>5. CASE Clear
    <2>1. /\ <<>> \in Seq(Entries) /\ Len(<<>>) <= HistoryLimit /\ DOMAIN <<>> = {}
          /\ <<>> \in Seq(Executions)
      BY HistoryAssumption
    <2>2. Once(Ids(<<>>)) /\ Once(<<>>) /\ Ids(<<>>) = <<>>
      BY <2>1 DEF Once, Ids
    <2>3. Cut(<<>>) = <<>>
      BY <2>1, CutShort
    <2>4. /\ entries' = <<>>
          /\ Truthful(entries)'
          /\ WellFormed(storage)'
          /\ Truthful(storage)'
          /\ ours' => storage' = entries'
      BY <1>1, <1>5, <2>1, <2>2, Saved DEF Clear
    <2>5. recency' = <<>>
      BY <1>5 DEF Clear
    <2>6. Once(recency)' /\ Ids(entries)' = Cut(recency)'
      BY <2>2, <2>3, <2>4, <2>5 DEF Once, Ids, Cut
    <2> QED
      BY <2>1, <2>4, <2>5, <2>6 DEF Listed
  <1>6. CASE LoadPage
    BY <1>6, LoadStep DEF LoadPage, Reload, serverVars
  <1>7. CASE OtherTabSaves
    <2>1. WellFormed(storage') /\ ~ours' /\ UNCHANGED <<entries, recency, answers, issued>>
      BY <1>7, HistoryAssumption DEF OtherTabSaves, vars, serverVars
    <2>2. \A i \in DOMAIN storage' : storage'[i].status \in Outcomes =>
            storage'[i].status \in answers'[storage'[i].id]
      BY <1>7, <2>1, JunkFacts DEF OtherTabSaves, StoredTruly, IsRunHistoryEntry
    <2> QED
      BY <1>1, <2>1, <2>2, OtherStep
  <1>8. CASE Elsewhere \/ UNCHANGED runVars
    <2>1. UNCHANGED <<entries, recency, storage, ours>>
      BY <1>8 DEF Elsewhere, runVars, listVars
    <2> QED
      BY <1>1, <2>1, OtherStep
  <1> QED
    BY <1>2, <1>3, <1>4, <1>5, <1>6, <1>7, <1>8 DEF RunNext

\* A page loaded for the first time lists what earlier visits stored.
LEMMA ListedInit == RunInit => Listed
  <1> SUFFICES ASSUME RunInit
               PROVE  Listed
    OBVIOUS
  <1>1. WellFormed(storage)
    BY HistoryAssumption DEF RunInit
  <1>2. Truthful(storage)
    BY JunkFacts DEF RunInit, StoredTruly, IsRunHistoryEntry, Truthful
  <1>3. /\ Load(storage) \in Seq(Entries)
        /\ Ids(Load(storage)) = Cut(Ids(Readable(storage)))
        /\ Truthful(Load(storage))
    BY <1>1, <1>2, LoadFacts
  <1>4. Ids(Readable(storage)) \in Seq(Executions) /\ Once(Ids(Readable(storage)))
    BY <1>1, <1>2, ReadFacts, IdsFacts
  <1> QED
    BY <1>1, <1>2, <1>3, <1>4 DEF RunInit, Listed

-----------------------------------------------------------------------------
(* Theorems                                                                *)

\* The hook with its list of runs is still the hook: filing, storing and reading
\* the list do nothing to the rest that ExecutionRunner does not say, so that
\* what is proved of Spec holds of it too (updateHistoryForExecution and
\* persistHistory have no other effect).
THEOREM ListOnlyListens == RunSpec => Spec
  <1>1. RunInit => Init
    BY DEF RunInit
  <1> QED
    BY <1>1, HookStep, PTL DEF RunSpec, Spec

\* What is listed is the beginning of all that was filed, what is stored can be
\* listed in its place, and neither tells of an outcome that was none.
THEOREM ListInvariance == RunSpec => []ListInv
  <1>1. RunInit => Listed
    BY ListedInit
  <1>2. RunnerInv /\ Listed /\ [RunNext]_runVars => Listed'
    BY ListedStep
  <1>3. RunSpec => []RunnerInv
    BY ListOnlyListens, RunnerInvariance, PTL
  <1>4. RunnerInv /\ Listed => ListInv
    BY DEF ListInv
  <1> QED
    BY <1>1, <1>2, <1>3, <1>4, PTL DEF RunSpec

\* Cutting the list at every update, and again at every load, loses nothing
\* that cutting it once would keep, for every limit and however often an
\* execution is filed again (upsertHistoryEntry, saveRunHistory and
\* loadRunHistory, storage.ts:22-57); and no outcome is listed that its
\* execution did not have.
THEOREM RecentRunsAreListed == RunSpec => []RecentRuns
  <1>1. ListInv => RecentRuns
    BY DEF ListInv, Listed, Truthful, RecentRuns
  <1> QED
    BY <1>1, ListInvariance, PTL

\* A reload shows the list that was shown when this page stored it, whatever
\* other tabs and earlier visits left in the storage before.
THEOREM ReloadShowsTheList == RunSpec => []ShownIsStored
  <1>1. ASSUME Listed
        PROVE  ShownIsStored
    <2>1. Len(entries) <= HistoryLimit
      BY <1>1, ListShape DEF Listed
    <2>2. Load(entries) = entries
      BY <1>1, <2>1, LoadOwn DEF Listed
    <2> QED
      BY <1>1, <2>2 DEF Listed, ShownIsStored
  <1>2. ListInv => ShownIsStored
    BY <1>1 DEF ListInv
  <1> QED
    BY <1>2, ListInvariance, PTL

=============================================================================
