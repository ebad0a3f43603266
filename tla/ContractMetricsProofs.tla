----------------------- MODULE ContractMetricsProofs -----------------------
(***************************************************************************)
(* What the metrics of a DAO are to each other, for DAOs, policies and     *)
(* pages of any size.                                                      *)
(***************************************************************************)
EXTENDS ContractMetrics, SequenceTheorems, SumTheorems

-----------------------------------------------------------------------------
(* The order of the metrics                                                *)

\* The sixteen metrics, and which of them read the proposals and the NFTs.
LEMMA OrderFacts ==
    /\ Len(Order) = 16 /\ DOMAIN Order = 1 .. 16
    /\ \A j \in 1 .. 16 : Order[j] \in Metrics /\ ListOf(Order[j]) \in Lists
    /\ \A i, j \in 1 .. 16 : Order[i] = Order[j] => i = j
    /\ \A j \in 1 .. 16 : ListOf(Order[j]) = "proposals" <=> j \in 4 .. 13
    /\ \A j \in 1 .. 16 : ListOf(Order[j]) = "nfts" <=> j = 16
<1>1. Len(Order) = 16 /\ DOMAIN Order = 1 .. 16
  BY DEF Order
<1>2. \A j \in 1 .. 16 : Order[j] \in Metrics
  BY <1>1 DEF Metrics, ToSet
<1>3. \A j \in 1 .. 16 : ListOf(Order[j]) \in Lists
  BY DEF ListOf, Lists
<1>4. \A i, j \in 1 .. 16 : Order[i] = Order[j] => i = j
  BY SMTT(60) DEF Order
<1>5. \A j \in 1 .. 16 : ListOf(Order[j]) = "proposals" <=> j \in 4 .. 13
  BY SMTT(60) DEF Order, ListOf
<1>6. \A j \in 1 .. 16 : ListOf(Order[j]) = "nfts" <=> j = 16
  BY SMTT(60) DEF Order, ListOf
<1> QED
  BY <1>1, <1>2, <1>3, <1>4, <1>5, <1>6

-----------------------------------------------------------------------------
(* Pages                                                                   *)

\* The first of several pages take a multiple of what a page holds.
LEMMA Multiples ==
    ASSUME NEW n \in Nat
    PROVE  /\ ChunkSize \in Nat /\ ChunkSize > 0 /\ n * ChunkSize \in Nat
           /\ (n + 1) * ChunkSize = n * ChunkSize + ChunkSize
<1>1. ChunkSize \in Nat /\ ChunkSize > 0
  BY ConstantsAssumption
<1> QED
  BY <1>1

\* How many pages a list has.
LEMMA PageNumbers ==
    ASSUME NEW length \in Nat
    PROVE  LET all == length \div ChunkSize + 1
               some == (length + ChunkSize - 1) \div ChunkSize
           IN  /\ all \in Nat \ {0} /\ (all - 1) * ChunkSize <= length /\ length < all * ChunkSize
               /\ some \in Nat /\ length <= some * ChunkSize
               /\ IF some = 0 THEN length = 0 ELSE (some - 1) * ChunkSize < length
<1>1. ChunkSize \in Nat /\ ChunkSize > 0
  BY ConstantsAssumption
<1>2. ASSUME NEW a \in Nat
      PROVE  /\ a \div ChunkSize \in Nat
             /\ (a \div ChunkSize) * ChunkSize <= a
             /\ a < (a \div ChunkSize) * ChunkSize + ChunkSize
  BY <1>1
<1> DEFINE q == length \div ChunkSize
           r == (length + ChunkSize - 1) \div ChunkSize
<1>3. /\ q \in Nat /\ q * ChunkSize <= length /\ length < q * ChunkSize + ChunkSize
  BY <1>2
<1>4. /\ r \in Nat /\ r * ChunkSize <= length + ChunkSize - 1
      /\ length + ChunkSize - 1 < r * ChunkSize + ChunkSize
  BY <1>1, <1>2
<1> HIDE DEF q, r
<1>5. /\ q + 1 \in Nat \ {0} /\ (q + 1) - 1 = q /\ (q + 1) * ChunkSize = q * ChunkSize + ChunkSize
  BY <1>3, Multiples
<1>6. r # 0 => (r - 1) * ChunkSize = r * ChunkSize - ChunkSize
  <2> SUFFICES ASSUME r # 0 PROVE (r - 1) * ChunkSize = r * ChunkSize - ChunkSize
    OBVIOUS
  <2>1. r - 1 \in Nat /\ (r - 1) + 1 = r
    BY <1>4
  <2>2. ((r - 1) + 1) * ChunkSize = (r - 1) * ChunkSize + ChunkSize /\ (r - 1) * ChunkSize \in Nat
    BY <2>1, Multiples
  <2> QED
    BY <1>1, <2>1, <2>2
<1>7. r * ChunkSize \in Nat /\ q * ChunkSize \in Nat /\ (r = 0 => r * ChunkSize = 0)
  BY <1>1, <1>3, <1>4, Multiples
<1>8. (q + 1) - 1 = q /\ q * ChunkSize <= length /\ length < (q + 1) * ChunkSize
  BY <1>3, <1>5
<1>9. length <= r * ChunkSize /\ (r # 0 => (r - 1) * ChunkSize < length) /\ (r = 0 => length = 0)
  BY <1>1, <1>4, <1>6, <1>7
<1> QED
  BY <1>3, <1>4, <1>5, <1>8, <1>9 DEF q, r

\* A list that is made of the first of some pages.
Joined(list, parts, m) ==
    /\ Len(list) = (m - 1) * ChunkSize + Len(parts[m])
    /\ \A i \in DOMAIN list : \E k \in 1 .. m : \E j \in DOMAIN parts[k] :
          i = (k - 1) * ChunkSize + j /\ list[i] = parts[k][j]

\* After full pages, one more begins at a multiple of what a page holds.
LEMMA JoinPage ==
    ASSUME NEW S, NEW parts \in Seq(Seq(S)), NEW m \in Nat, m # 0, m + 1 <= Len(parts),
           NEW list \in Seq(S), Joined(list, parts, m), Len(parts[m]) = ChunkSize
    PROVE  Joined(list \o parts[m + 1], parts, m + 1)
<1> DEFINE page == parts[m + 1]
           after == list \o page
<1>1. page \in Seq(S) /\ Len(page) \in Nat /\ Len(list) \in Nat /\ m - 1 \in Nat
  BY LenProperties
<1>2. Len(list) = m * ChunkSize
  <2>1. ((m - 1) + 1) * ChunkSize = (m - 1) * ChunkSize + ChunkSize /\ (m - 1) + 1 = m
    BY <1>1, Multiples
  <2> QED
    BY <2>1 DEF Joined
<1>3. /\ after \in Seq(S) /\ Len(after) = Len(list) + Len(page) /\ DOMAIN after = 1 .. Len(after)
      /\ \A i \in 1 .. Len(list) + Len(page) :
            after[i] = IF i <= Len(list) THEN list[i] ELSE page[i - Len(list)]
  BY <1>1, ConcatProperties, LenProperties
<1>4. DOMAIN list = 1 .. Len(list) /\ DOMAIN page = 1 .. Len(page)
  BY <1>1, LenProperties
<1> HIDE DEF after, page
<1>5. ASSUME NEW i \in DOMAIN after
      PROVE  \E k \in 1 .. m + 1 : \E j \in DOMAIN parts[k] :
                i = (k - 1) * ChunkSize + j /\ after[i] = parts[k][j]
  <2>1. i \in 1 .. Len(list) + Len(page)
    BY <1>3
  <2>2. CASE i <= Len(list)
    <3>1. i \in DOMAIN list /\ after[i] = list[i]
      BY <1>1, <1>3, <1>4, <2>1, <2>2
    <3>2. PICK k \in 1 .. m : \E j \in DOMAIN parts[k] :
               i = (k - 1) * ChunkSize + j /\ list[i] = parts[k][j]
      BY <3>1 DEF Joined
    <3>3. k \in 1 .. m + 1
      OBVIOUS
    <3> QED
      BY <3>1, <3>2, <3>3
  <2>3. CASE ~ (i <= Len(list))
    <3> DEFINE j == i - Len(list)
    <3>1. j \in 1 .. Len(page) /\ after[i] = page[j] /\ i = Len(list) + j
      <4>1. j \in 1 .. Len(page) /\ i = Len(list) + j
        BY <1>1, <2>1, <2>3
      <4>2. after[i] = page[j]
        BY <1>3, <2>1, <2>3
      <4> QED
        BY <4>1, <4>2
    <3>2. j \in DOMAIN parts[m + 1] /\ after[i] = parts[m + 1][j]
      BY <1>4, <3>1 DEF page
    <3>3. m + 1 \in 1 .. m + 1 /\ (m + 1) - 1 = m /\ i = m * ChunkSize + j
      <4>1. Len(list) = m * ChunkSize
        BY <1>2
      <4>2. m + 1 \in 1 .. m + 1 /\ (m + 1) - 1 = m
        OBVIOUS
      <4> HIDE DEF j
      <4> QED
        BY <3>1, <4>1, <4>2
    <3> HIDE DEF j
    <3> QED
      BY <3>2, <3>3
  <2> QED
    BY <2>2, <2>3
<1>6. Len(after) = ((m + 1) - 1) * ChunkSize + Len(parts[m + 1])
  BY <1>2, <1>3 DEF page
<1> QED
  BY <1>5, <1>6 DEF Joined, after, page

\* Pages of which all but the last are full make one list, in which the entries of a
\* page begin at a multiple of what a page holds.
LEMMA Flattened ==
    ASSUME NEW S, NEW parts \in Seq(Seq(S)), parts # <<>>,
           \A k \in 1 .. Len(parts) - 1 : Len(parts[k]) = ChunkSize
    PROVE  FlattenSeq(parts) \in Seq(S) /\ Joined(FlattenSeq(parts), parts, Len(parts))
<1> DEFINE n == Len(parts)
           Longer(g, i) == IF i = 1 THEN parts[i] ELSE g[i - 1] \o parts[i]
           IsOf(g, m) == g = [i \in 1 .. m |-> Longer(g, i)]
           G == {m \in Nat : \E g : IsOf(g, m)}
<1>1. n \in Nat /\ n # 0 /\ \A k \in 1 .. n : parts[k] \in Seq(S)
  BY EmptySeq
<1>2. 0 \in G
  <2>1. IsOf([i \in 1 .. 0 |-> <<>>], 0)
    OBVIOUS
  <2> QED
    BY <2>1
<1>3. ASSUME NEW m \in Nat, m \in G PROVE m + 1 \in G
  <2>1. PICK g : IsOf(g, m)
    BY <1>3
  <2> DEFINE h == [i \in 1 .. m + 1 |-> Longer(g, i)]
             h2 == [i \in 1 .. m + 1 |-> Longer(h, i)]
  <2>2. \A i \in 1 .. m : h[i] = g[i]
    <3>1. \A i \in 1 .. m : i \in 1 .. m + 1
      OBVIOUS
    <3> QED
      BY <2>1, <3>1
  <2>3. \A i \in 1 .. m + 1 : h[i] = h2[i]
    <3>1. \A i \in 1 .. m + 1 : i # 1 => i - 1 \in 1 .. m
      OBVIOUS
    <3> QED
      BY <2>2, <3>1
  <2>4. IsOf(h, m + 1)
    BY <2>3
  <2> HIDE DEF h, IsOf
  <2> QED
    BY <2>4
<1>4. \E g : IsOf(g, n)
  <2> HIDE DEF IsOf
  <2>1. Nat \subseteq G
    <3> HIDE DEF G
    <3> QED
      BY <1>2, <1>3, NaturalInduction
  <2> QED
    BY <1>1, <2>1
<1> DEFINE flatten == CHOOSE g : IsOf(g, n)
<1>5. IsOf(flatten, n)
  <2> HIDE DEF IsOf
  <2> QED
    BY <1>4
<1>6. FlattenSeq(parts) = flatten[n]
  BY <1>1 DEF FlattenSeq
<1> HIDE DEF flatten
<1> DEFINE Good(m) == flatten[m] \in Seq(S) /\ Joined(flatten[m], parts, m)
           H == {m \in Nat : m + 1 <= n => Good(m + 1)}
<1>7. 0 \in H
  <2>1. flatten[1] = parts[1] /\ parts[1] \in Seq(S)
    BY <1>1, <1>5
  <2>2. (1 - 1) * ChunkSize = 0 /\ Len(parts[1]) \in Nat
    <3>1. ChunkSize \in Nat /\ 1 - 1 = 0
      BY ConstantsAssumption
    <3>2. (1 - 1) * ChunkSize = 0
      BY <3>1
    <3>3. Len(parts[1]) \in Nat
      BY <2>1, LenProperties
    <3> QED
      BY <3>2, <3>3
  <2>3. Len(flatten[1]) = (1 - 1) * ChunkSize + Len(parts[1])
    BY <2>1, <2>2
  <2>4. ASSUME NEW i \in DOMAIN flatten[1]
        PROVE  i \in DOMAIN parts[1] /\ i = (1 - 1) * ChunkSize + i /\ flatten[1][i] = parts[1][i]
    BY <2>1, <2>2, <2>4
  <2>5. 0 + 1 = 1 /\ 1 \in 1 .. 1
    OBVIOUS
  <2>6. Good(1)
    BY <2>1, <2>3, <2>4, <2>5 DEF Joined
  <2> HIDE DEF Good
  <2> QED
    BY <2>5, <2>6
<1>8. ASSUME NEW m \in Nat, m \in H PROVE m + 1 \in H
  <2> SUFFICES ASSUME (m + 1) + 1 <= n PROVE Good((m + 1) + 1)
    OBVIOUS
  <2> DEFINE k == m + 1
  <2>1. /\ k \in Nat /\ k # 0 /\ k + 1 <= Len(parts) /\ k \in 1 .. Len(parts) - 1
        /\ flatten[k] \in Seq(S) /\ Joined(flatten[k], parts, k)
    BY <1>1, <1>8
  <2> HIDE DEF k
  <2>2. flatten[k + 1] = flatten[k] \o parts[k + 1]
    <3>1. k + 1 \in 1 .. n /\ k + 1 # 1 /\ (k + 1) - 1 = k
      BY <1>1, <2>1
    <3> QED
      BY <1>5, <3>1
  <2>3. Joined(flatten[k] \o parts[k + 1], parts, k + 1)
    BY <2>1, JoinPage
  <2>4. flatten[k] \o parts[k + 1] \in Seq(S)
    BY <1>1, <2>1, ConcatProperties
  <2> QED
    BY <2>2, <2>3, <2>4 DEF k
<1>9. n - 1 \in H /\ (n - 1) + 1 = n
  <2>1. Nat \subseteq H
    <3> HIDE DEF H
    <3> QED
      BY <1>7, <1>8, NaturalInduction
  <2> HIDE DEF H
  <2> QED
    BY <1>1, <2>1
<1>10. Good(n)
  <2> HIDE DEF Good
  <2> QED
    BY <1>1, <1>9
<1> QED
  BY <1>6, <1>10

-----------------------------------------------------------------------------
(* What was read so far                                                    *)

Entries(l) ==
    CASE l = "proposals" -> Proposal
      [] l = "bounties"  -> Amounts
      [] l = "nfts"      -> Tokens

Slots(l) == {<<>>} \cup {<<page>> : page \in Seq(Entries(l))}

\* A proposal, and the same at the same time or later: a decision stays.
Later(p, q) == q.kind = p.kind /\ (p.status # "InProgress" => q.status = p.status)

Extends(ps, qs) == Len(ps) <= Len(qs) /\ \A i \in 1 .. Len(ps) : Later(ps[i], qs[i])

\* The pages that were read of a list that now is `list` and was `lo` at least and `hi`
\* at most.
LengthsOK(l, list, n, lo, hi) ==
    /\ lo \in Nat /\ hi \in Nat /\ lo <= Len(list) /\ Len(list) <= hi
    /\ l = "nfts" => n # 0 /\ (n - 1) * ChunkSize <= hi
    /\ l # "nfts" => IF n = 0 THEN lo = 0 ELSE (n - 1) * ChunkSize <= lo /\ lo <= n * ChunkSize

PageOK(page, k, n, lo, hi) ==
    /\ k # n => Len(page) = ChunkSize
    /\ k = n => lo <= (n - 1) * ChunkSize + Len(page) /\ (n - 1) * ChunkSize + Len(page) <= hi

FromList(page, k, list) ==
    \A j \in DOMAIN page :
        /\ (k - 1) * ChunkSize + j \in 1 .. Len(list)
        /\ Later(page[j], list[(k - 1) * ChunkSize + j])

ReadSoFar(l, list, parts, lo, hi) ==
    /\ parts \in Seq(Slots(l))
    /\ LengthsOK(l, list, Len(parts), lo, hi)
    /\ \A k \in 1 .. Len(parts) :
          /\ l = "nfts" /\ k # Len(parts) => parts[k] # <<>>
          /\ parts[k] # <<>> => /\ PageOK(parts[k][1], k, Len(parts), lo, hi)
                                /\ l = "proposals" => FromList(parts[k][1], k, list)

\* The places in `st` held one entry each since the read began: the list is at least that
\* long, and a page that was read has the entry where the list has it.
SteadyRead(l, list, parts, lo, st) ==
    /\ st \subseteq 1 .. lo
    /\ \A k \in 1 .. Len(parts) : parts[k] # <<>> =>
          \A j \in DOMAIN parts[k][1] :
             (k - 1) * ChunkSize + j \in st =>
                SameEntry(l, parts[k][1][j], list[(k - 1) * ChunkSize + j])

\* An entry is itself, also by way of a third.
LEMMA SameEntries ==
    /\ \A l, a : SameEntry(l, a, a)
    /\ \A l, a, b, c : SameEntry(l, a, b) /\ SameEntry(l, b, c) => SameEntry(l, a, c)
BY DEF SameEntry

\* What an answer holds.
LEMMA PageFacts ==
    ASSUME NEW S, NEW list \in Seq(S), NEW from \in Nat
    PROVE  /\ Page(list, from) \in Seq(S)
           /\ Len(Page(list, from)) = IF from + ChunkSize <= Len(list) THEN ChunkSize
                                      ELSE IF from <= Len(list) THEN Len(list) - from ELSE 0
           /\ \A j \in 1 .. Len(Page(list, from)) :
                 from + j \in 1 .. Len(list) /\ Page(list, from)[j] = list[from + j]
<1>1. ChunkSize \in Nat /\ ChunkSize > 0 /\ Len(list) \in Nat
  BY ConstantsAssumption, LenProperties
<1> DEFINE to == IF from + ChunkSize < Len(list) THEN from + ChunkSize ELSE Len(list)
<1>2. to \in Int /\ from + 1 \in Int /\ to <= Len(list)
  BY <1>1
<1>3. Page(list, from) = SubSeq(list, from + 1, to)
  BY DEF Page
<1>4. \A i \in from + 1 .. to : i \in 1 .. Len(list) /\ list[i] \in S
  BY <1>1, <1>2, ElementOfSeq
<1>5. to - (from + 1) + 1 = to - from /\ (from + 1 <= to <=> from < to)
  BY <1>1, <1>2
<1>6. /\ to - from = IF from + ChunkSize <= Len(list) THEN ChunkSize ELSE Len(list) - from
      /\ from < to => from < Len(list)
      /\ ~ (from < to) => Len(list) <= from /\ ~ (from + ChunkSize <= Len(list))
  BY <1>1
<1> HIDE DEF to
<1>7. /\ SubSeq(list, from + 1, to) \in Seq(S)
      /\ Len(SubSeq(list, from + 1, to)) = IF from + 1 <= to THEN to - (from + 1) + 1 ELSE 0
      /\ \A i \in 1 .. to - (from + 1) + 1 :
            SubSeq(list, from + 1, to)[i] = list[(from + 1) + i - 1]
  BY <1>2, <1>4, SubSeqProperties
<1>8. Len(Page(list, from)) = IF from < to THEN to - from ELSE 0
  BY <1>3, <1>5, <1>7
<1>9. ASSUME NEW j \in 1 .. Len(Page(list, from))
      PROVE  from + j \in 1 .. Len(list) /\ Page(list, from)[j] = list[from + j]
  <2>1. from < to /\ j \in 1 .. to - from
    BY <1>2, <1>8
  <2>2. from + j \in from + 1 .. to /\ (from + 1) + j - 1 = from + j
    BY <1>2, <2>1
  <2> QED
    BY <1>3, <1>4, <1>5, <1>7, <2>1, <2>2
<1>10. Len(Page(list, from)) = IF from + ChunkSize <= Len(list) THEN ChunkSize
                               ELSE IF from <= Len(list) THEN Len(list) - from ELSE 0
  BY <1>1, <1>2, <1>6, <1>8
<1> QED
  BY <1>3, <1>7, <1>9, <1>10

\* What a slot holds.
LEMMA SlotFacts ==
    ASSUME NEW l, NEW slot \in Slots(l)
    PROVE  slot # <<>> => slot[1] \in Seq(Entries(l)) /\ slot = <<slot[1]>>
BY DEF Slots

\* The page an answer adds.
LEMMA PageRead ==
    ASSUME NEW l \in Lists \ {"groups"}, NEW list \in Seq(Entries(l)), NEW parts, NEW lo, NEW hi,
           ReadSoFar(l, list, parts, lo, hi),
           NEW st, SteadyRead(l, list, parts, lo, st),
           NEW number \in 1 .. Len(parts), parts[number] = <<>>
    PROVE  LET page == Page(list, (number - 1) * ChunkSize)
               read == [parts EXCEPT ![number] = <<page>>]
               after == IF l = "nfts" /\ Len(page) = ChunkSize THEN Append(read, <<>>) ELSE read
           IN  /\ page \in Seq(Entries(l))
               /\ ReadSoFar(l, list, after, lo, hi)
               /\ SteadyRead(l, list, after, lo, st)
<1> DEFINE n == Len(parts)
           from == (number - 1) * ChunkSize
           page == Page(list, from)
           read == [parts EXCEPT ![number] = <<page>>]
           after == IF l = "nfts" /\ Len(page) = ChunkSize THEN Append(read, <<>>) ELSE read
<1>1. /\ ChunkSize \in Nat /\ ChunkSize > 0 /\ Len(list) \in Nat /\ n \in Nat /\ n # 0
      /\ parts \in Seq(Slots(l)) /\ LengthsOK(l, list, n, lo, hi) /\ number \in Nat /\ number - 1 \in Nat
      /\ lo \in Nat /\ hi \in Nat /\ n - 1 \in Nat /\ lo <= Len(list) /\ Len(list) <= hi
  BY ConstantsAssumption, LenProperties DEF ReadSoFar, LengthsOK
<1>2. from \in Nat
  BY <1>1, Multiples
<1> HIDE DEF from
<1>3. /\ page \in Seq(Entries(l))
      /\ Len(page) = IF from + ChunkSize <= Len(list) THEN ChunkSize
                     ELSE IF from <= Len(list) THEN Len(list) - from ELSE 0
      /\ \A j \in 1 .. Len(page) : from + j \in 1 .. Len(list) /\ page[j] = list[from + j]
      /\ Len(page) \in Nat /\ DOMAIN page = 1 .. Len(page)
  <2>1. /\ page \in Seq(Entries(l))
        /\ Len(page) = IF from + ChunkSize <= Len(list) THEN ChunkSize
                       ELSE IF from <= Len(list) THEN Len(list) - from ELSE 0
        /\ \A j \in 1 .. Len(page) : from + j \in 1 .. Len(list) /\ page[j] = list[from + j]
    BY <1>2, PageFacts
  <2> HIDE DEF page
  <2>2. Len(page) \in Nat /\ DOMAIN page = 1 .. Len(page)
    BY <2>1, LenProperties
  <2> QED
    BY <2>1, <2>2
<1> HIDE DEF page
<1>4. <<page>> \in Slots(l) /\ <<page>> # <<>> /\ <<page>>[1] = page
  BY <1>3 DEF Slots
<1>5. /\ read \in Seq(Slots(l)) /\ Len(read) = n
      /\ \A k \in 1 .. n : read[k] = IF k = number THEN <<page>> ELSE parts[k]
  BY <1>1, <1>4, ExceptSeq
<1> HIDE DEF read
<1>6. l = "proposals" => FromList(page, number, list)
  BY <1>3 DEF FromList, from, Later
<1>12. ASSUME NEW k \in 1 .. n, read[k] # <<>>, NEW j \in DOMAIN read[k][1],
              (k - 1) * ChunkSize + j \in st
       PROVE  SameEntry(l, read[k][1][j], list[(k - 1) * ChunkSize + j])
  <2>1. CASE k = number
    <3>1. read[k][1] = page /\ j \in 1 .. Len(page)
      BY <1>3, <1>4, <1>5, <1>12, <2>1
    <3>2. page[j] = list[from + j]
      BY <1>3, <3>1
    <3> QED
      BY <2>1, <3>1, <3>2, SameEntries DEF from
  <2>2. CASE k # number
    <3>1. read[k] = parts[k]
      BY <1>5, <2>2
    <3> QED
      BY <1>12, <3>1 DEF SteadyRead
  <2> QED
    BY <2>1, <2>2
<1>13. st \subseteq 1 .. lo
  BY DEF SteadyRead
<1>7. l = "nfts" => number = n
  BY <1>1 DEF ReadSoFar
<1>8. number # n /\ l # "nfts" => Len(page) = ChunkSize
  <2> SUFFICES ASSUME number # n, l # "nfts" PROVE Len(page) = ChunkSize
    OBVIOUS
  <2>1. number * ChunkSize = from + ChunkSize
    BY <1>1, Multiples DEF from
  <2>2. number * ChunkSize <= (n - 1) * ChunkSize
    <3>1. n - 1 - number \in Nat /\ number <= n - 1
      BY <1>1
    <3> QED
      BY <1>1, <3>1, SMTT(30)
  <2>3. (n - 1) * ChunkSize <= lo /\ (n - 1) * ChunkSize \in Nat
    BY <1>1, Multiples DEF LengthsOK
  <2>4. from + ChunkSize <= Len(list)
    BY <1>1, <1>2, <2>1, <2>2, <2>3
  <2> QED
    BY <1>3, <2>4
<1>9. (number = n /\ ~ (l = "nfts" /\ Len(page) = ChunkSize))
      => lo <= from + Len(page) /\ from + Len(page) <= hi
  <2> SUFFICES ASSUME number = n, ~ (l = "nfts" /\ Len(page) = ChunkSize)
               PROVE  lo <= from + Len(page) /\ from + Len(page) <= hi
    OBVIOUS
  <2>1. n * ChunkSize = from + ChunkSize
    BY <1>1, Multiples DEF from
  <2>2. from <= hi /\ (l # "nfts" => from <= lo /\ lo <= n * ChunkSize)
    BY <1>1, <1>2 DEF LengthsOK, from
  <2>3. CASE from + ChunkSize <= Len(list)
    BY <1>1, <1>2, <1>3, <2>1, <2>2, <2>3
  <2>4. CASE ~ (from + ChunkSize <= Len(list)) /\ from <= Len(list)
    BY <1>1, <1>2, <1>3, <2>4
  <2>5. CASE ~ (from <= Len(list))
    <3>1. Len(page) = 0
      BY <1>1, <1>2, <1>3, <2>5
    <3> QED
      BY <1>1, <1>2, <2>2, <2>5, <3>1
  <2> QED
    BY <2>3, <2>4, <2>5
<1>10. CASE l = "nfts" /\ Len(page) = ChunkSize
  <2>1. number = n /\ after = Append(read, <<>>)
    BY <1>7, <1>10
  <2>2. /\ Append(read, <<>>) \in Seq(Slots(l)) /\ Len(Append(read, <<>>)) = n + 1
        /\ Append(read, <<>>)[n + 1] = <<>>
        /\ \A k \in 1 .. n : Append(read, <<>>)[k] = read[k]
    <3>1. <<>> \in Slots(l)
      BY DEF Slots
    <3> QED
      BY <1>1, <1>5, <3>1
  <2>3. LengthsOK(l, list, n + 1, lo, hi)
    <3>1. n * ChunkSize = from + ChunkSize /\ (n + 1) - 1 = n
      BY <1>1, <2>1, Multiples DEF from
    <3>2. from + ChunkSize <= Len(list)
      BY <1>1, <1>2, <1>3, <1>10
    <3>3. n + 1 # 0
      BY <1>1
    <3> QED
      BY <1>1, <1>2, <1>10, <3>1, <3>2, <3>3 DEF LengthsOK
  <2>4. ASSUME NEW k \in 1 .. n + 1
        PROVE  LET parts2 == Append(read, <<>>)
               IN  /\ k # n + 1 => parts2[k] # <<>>
                   /\ parts2[k] # <<>> => PageOK(parts2[k][1], k, n + 1, lo, hi)
    <3>1. CASE k = n + 1
      BY <2>2, <3>1
    <3>2. CASE k # n + 1
      <4>1. k \in 1 .. n /\ Append(read, <<>>)[k] = IF k = n THEN <<page>> ELSE parts[k]
        BY <1>1, <1>5, <2>1, <2>2, <3>2
      <4>2. k # n => parts[k] # <<>> /\ PageOK(parts[k][1], k, n, lo, hi)
        BY <1>10, <4>1 DEF ReadSoFar
      <4>3. k # n => Len(parts[k][1]) = ChunkSize
        BY <4>2 DEF PageOK
      <4> QED
        BY <1>4, <1>10, <3>2, <4>1, <4>2, <4>3 DEF PageOK
    <3> QED
      BY <3>1, <3>2
  <2> HIDE DEF after
  <2>5. ReadSoFar(l, list, Append(read, <<>>), lo, hi)
    <3>1. l # "proposals"
      BY <1>10
    <3> QED
      BY <2>2, <2>3, <2>4, <3>1 DEF ReadSoFar
  <2>6. SteadyRead(l, list, Append(read, <<>>), lo, st)
    <3> DEFINE longer == Append(read, <<>>)
    <3>1. ASSUME NEW k \in 1 .. Len(longer), longer[k] # <<>>, NEW j \in DOMAIN longer[k][1],
                 (k - 1) * ChunkSize + j \in st
          PROVE  SameEntry(l, longer[k][1][j], list[(k - 1) * ChunkSize + j])
      <4>1. k # n + 1
        BY <2>2, <3>1
      <4>2. k \in 1 .. n
        BY <1>1, <2>2, <4>1
      <4>3. longer[k] = read[k]
        BY <2>2, <4>2
      <4> HIDE DEF longer
      <4> QED
        BY <1>12, <3>1, <4>2, <4>3
    <3> HIDE DEF longer
    <3> QED
      BY <1>13, <3>1 DEF SteadyRead, longer
  <2> QED
    BY <1>3, <2>1, <2>5, <2>6 DEF after, page, read, from
<1>11. CASE ~ (l = "nfts" /\ Len(page) = ChunkSize)
  <2>1. after = read
    BY <1>11
  <2>2. ASSUME NEW k \in 1 .. n
        PROVE  /\ l = "nfts" /\ k # n => read[k] # <<>>
               /\ read[k] # <<>> => /\ PageOK(read[k][1], k, n, lo, hi)
                                    /\ l = "proposals" => FromList(read[k][1], k, list)
    <3>1. CASE k = number
      <4>1. PageOK(page, k, n, lo, hi)
        BY <1>7, <1>8, <1>9, <1>11, <3>1 DEF PageOK, from
      <4> QED
        BY <1>4, <1>5, <1>6, <1>7, <3>1, <4>1
    <3>2. CASE k # number
      <4>1. read[k] = parts[k]
        BY <1>5, <3>2
      <4> QED
        BY <4>1 DEF ReadSoFar
    <3> QED
      BY <3>1, <3>2
  <2> HIDE DEF after
  <2>3. ReadSoFar(l, list, read, lo, hi)
    BY <1>1, <1>5, <2>2 DEF ReadSoFar
  <2>4. SteadyRead(l, list, read, lo, st)
    BY <1>5, <1>12, <1>13 DEF SteadyRead
  <2> QED
    BY <1>3, <2>1, <2>3, <2>4 DEF after, page, read, from
<1> QED
  BY <1>10, <1>11

\* Before the first answer.
LEMMA NothingRead ==
    ASSUME NEW l \in Lists \ {"groups"}, Fetch(l) \in Seq(Entries(l))
    PROVE  LET empty == [page \in 1 .. Pages(l) |-> <<>>]
           IN  /\ ReadSoFar(l, Fetch(l), empty, Len(Fetch(l)), Len(Fetch(l)))
               /\ SteadyRead(l, Fetch(l), empty, Len(Fetch(l)), DOMAIN Fetch(l))
<1> DEFINE n == Pages(l)
           list == Fetch(l)
           length == Len(list)
           parts == [page \in 1 .. n |-> <<>>]
<1>1. length \in Nat /\ ChunkSize \in Nat /\ ChunkSize > 0
  BY ConstantsAssumption, LenProperties
<1> DEFINE all == length \div ChunkSize + 1
           some == (length + ChunkSize - 1) \div ChunkSize
<1>2. l \in {"proposals", "bounties", "nfts"}
  BY DEF Lists
<1>3. Pages(l) = CASE l = "proposals" -> all [] l = "bounties" -> some [] l = "nfts" -> 1
  BY DEF Pages
<1> HIDE DEF length
<1>4. /\ all \in Nat \ {0} /\ (all - 1) * ChunkSize <= length /\ length < all * ChunkSize
      /\ some \in Nat /\ length <= some * ChunkSize
      /\ IF some = 0 THEN length = 0 ELSE (some - 1) * ChunkSize < length
  BY <1>1, PageNumbers
<1> HIDE DEF all, some
<1>5. all * ChunkSize \in Nat /\ some * ChunkSize \in Nat /\ all - 1 \in Nat /\ (all - 1) * ChunkSize \in Nat
      /\ (some # 0 => some - 1 \in Nat /\ (some - 1) * ChunkSize \in Nat)
  <2>1. all - 1 \in Nat /\ (some # 0 => some - 1 \in Nat)
    BY <1>4
  <2> QED
    BY <1>4, <2>1, Multiples
<1>6. n \in Nat /\ LengthsOK(l, list, n, length, length)
  <2>1. CASE l = "proposals"
    <3>1. n = all
      BY <1>3, <2>1
    <3> HIDE DEF n
    <3>2. length <= all * ChunkSize /\ all # 0
      BY <1>1, <1>4, <1>5
    <3> QED
      BY <1>1, <1>4, <2>1, <3>1, <3>2 DEF LengthsOK, length
  <2>2. CASE l = "bounties"
    <3>1. n = some
      BY <1>3, <2>2
    <3> HIDE DEF n
    <3>2. some # 0 => (some - 1) * ChunkSize <= length
      BY <1>1, <1>4, <1>5
    <3> QED
      BY <1>1, <1>4, <2>2, <3>1, <3>2 DEF LengthsOK, length
  <2>3. CASE l = "nfts"
    <3>1. n = 1
      BY <1>3, <2>3
    <3> HIDE DEF n
    <3>2. (1 - 1) * ChunkSize = 0
      BY <1>1
    <3> QED
      BY <1>1, <2>3, <3>1, <3>2 DEF LengthsOK, length
  <2> QED
    BY <1>2, <2>1, <2>2, <2>3
<1> HIDE DEF n
<1>7. /\ parts \in Seq(Slots(l)) /\ Len(parts) = n
      /\ \A k \in 1 .. n : parts[k] = <<>>
  <2>1. <<>> \in Slots(l)
    BY DEF Slots
  <2> QED
    BY <1>6, <2>1
<1>8. l = "nfts" => \A k \in 1 .. n : k = n
  BY <1>3 DEF n
<1> HIDE DEF parts
<1>9. ReadSoFar(l, list, parts, length, length)
  BY <1>6, <1>7, <1>8 DEF ReadSoFar
<1>10. DOMAIN list = 1 .. length
  BY LenProperties DEF length
<1>11. SteadyRead(l, list, parts, length, DOMAIN list)
  BY <1>7, <1>10 DEF SteadyRead
<1> QED
  BY <1>9, <1>11 DEF parts, length, n

\* A list is a later state of itself,
LEMMA ExtendsSame ==
    \A ps \in Seq(Proposal) : Extends(ps, ps)
BY LenProperties DEF Extends, Later

\* and of what a state before it is a later state of.
LEMMA ExtendsTransitive ==
    ASSUME NEW ps \in Seq(Proposal), NEW qs \in Seq(Proposal), NEW rs \in Seq(Proposal),
           Extends(ps, qs), Extends(qs, rs)
    PROVE  Extends(ps, rs)
<1>1. Len(ps) \in Nat /\ Len(qs) \in Nat /\ Len(rs) \in Nat /\ Len(ps) <= Len(qs) /\ Len(qs) <= Len(rs)
  BY LenProperties DEF Extends
<1>2. ASSUME NEW i \in 1 .. Len(ps) PROVE Later(ps[i], rs[i])
  <2>1. i \in 1 .. Len(qs)
    BY <1>1
  <2>2. Later(ps[i], qs[i]) /\ Later(qs[i], rs[i])
    BY <2>1 DEF Extends
  <2> QED
    BY <2>2 DEF Later
<1> QED
  BY <1>1, <1>2 DEF Extends

\* The list changes while it is read.
LEMMA ListChanged ==
    ASSUME NEW l \in Lists \ {"groups"}, NEW list \in Seq(Entries(l)), NEW after \in Seq(Entries(l)),
           NEW parts, NEW lo, NEW hi, ReadSoFar(l, list, parts, lo, hi),
           l # "nfts" => Len(list) <= Len(after),
           l = "proposals" => Extends(list, after)
    PROVE  /\ ReadSoFar(l, after, parts, IF Len(after) < lo THEN Len(after) ELSE lo,
                                         IF Len(after) > hi THEN Len(after) ELSE hi)
           /\ l # "nfts" => ~ (Len(after) < lo)
<1> DEFINE low == IF Len(after) < lo THEN Len(after) ELSE lo
           high == IF Len(after) > hi THEN Len(after) ELSE hi
           n == Len(parts)
<1>1. /\ Len(list) \in Nat /\ Len(after) \in Nat /\ parts \in Seq(Slots(l)) /\ n \in Nat
      /\ lo \in Nat /\ hi \in Nat /\ lo <= Len(list) /\ Len(list) <= hi
      /\ LengthsOK(l, list, n, lo, hi)
      /\ ChunkSize \in Nat /\ ChunkSize > 0 /\ n \in Nat
  BY ConstantsAssumption, LenProperties DEF ReadSoFar, LengthsOK
<1>2. /\ low \in Nat /\ high \in Nat /\ low <= lo /\ hi <= high
      /\ low <= Len(after) /\ Len(after) <= high
      /\ (l # "nfts" => low = lo /\ ~ (Len(after) < lo))
  BY <1>1
<1> HIDE DEF low, high
<1>3. LengthsOK(l, after, n, low, high)
  <2>1. n # 0 => (n - 1) * ChunkSize \in Nat
    BY <1>1, Multiples
  <2>2. l = "nfts" => n # 0 /\ (n - 1) * ChunkSize <= high
    BY <1>1, <1>2, <2>1 DEF LengthsOK
  <2>3. l # "nfts" => IF n = 0 THEN low = 0 ELSE (n - 1) * ChunkSize <= low /\ low <= n * ChunkSize
    BY <1>1, <1>2 DEF LengthsOK
  <2> HIDE DEF n
  <2> QED
    BY <1>2, <2>2, <2>3 DEF LengthsOK
<1>4. ASSUME NEW k \in 1 .. n, parts[k] # <<>>
      PROVE  PageOK(parts[k][1], k, n, low, high) /\ (l = "proposals" => FromList(parts[k][1], k, after))
  <2> DEFINE page == parts[k][1]
  <2>1. PageOK(page, k, n, lo, hi) /\ (l = "proposals" => FromList(page, k, list))
    BY <1>4 DEF ReadSoFar
  <2>2. page \in Seq(Entries(l)) /\ Len(page) \in Nat /\ DOMAIN page = 1 .. Len(page)
    <3>1. parts[k] \in Slots(l)
      BY <1>1, ElementOfSeq
    <3>2. page \in Seq(Entries(l))
      BY <1>4, <3>1, SlotFacts
    <3> QED
      BY <3>2, LenProperties
  <2> HIDE DEF page
  <2>3. PageOK(page, k, n, low, high)
    <3>1. (n - 1) * ChunkSize \in Nat
      <4>1. n - 1 \in Nat
        BY <1>1, <1>4
      <4> QED
        BY <4>1, Multiples, Zenon
    <3> DEFINE start == (n - 1) * ChunkSize
    <3>2. (lo <= start + Len(page) /\ start + Len(page) <= hi)
          => (low <= start + Len(page) /\ start + Len(page) <= high)
      <4>1. start \in Nat
        BY <3>1
      <4> HIDE DEF start
      <4> QED
        BY <1>1, <1>2, <2>2, <4>1
    <3> QED
      BY <2>1, <3>2 DEF PageOK
  <2>4. l = "proposals" => FromList(page, k, after)
    <3> SUFFICES ASSUME l = "proposals", NEW j \in DOMAIN page
                 PROVE  /\ (k - 1) * ChunkSize + j \in 1 .. Len(after)
                        /\ Later(page[j], after[(k - 1) * ChunkSize + j])
      BY DEF FromList
    <3> DEFINE i == (k - 1) * ChunkSize + j
    <3>1. i \in 1 .. Len(list) /\ Later(page[j], list[i])
      BY <2>1 DEF FromList
    <3> HIDE DEF i
    <3>2. Len(list) <= Len(after) /\ Later(list[i], after[i])
      BY <3>1 DEF Extends
    <3>3. i \in 1 .. Len(after)
      BY <1>1, <3>1, <3>2
    <3>4. Later(page[j], after[i])
      BY <3>1, <3>2 DEF Later
    <3> QED
      BY <3>3, <3>4 DEF i
  <2> QED
    BY <2>3, <2>4 DEF page
<1>5. ReadSoFar(l, after, parts, low, high)
  BY <1>1, <1>3, <1>4 DEF ReadSoFar
<1> QED
  BY <1>2, <1>5 DEF low, high

\* and so do the places that held one entry.
LEMMA SteadyChanged ==
    ASSUME NEW l, NEW list, NEW after, NEW parts, NEW lo \in Nat, NEW length \in Nat,
           DOMAIN after = 1 .. length, NEW st, NEW less, SteadyRead(l, list, parts, lo, st),
           \A i \in less : i \in st /\ i \in DOMAIN after /\ SameEntry(l, list[i], after[i])
    PROVE  SteadyRead(l, after, parts, IF length < lo THEN length ELSE lo, less)
<1>1. less \subseteq 1 .. (IF length < lo THEN length ELSE lo)
  BY DEF SteadyRead
<1>2. ASSUME NEW k \in 1 .. Len(parts), parts[k] # <<>>, NEW j \in DOMAIN parts[k][1],
             (k - 1) * ChunkSize + j \in less
      PROVE  SameEntry(l, parts[k][1][j], after[(k - 1) * ChunkSize + j])
  <2> DEFINE i == (k - 1) * ChunkSize + j
  <2>1. i \in st /\ SameEntry(l, list[i], after[i])
    BY <1>2
  <2>2. SameEntry(l, parts[k][1][j], list[i])
    BY <1>2, <2>1 DEF SteadyRead
  <2> HIDE DEF i
  <2>3. SameEntry(l, parts[k][1][j], after[i])
    BY <2>1, <2>2, SameEntries
  <2> QED
    BY <2>3 DEF i
<1> QED
  BY <1>1, <1>2 DEF SteadyRead

\* An older list, of which the pages that were read are a later state.
OldRead(old, parts, lo) ==
    /\ Len(old) <= lo
    /\ \A k \in 1 .. Len(parts) : parts[k] # <<>> =>
          \A j \in DOMAIN parts[k][1] :
             (k - 1) * ChunkSize + j <= Len(old) =>
                Later(old[(k - 1) * ChunkSize + j], parts[k][1][j])

\* All pages are there.
LEMMA ReadFinished ==
    ASSUME NEW l \in Lists \ {"groups"}, NEW list \in Seq(Entries(l)), NEW parts, NEW lo, NEW hi,
           ReadSoFar(l, list, parts, lo, hi), \A k \in DOMAIN parts : parts[k] # <<>>,
           NEW st, SteadyRead(l, list, parts, lo, st)
    PROVE  LET whole == FlattenSeq([k \in DOMAIN parts |-> parts[k][1]])
           IN  /\ whole \in Seq(Entries(l))
               /\ lo <= Len(whole) /\ Len(whole) <= hi
               /\ \A i \in st : i \in DOMAIN whole /\ SameEntry(l, whole[i], list[i])
               /\ l = "proposals" =>
                     /\ Extends(whole, list)
                     /\ \A old \in Seq(Proposal) : OldRead(old, parts, lo) => Extends(old, whole)
<1> DEFINE n == Len(parts)
           contents == [k \in DOMAIN parts |-> parts[k][1]]
           whole == FlattenSeq(contents)
<1>1. /\ ChunkSize \in Nat /\ ChunkSize > 0 /\ Len(list) \in Nat /\ n \in Nat /\ DOMAIN parts = 1 .. n
      /\ parts \in Seq(Slots(l)) /\ LengthsOK(l, list, n, lo, hi)
      /\ lo \in Nat /\ hi \in Nat /\ lo <= Len(list) /\ Len(list) <= hi
  BY ConstantsAssumption, LenProperties DEF ReadSoFar, LengthsOK
<1>2. \A k \in 1 .. n : contents[k] = parts[k][1] /\ contents[k] \in Seq(Entries(l))
  <2> SUFFICES ASSUME NEW k \in 1 .. n PROVE contents[k] = parts[k][1] /\ contents[k] \in Seq(Entries(l))
    OBVIOUS
  <2>1. parts[k] \in Slots(l) /\ parts[k] # <<>>
    BY <1>1, ElementOfSeq
  <2> QED
    BY <1>1, <2>1, SlotFacts
<1>3. contents \in Seq(Seq(Entries(l))) /\ Len(contents) = n
  BY <1>1, <1>2
<1> HIDE DEF contents
<1>4. \A k \in 1 .. n : PageOK(contents[k], k, n, lo, hi)
  BY <1>1, <1>2 DEF ReadSoFar
<1>5. CASE n = 0
  <2>1. whole = contents /\ Len(whole) = 0
    BY <1>3, <1>5 DEF FlattenSeq
  <2>2. l # "nfts" /\ lo = 0
    BY <1>1, <1>5 DEF LengthsOK
  <2>3. contents \in Seq(Entries(l))
    <3>1. contents = <<>>
      BY <1>3, <1>5, EmptySeq
    <3> QED
      BY <3>1
  <2>4. Extends(whole, list)
    BY <1>1, <2>1 DEF Extends
  <2>5. ASSUME NEW old \in Seq(Proposal), OldRead(old, parts, lo) PROVE Extends(old, whole)
    <3>1. Len(old) = 0
      BY <2>2, <2>5, LenProperties DEF OldRead
    <3> QED
      BY <2>1, <3>1 DEF Extends
  <2>6. lo <= Len(whole) /\ Len(whole) <= hi
    BY <1>1, <2>1, <2>2
  <2>7. st = {}
    BY <2>2 DEF SteadyRead
  <2>8. \A i \in st : i \in DOMAIN whole /\ SameEntry(l, whole[i], list[i])
    BY <2>7
  <2>9. whole \in Seq(Entries(l))
    BY <2>1, <2>3
  <2> HIDE DEF whole
  <2> QED
    BY <2>4, <2>5, <2>6, <2>8, <2>9 DEF contents, whole
<1>6. CASE n # 0
  <2>1. contents # <<>> /\ \A k \in 1 .. n - 1 : k \in 1 .. n /\ k # n
    <3>1. contents # <<>>
      <4>1. Len(<<>>) = 0
        OBVIOUS
      <4>2. Len(contents) # 0
        BY <1>3, <1>6
      <4> QED
        BY <4>1, <4>2
    <3>2. \A k \in 1 .. n - 1 : k \in 1 .. n /\ k # n
      BY <1>1
    <3> QED
      BY <3>1, <3>2
  <2>2. \A k \in 1 .. Len(contents) - 1 : Len(contents[k]) = ChunkSize
    BY <1>3, <1>4, <2>1 DEF PageOK
  <2>3. whole \in Seq(Entries(l)) /\ Joined(whole, contents, n)
    BY <1>3, <2>1, <2>2, Flattened
  <2> HIDE DEF whole
  <2>4. lo <= Len(whole) /\ Len(whole) <= hi
    <3>1. n \in 1 .. n
      BY <1>1, <1>6
    <3> QED
      BY <1>4, <2>3, <3>1 DEF PageOK, Joined
  <2>5. Len(whole) \in Nat /\ DOMAIN whole = 1 .. Len(whole)
    BY <2>3, LenProperties
  <2>6. ASSUME l = "proposals" PROVE Extends(whole, list)
    <3>1. ASSUME NEW i \in 1 .. Len(whole) PROVE i <= Len(list) /\ Later(whole[i], list[i])
      <4>1. PICK k \in 1 .. n : \E j \in DOMAIN contents[k] :
               i = (k - 1) * ChunkSize + j /\ whole[i] = contents[k][j]
        BY <2>3, <2>5, <3>1 DEF Joined
      <4>2. FromList(contents[k], k, list)
        BY <1>1, <1>2, <2>6 DEF ReadSoFar
      <4>3. i \in 1 .. Len(list) /\ Later(whole[i], list[i])
        BY <4>1, <4>2 DEF FromList
      <4> QED
        BY <1>1, <4>3
    <3>2. Len(whole) <= Len(list)
      <4>1. Len(whole) # 0 => Len(whole) \in 1 .. Len(whole)
        BY <2>5
      <4> QED
        BY <1>1, <3>1, <4>1
    <3> QED
      BY <3>1, <3>2 DEF Extends
  <2>7. ASSUME NEW old \in Seq(Proposal), OldRead(old, parts, lo) PROVE Extends(old, whole)
    <3>1. Len(old) \in Nat /\ Len(old) <= lo /\ Len(old) <= Len(whole)
      BY <1>1, <2>4, <2>5, <2>7, LenProperties DEF OldRead
    <3>2. ASSUME NEW i \in 1 .. Len(old) PROVE Later(old[i], whole[i])
      <4>1. i \in DOMAIN whole
        BY <2>5, <3>1
      <4>2. PICK k \in 1 .. n : \E j \in DOMAIN contents[k] :
               i = (k - 1) * ChunkSize + j /\ whole[i] = contents[k][j]
        BY <2>3, <4>1 DEF Joined
      <4>3. PICK j \in DOMAIN contents[k] : i = (k - 1) * ChunkSize + j /\ whole[i] = contents[k][j]
        BY <4>2
      <4>4. contents[k] = parts[k][1] /\ parts[k] # <<>>
        BY <1>1, <1>2
      <4>5. i <= Len(old)
        BY <3>1
      <4> QED
        BY <2>7, <4>3, <4>4, <4>5 DEF OldRead
    <3> QED
      BY <3>1, <3>2 DEF Extends
  <2>8. ASSUME NEW i \in st PROVE i \in DOMAIN whole /\ SameEntry(l, whole[i], list[i])
    <3>1. i \in 1 .. lo
      BY DEF SteadyRead
    <3>2. i \in DOMAIN whole
      BY <1>1, <2>4, <2>5, <3>1
    <3>3. PICK k \in 1 .. n : \E j \in DOMAIN contents[k] :
             i = (k - 1) * ChunkSize + j /\ whole[i] = contents[k][j]
      BY <2>3, <3>2 DEF Joined
    <3>4. PICK j \in DOMAIN contents[k] : i = (k - 1) * ChunkSize + j /\ whole[i] = contents[k][j]
      BY <3>3
    <3>5. contents[k] = parts[k][1] /\ parts[k] # <<>>
      BY <1>1, <1>2
    <3>6. SameEntry(l, parts[k][1][j], list[(k - 1) * ChunkSize + j])
      BY <3>4, <3>5 DEF SteadyRead
    <3> QED
      BY <3>2, <3>4, <3>5, <3>6
  <2> QED
    BY <2>3, <2>4, <2>6, <2>7, <2>8 DEF whole, contents
<1> QED
  BY <1>5, <1>6

\* What an answer adds is a later state of an older list too.
LEMMA OldPageRead ==
    ASSUME NEW list \in Seq(Proposal), NEW old \in Seq(Proposal), Extends(old, list),
           NEW parts \in Seq(Slots("proposals")), NEW lo, OldRead(old, parts, lo),
           NEW number \in 1 .. Len(parts)
    PROVE  OldRead(old, [parts EXCEPT ![number] = <<Page(list, (number - 1) * ChunkSize)>>], lo)
<1> DEFINE from == (number - 1) * ChunkSize
           page == Page(list, from)
           read == [parts EXCEPT ![number] = <<page>>]
<1>1. from \in Nat /\ Len(old) \in Nat /\ Len(parts) \in Nat
  <2>1. Len(parts) \in Nat /\ number - 1 \in Nat /\ Len(old) \in Nat
    BY LenProperties
  <2> QED
    BY <2>1, Multiples
<1> HIDE DEF from
<1>2. /\ page \in Seq(Proposal) /\ DOMAIN page = 1 .. Len(page)
      /\ \A j \in 1 .. Len(page) : from + j \in 1 .. Len(list) /\ page[j] = list[from + j]
  BY <1>1, PageFacts, LenProperties
<1> HIDE DEF page
<1>3. <<page>> \in Slots("proposals") /\ <<page>>[1] = page
  BY <1>2 DEF Slots, Entries
<1>4. Len(read) = Len(parts) /\ \A k \in 1 .. Len(parts) : read[k] = IF k = number THEN <<page>> ELSE parts[k]
  BY <1>3, ExceptSeq
<1> HIDE DEF read
<1>5. ASSUME NEW j \in DOMAIN page, from + j <= Len(old)
      PROVE  Later(old[from + j], page[j])
  <2>1. from + j \in 1 .. Len(old) /\ page[j] = list[from + j]
    BY <1>1, <1>2, <1>5
  <2> QED
    BY <2>1 DEF Extends
<1>6. OldRead(old, read, lo)
  <2> SUFFICES ASSUME NEW k \in 1 .. Len(parts), read[k] # <<>>, NEW j \in DOMAIN read[k][1],
                      (k - 1) * ChunkSize + j <= Len(old)
               PROVE  Later(old[(k - 1) * ChunkSize + j], read[k][1][j])
    BY <1>4 DEF OldRead
  <2>1. CASE k = number
    <3>1. read[k][1] = page /\ (k - 1) * ChunkSize = from
      BY <1>3, <1>4, <2>1 DEF from
    <3> QED
      BY <1>5, <3>1
  <2>2. CASE k # number
    <3>1. read[k] = parts[k]
      BY <1>4, <2>2
    <3> QED
      BY <3>1 DEF OldRead
  <2> QED
    BY <2>1, <2>2
<1> QED
  BY <1>6 DEF read, page, from

-----------------------------------------------------------------------------
(* What the metrics count                                                  *)

\* Two sets apart have as many members as their union.
LEMMA TwoParts ==
    ASSUME NEW A, IsFiniteSet(A), NEW B, IsFiniteSet(B), A \cap B = {}
    PROVE  /\ IsFiniteSet(A \cup B) /\ Cardinality(A) \in Nat /\ Cardinality(B) \in Nat
           /\ Cardinality(A \cup B) = Cardinality(A) + Cardinality(B)
<1>1. Cardinality(A) \in Nat /\ Cardinality(B) \in Nat
  BY FS_CardinalityType
<1>2. Cardinality(A \cap B) = 0
  <2>1. Cardinality({}) = 0
    BY FS_EmptySet
  <2> QED
    BY <2>1, Zenon
<1>3. /\ IsFiniteSet(A \cup B)
      /\ Cardinality(A \cup B) = Cardinality(A) + Cardinality(B) - Cardinality(A \cap B)
  BY FS_Union
<1> QED
  BY <1>1, <1>2, <1>3

\* Four parts of a set that lie apart have no more members than the set.
LEMMA FourParts ==
    ASSUME NEW S, IsFiniteSet(S), NEW A, A \subseteq S, NEW B, B \subseteq S,
           NEW C, C \subseteq S, NEW D, D \subseteq S,
           A \cap B = {}, (A \cup B) \cap C = {}, (A \cup B \cup C) \cap D = {}
    PROVE  /\ Cardinality(A) \in Nat /\ Cardinality(B) \in Nat
           /\ Cardinality(C) \in Nat /\ Cardinality(D) \in Nat
           /\ Cardinality(A) + Cardinality(B) + Cardinality(C) + Cardinality(D) <= Cardinality(S)
<1>1. IsFiniteSet(A) /\ IsFiniteSet(B) /\ IsFiniteSet(C) /\ IsFiniteSet(D)
  BY FS_Subset
<1> DEFINE AB == A \cup B
<1>2. /\ IsFiniteSet(AB) /\ Cardinality(A) \in Nat /\ Cardinality(B) \in Nat
      /\ Cardinality(AB) = Cardinality(A) + Cardinality(B)
  BY <1>1, TwoParts
<1>3. AB \cap C = {} /\ (AB \cup C) \cap D = {} /\ AB \subseteq S
  OBVIOUS
<1> HIDE DEF AB
<1> DEFINE ABC == AB \cup C
<1>4. IsFiniteSet(ABC) /\ Cardinality(C) \in Nat /\ Cardinality(ABC) = Cardinality(AB) + Cardinality(C)
  BY <1>1, <1>2, <1>3, TwoParts
<1>5. ABC \cap D = {} /\ ABC \subseteq S
  BY <1>3
<1> HIDE DEF ABC
<1>6. /\ Cardinality(D) \in Nat
      /\ Cardinality(ABC \cup D) = Cardinality(ABC) + Cardinality(D)
  BY <1>1, <1>4, <1>5, TwoParts
<1>7. Cardinality(ABC \cup D) <= Cardinality(S)
  <2>1. ABC \cup D \in SUBSET S
    BY <1>5
  <2> QED
    BY <2>1, FS_Subset
<1> QED
  BY <1>2, <1>4, <1>6, <1>7

OfStatus(ps, s) == {i \in DOMAIN ps : ps[i].status = s}
OfKind(ps, kind) == {i \in DOMAIN ps : ps[i].kind = kind}

\* The proposals counted by a status.
LEMMA StatusSets ==
    ASSUME NEW ps
    PROVE  /\ ProposalsBy(ps, {}, {"InProgress"}) = OfStatus(ps, "InProgress")
           /\ ProposalsBy(ps, {}, {"Approved"}) = OfStatus(ps, "Approved")
           /\ ProposalsBy(ps, {}, {"Rejected"}) = OfStatus(ps, "Rejected")
           /\ ProposalsBy(ps, {}, {"Expired"}) = OfStatus(ps, "Expired")
BY DEF ProposalsBy, OfStatus, IsProposalKind

\* No proposal is of two kinds.
LEMMA KindSets ==
    ASSUME NEW ps
    PROVE  /\ ProposalsBy(ps, {"Transfer"}, {}) = OfKind(ps, "Transfer")
           /\ ProposalsBy(ps, {"ChangePolicy"}, {}) = OfKind(ps, "ChangePolicy")
           /\ ProposalsBy(ps, {"AddBounty", "BountyDone"}, {}) = {}
           /\ ProposalsBy(ps, MemberKinds, {}) = {}
BY DEF ProposalsBy, OfKind, IsProposalKind, MemberKinds

\* What each of the metrics about proposals counts.
LEMMA ProposalValues ==
    ASSUME NEW ps
    PROVE  /\ CurrentValue("PROPOSALS", ps) = Len(ps)
           /\ CurrentValue("IN_PROGRESS", ps) = Cardinality(OfStatus(ps, "InProgress"))
           /\ CurrentValue("APPROVED", ps) = Cardinality(OfStatus(ps, "Approved"))
           /\ CurrentValue("REJECTED", ps) = Cardinality(OfStatus(ps, "Rejected"))
           /\ CurrentValue("EXPIRED", ps) = Cardinality(OfStatus(ps, "Expired"))
           /\ CurrentValue("TRANSFER", ps) = Cardinality(OfKind(ps, "Transfer"))
           /\ CurrentValue("POLICY_CHANGE", ps) = Cardinality(OfKind(ps, "ChangePolicy"))
           /\ CurrentValue("BOUNTY", ps) = 0
           /\ CurrentValue("MEMBER", ps) = 0
<1>1. CurrentValue("PROPOSALS", ps) = Len(ps)
  BY DEF CurrentValue, ProposalsCountMetric
<1>2. /\ CurrentValue("IN_PROGRESS", ps) = Cardinality(OfStatus(ps, "InProgress"))
      /\ CurrentValue("APPROVED", ps) = Cardinality(OfStatus(ps, "Approved"))
      /\ CurrentValue("REJECTED", ps) = Cardinality(OfStatus(ps, "Rejected"))
      /\ CurrentValue("EXPIRED", ps) = Cardinality(OfStatus(ps, "Expired"))
  BY StatusSets DEF CurrentValue, ProposalsInProgressCountMetric, ProposalsApprovedCountMetric,
     ProposalsRejectedCountMetric, ProposalsExpiredCountMetric
<1>3. /\ CurrentValue("TRANSFER", ps) = Cardinality(OfKind(ps, "Transfer"))
      /\ CurrentValue("POLICY_CHANGE", ps) = Cardinality(OfKind(ps, "ChangePolicy"))
  BY KindSets DEF CurrentValue, ProposalsTransferCountMetric, ProposalsPolicyChangeCountMetric
<1>4. CurrentValue("BOUNTY", ps) = 0 /\ CurrentValue("MEMBER", ps) = 0
  BY KindSets, FS_EmptySet DEF CurrentValue, ProposalsBountyCountMetric, ProposalsMemberCountMetric
<1> QED
  BY <1>1, <1>2, <1>3, <1>4

\* The values that stem from one list.
LEMMA OneList ==
    ASSUME NEW ps \in Seq(Proposal)
    PROVE  /\ Len(ps) \in Nat
           /\ \A s \in ProposalStatuses : Cardinality(OfStatus(ps, s)) \in Nat
           /\ \A kind \in ProposalKinds : Cardinality(OfKind(ps, kind)) \in Nat
           /\ Cardinality(OfStatus(ps, "InProgress")) + Cardinality(OfStatus(ps, "Approved"))
              + Cardinality(OfStatus(ps, "Rejected")) + Cardinality(OfStatus(ps, "Expired")) <= Len(ps)
           /\ Cardinality(OfKind(ps, "Transfer")) + Cardinality(OfKind(ps, "ChangePolicy")) <= Len(ps)
<1>1. Len(ps) \in Nat /\ DOMAIN ps = 1 .. Len(ps)
  BY LenProperties
<1>2. IsFiniteSet(1 .. Len(ps)) /\ Cardinality(1 .. Len(ps)) = Len(ps)
  BY <1>1, FS_Interval
<1>3. \A s : OfStatus(ps, s) \in SUBSET (1 .. Len(ps))
  BY <1>1 DEF OfStatus
<1>4. \A kind : OfKind(ps, kind) \in SUBSET (1 .. Len(ps))
  BY <1>1 DEF OfKind
<1>5. /\ \A s \in ProposalStatuses : Cardinality(OfStatus(ps, s)) \in Nat
      /\ \A kind \in ProposalKinds : Cardinality(OfKind(ps, kind)) \in Nat
  BY <1>2, <1>3, <1>4, FS_Subset, FS_CardinalityType
<1>6. \A s, t : s # t => OfStatus(ps, s) \cap OfStatus(ps, t) = {}
  BY DEF OfStatus
<1>7. \A s, t : s # t => OfKind(ps, s) \cap OfKind(ps, t) = {}
  BY DEF OfKind
<1> DEFINE A == OfStatus(ps, "InProgress")
           B == OfStatus(ps, "Approved")
           C == OfStatus(ps, "Rejected")
           D == OfStatus(ps, "Expired")
           E == OfKind(ps, "Transfer")
           F == OfKind(ps, "ChangePolicy")
<1>8. /\ A \subseteq 1 .. Len(ps) /\ B \subseteq 1 .. Len(ps)
      /\ C \subseteq 1 .. Len(ps) /\ D \subseteq 1 .. Len(ps)
      /\ A \cap B = {} /\ A \cap C = {} /\ B \cap C = {}
      /\ A \cap D = {} /\ B \cap D = {} /\ C \cap D = {}
  BY <1>3, <1>6
<1>9. /\ E \subseteq 1 .. Len(ps) /\ F \subseteq 1 .. Len(ps) /\ E \cap F = {}
      /\ Cardinality(E) \in Nat /\ Cardinality(F) \in Nat
  BY <1>2, <1>4, <1>7, FS_Subset, FS_CardinalityType
<1> HIDE DEF A, B, C, D, E, F
<1>10. Cardinality(A) + Cardinality(B) + Cardinality(C) + Cardinality(D) <= Len(ps)
  <2>1. (A \cup B) \cap C = {} /\ (A \cup B \cup C) \cap D = {}
    BY <1>8
  <2> QED
    BY <1>2, <1>8, <2>1, FourParts
<1>11. Cardinality(E) + Cardinality(F) <= Len(ps)
  <2>1. {} \subseteq 1 .. Len(ps) /\ (E \cup F) \cap {} = {} /\ (E \cup F \cup {}) \cap {} = {}
    OBVIOUS
  <2>2. Cardinality(E) + Cardinality(F) + Cardinality({}) + Cardinality({}) <= Cardinality(1 .. Len(ps))
    BY <1>2, <1>9, <2>1, FourParts
  <2>3. Cardinality({}) = 0
    BY FS_EmptySet
  <2> QED
    BY <1>2, <1>9, <2>2, <2>3
<1> QED
  BY <1>1, <1>5, <1>10, <1>11 DEF A, B, C, D, E, F

\* A later list holds as many decided proposals, and as many of each kind.
LEMMA LaterCounts ==
    ASSUME NEW ps \in Seq(Proposal), NEW qs \in Seq(Proposal), Extends(ps, qs)
    PROVE  /\ Len(ps) <= Len(qs)
           /\ \A s \in ProposalStatuses \ {"InProgress"} :
                 Cardinality(OfStatus(ps, s)) <= Cardinality(OfStatus(qs, s))
           /\ \A kind \in ProposalKinds : Cardinality(OfKind(ps, kind)) <= Cardinality(OfKind(qs, kind))
<1>1. /\ Len(ps) \in Nat /\ DOMAIN ps = 1 .. Len(ps) /\ Len(qs) \in Nat /\ DOMAIN qs = 1 .. Len(qs)
      /\ Len(ps) <= Len(qs)
  BY LenProperties DEF Extends
<1>2. /\ \A s : IsFiniteSet(OfStatus(qs, s))
      /\ \A kind : IsFiniteSet(OfKind(qs, kind))
  <2>1. IsFiniteSet(1 .. Len(qs))
    BY <1>1, FS_Interval
  <2>2. /\ \A s : OfStatus(qs, s) \in SUBSET (1 .. Len(qs))
        /\ \A kind : OfKind(qs, kind) \in SUBSET (1 .. Len(qs))
    BY <1>1 DEF OfStatus, OfKind
  <2> QED
    BY <2>1, <2>2, FS_Subset
<1>3. \A i \in 1 .. Len(ps) : i \in 1 .. Len(qs) /\ Later(ps[i], qs[i])
  BY <1>1 DEF Extends
<1>4. \A s \in ProposalStatuses \ {"InProgress"} : OfStatus(ps, s) \in SUBSET OfStatus(qs, s)
  BY <1>1, <1>3 DEF OfStatus, Later
<1>5. \A kind \in ProposalKinds : OfKind(ps, kind) \in SUBSET OfKind(qs, kind)
  BY <1>1, <1>3 DEF OfKind, Later
<1> QED
  BY <1>1, <1>2, <1>4, <1>5, FS_Subset

-----------------------------------------------------------------------------
(* Types, and the list that is being read                                  *)

\* What each variable may hold.
TypeOK ==
    /\ policy \in Policies /\ proposals \in Seq(Proposal)
    /\ bounties \in Seq(Amounts) /\ nfts \in Seq(Tokens)
    /\ at \in 0 .. 16
    /\ stats = [m \in Metrics |-> stats[m]]
    /\ cache = [l \in Lists |-> cache[l]]
    /\ cache["groups"] = <<>> \/ \E p \in Policies : cache["groups"] = <<RestrictValues(p, IsRoleGroup)>>
    /\ \A l \in Lists \ {"groups"} : cache[l] \in Slots(l)
    /\ disturbed \in BOOLEAN /\ mixed \in BOOLEAN

\* What was read of a list fits what the list was while it was read.
ReadingOK ==
    /\ NotReading \/ (reading = <<reading[1]>> /\ \E l \in Lists \ {"groups"} : Missing(l))
    /\ \A l \in Lists \ {"groups"} :
          ~ NotReading /\ Missing(l) => /\ ReadSoFar(l, Fetch(l), reading[1], least, most)
                                        /\ SteadyRead(l, Fetch(l), reading[1], least, steady)

\* What a read of a list returns, and its type.
LEMMA ListsOnChain ==
    TypeOK => /\ Fetch("proposals") = proposals /\ Fetch("bounties") = bounties /\ Fetch("nfts") = nfts
              /\ \A l \in Lists \ {"groups"} : Fetch(l) \in Seq(Entries(l)) /\ Len(Fetch(l)) \in Nat
<1> SUFFICES ASSUME TypeOK
             PROVE  /\ Fetch("proposals") = proposals /\ Fetch("bounties") = bounties /\ Fetch("nfts") = nfts
                    /\ \A l \in Lists \ {"groups"} : Fetch(l) \in Seq(Entries(l)) /\ Len(Fetch(l)) \in Nat
  OBVIOUS
<1>1. Fetch("proposals") = proposals /\ Fetch("bounties") = bounties /\ Fetch("nfts") = nfts
  BY DEF Fetch
<1>2. /\ Entries("proposals") = Proposal /\ Entries("bounties") = Amounts /\ Entries("nfts") = Tokens
      /\ Lists \ {"groups"} = {"proposals", "bounties", "nfts"}
  BY DEF Entries, Lists
<1>3. \A l \in Lists \ {"groups"} : Fetch(l) \in Seq(Entries(l))
  BY <1>1, <1>2 DEF TypeOK
<1> QED
  BY <1>1, <1>3, LenProperties

\* A list that is missing is the one the next metric is computed from.
LEMMA OneMissing ==
    ASSUME NEW k, NEW l, Missing(k), Missing(l)
    PROVE  k = l
BY DEF Missing

\* What the DAO may become, and that the lengths are followed.
Followed(l) ==
    /\ least' = IF Len(Fetch(l)') < least THEN Len(Fetch(l)') ELSE least
    /\ most' = IF Len(Fetch(l)') > most THEN Len(Fetch(l)') ELSE most
    /\ \A i \in steady' : i \in steady /\ i \in DOMAIN Fetch(l)' /\ SameEntry(l, Fetch(l)[i], Fetch(l)'[i])

\* The NFTs that are left are NFTs.
LEMMA StillTokens ==
    ASSUME NEW list \in Seq(Tokens), NEW i \in DOMAIN list, NEW left \in Without(list, i)
    PROVE  left \in Seq(Tokens)
<1>1. Len(list) \in Nat /\ DOMAIN list = 1 .. Len(list) /\ i \in 1 .. Len(list)
  BY LenProperties
<1>2. \A j \in 1 .. Len(list) : list[j] \in Tokens
  BY ElementOfSeq
<1>3. CASE left = RemoveAt(list, i)
  <2>1. SubSeq(list, 1, i - 1) \in Seq(Tokens) /\ SubSeq(list, i + 1, Len(list)) \in Seq(Tokens)
    <3>1. /\ 1 \in Int /\ i - 1 \in Int /\ i + 1 \in Int /\ Len(list) \in Int
          /\ \A j \in 1 .. i - 1 : list[j] \in Tokens
          /\ \A j \in i + 1 .. Len(list) : list[j] \in Tokens
      BY <1>1, <1>2
    <3> QED
      BY <3>1, SubSeqProperties
  <2> QED
    BY <1>3, <2>1, ConcatProperties DEF RemoveAt
<1>4. CASE left = SubSeq([list EXCEPT ![i] = list[Len(list)]], 1, Len(list) - 1)
  <2> DEFINE swapped == [list EXCEPT ![i] = list[Len(list)]]
  <2>1. list[Len(list)] \in Tokens
    BY <1>1, <1>2
  <2>2. \A j \in 1 .. Len(list) - 1 : swapped[j] \in Tokens
    BY <1>1, <1>2, <2>1
  <2>3. 1 \in Int /\ Len(list) - 1 \in Int
    BY <1>1
  <2> HIDE DEF swapped
  <2> QED
    BY <1>4, <2>2, <2>3, SubSeqProperties DEF swapped
<1> QED
  BY <1>3, <1>4 DEF Without

\* What a step of the DAO changes, and that it keeps what is known of a list being read.
LEMMA DaoStep ==
    ASSUME TypeOK, ReadingOK, DaoChanges
    PROVE  /\ UNCHANGED <<Sweep, reading>>
           /\ policy' \in Policies /\ proposals' \in Seq(Proposal) /\ Extends(proposals, proposals')
           /\ bounties' \in Seq(Amounts) /\ Len(bounties) <= Len(bounties')
           /\ nfts' \in Seq(Tokens)
           /\ \A l \in Lists \ {"groups"} : ~ NotReading /\ Missing(l) => Followed(l)
<1> USE DEF TypeOK
<1>1. /\ \A l \in Lists \ {"groups"} : Fetch(l) \in Seq(Entries(l)) /\ Len(Fetch(l)) \in Nat
      /\ Fetch("proposals") = proposals /\ Fetch("bounties") = bounties /\ Fetch("nfts") = nfts
      /\ Len(proposals) \in Nat /\ Len(bounties) \in Nat /\ Len(nfts) \in Nat
  BY ListsOnChain, LenProperties
<1>2. Extends(proposals, proposals)
  BY ExtendsSame
<1>3. ASSUME NEW l \in Lists \ {"groups"}, ~ NotReading, Missing(l)
      PROVE  least \in Nat /\ most \in Nat /\ least <= Len(Fetch(l)) /\ Len(Fetch(l)) <= most
  BY <1>3 DEF ReadingOK, ReadSoFar, LengthsOK
<1>4. ASSUME NEW l \in Lists \ {"groups"}, ~ NotReading, Missing(l),
             least' = least, most' = most, steady' = steady,
             Len(Fetch(l)') = Len(Fetch(l)), DOMAIN Fetch(l)' = 1 .. Len(Fetch(l)),
             \A i \in 1 .. Len(Fetch(l)) : SameEntry(l, Fetch(l)[i], Fetch(l)'[i])
      PROVE  Followed(l)
  <2>1. steady \subseteq 1 .. Len(Fetch(l))
    <3>1. steady \subseteq 1 .. least
      BY <1>4 DEF ReadingOK, SteadyRead
    <3> QED
      BY <1>1, <1>3, <1>4, <3>1
  <2>2. \A i \in steady' : i \in steady /\ i \in DOMAIN Fetch(l)' /\ SameEntry(l, Fetch(l)[i], Fetch(l)'[i])
    BY <1>4, <2>1
  <2> QED
    BY <1>1, <1>3, <1>4, <2>2 DEF Followed
<1>17. ASSUME NEW l \in Lists \ {"groups"}, ~ NotReading, Missing(l),
              least' = least, most' = most, steady' = steady, Fetch(l)' = Fetch(l)
       PROVE  Followed(l)
  <2>1. DOMAIN Fetch(l) = 1 .. Len(Fetch(l))
    BY <1>1, LenProperties
  <2> QED
    BY <1>4, <1>17, <2>1, SameEntries
<1>5. ASSUME NEW k \in Lists \ {"groups"}, Becomes(k, Fetch(k)'),
             \A l \in Lists \ {"groups", k} : Fetch(l)' = Fetch(l)
      PROVE  reading' = reading /\ \A l \in Lists \ {"groups"} : ~ NotReading /\ Missing(l) => Followed(l)
  <2>1. reading' = reading
    BY <1>5 DEF Becomes
  <2>2. ASSUME NEW l \in Lists \ {"groups"}, ~ NotReading, Missing(l)
        PROVE  Followed(l)
    <3>1. CASE l = k
      BY <1>5, <2>2, <3>1 DEF Becomes, Followed
    <3>2. CASE l # k
      <4>1. ~ Missing(k)
        BY <2>2, <3>2, OneMissing
      <4>2. least' = least /\ most' = most /\ steady' = steady /\ Fetch(l)' = Fetch(l)
        BY <1>5, <3>2, <4>1 DEF Becomes
      <4> QED
        BY <1>17, <2>2, <4>2
    <3> QED
      BY <3>1, <3>2
  <2> QED
    BY <2>1, <2>2
<1>6. Lists \ {"groups"} = {"proposals", "bounties", "nfts"}
  BY DEF Lists
<1>7. ASSUME NEW p \in NewProposals, AddProposal(p)
      PROVE  /\ proposals' \in Seq(Proposal) /\ Extends(proposals, proposals')
             /\ Becomes("proposals", Fetch("proposals")')
  <2>1. p \in Proposal /\ proposals' = Append(proposals, p)
    BY <1>7 DEF NewProposals, AddProposal
  <2>2. /\ Append(proposals, p) \in Seq(Proposal) /\ Len(Append(proposals, p)) = Len(proposals) + 1
        /\ \A i \in 1 .. Len(proposals) : Append(proposals, p)[i] = proposals[i]
    BY <1>1, <2>1
  <2>3. Extends(proposals, proposals')
    BY <1>1, <2>1, <2>2 DEF Extends, Later
  <2>4. Fetch("proposals")' = proposals'
    BY DEF Fetch
  <2> QED
    BY <1>7, <2>1, <2>2, <2>3, <2>4 DEF AddProposal
<1>8. ASSUME NEW i \in DOMAIN proposals, NEW status \in Outcomes, Decide(i, status)
      PROVE  proposals' \in Seq(Proposal) /\ Len(proposals') = Len(proposals) /\ Extends(proposals, proposals')
  <2>1. /\ proposals' = [proposals EXCEPT ![i].status = status] /\ i \in 1 .. Len(proposals)
        /\ status \in ProposalStatuses /\ proposals[i].status = "InProgress" /\ proposals[i] \in Proposal
    <3>1. i \in 1 .. Len(proposals)
      BY <1>1, LenProperties
    <3> QED
      BY <1>8, <3>1, InputsAssumption, ElementOfSeq DEF Decide
  <2> DEFINE decided == [proposals[i] EXCEPT !.status = status]
  <2>2. decided \in Proposal /\ decided.kind = proposals[i].kind /\ Later(proposals[i], decided)
    BY <2>1 DEF Proposal, Later
  <2>3. proposals' = [proposals EXCEPT ![i] = decided]
    BY <2>1
  <2> HIDE DEF decided
  <2>4. /\ proposals' \in Seq(Proposal) /\ Len(proposals') = Len(proposals)
        /\ \A j \in 1 .. Len(proposals) : proposals'[j] = IF j = i THEN decided ELSE proposals[j]
    <3> DEFINE after == [proposals EXCEPT ![i] = decided]
    <3>1. /\ after \in Seq(Proposal) /\ Len(after) = Len(proposals)
          /\ \A j \in 1 .. Len(proposals) : after[j] = IF j = i THEN decided ELSE proposals[j]
      BY <1>1, <2>1, <2>2, ExceptSeq
    <3>2. proposals' = after
      BY <2>3
    <3> HIDE DEF after
    <3> QED
      BY <3>1, <3>2
  <2>5. \A j \in 1 .. Len(proposals) : Later(proposals[j], proposals'[j])
    BY <2>2, <2>4 DEF Later
  <2> QED
    BY <1>1, <2>4, <2>5 DEF Extends
<1>9. ASSUME NEW amount \in Amounts, AddBounty(amount)
      PROVE  /\ bounties' \in Seq(Amounts) /\ Len(bounties) <= Len(bounties')
             /\ Becomes("bounties", Fetch("bounties")')
  <2>1. bounties' = Append(bounties, amount) /\ Fetch("bounties")' = bounties'
    BY <1>9 DEF AddBounty, Fetch
  <2>2. Append(bounties, amount) \in Seq(Amounts) /\ Len(Append(bounties, amount)) = Len(bounties) + 1
    BY <1>1
  <2> QED
    <3>1. Becomes("bounties", bounties')
      BY <1>9 DEF AddBounty
    <3>2. Len(bounties) <= Len(bounties')
      BY <1>1, <2>1, <2>2
    <3> QED
      BY <2>1, <2>2, <3>1, <3>2
<1>10. ASSUME NEW owned \in Seq(Tokens), TransferNft(owned)
       PROVE  nfts' \in Seq(Tokens) /\ Becomes("nfts", Fetch("nfts")')
  BY <1>10 DEF TransferNft, Fetch
<1>11. CASE \E p \in NewProposals : AddProposal(p)
  <2>1. PICK p \in NewProposals : AddProposal(p)
    BY <1>11
  <2>2. UNCHANGED <<policy, bounties, nfts, Sweep>>
    BY <2>1 DEF AddProposal
  <2>3. \A l \in Lists \ {"groups", "proposals"} : Fetch(l)' = Fetch(l)
    BY <2>2 DEF Fetch, Lists
  <2>4. reading' = reading /\ \A l \in Lists \ {"groups"} : ~ NotReading /\ Missing(l) => Followed(l)
    BY <1>5, <1>6, <1>7, <2>1, <2>3
  <2> QED
    BY <1>1, <1>7, <2>1, <2>2, <2>4
<1>12. CASE \E i \in DOMAIN proposals, status \in Outcomes : Decide(i, status)
  <2>1. PICK i \in DOMAIN proposals, status \in Outcomes : Decide(i, status)
    BY <1>12
  <2>2. UNCHANGED <<policy, bounties, nfts, pages, Sweep>> /\ least' = least /\ most' = most
        /\ steady' = steady /\ reading' = reading
    BY <2>1 DEF Decide, pages
  <2>3. proposals' \in Seq(Proposal) /\ Len(proposals') = Len(proposals) /\ Extends(proposals, proposals')
    BY <1>8, <2>1
  <2>4. ASSUME NEW l \in Lists \ {"groups"}, ~ NotReading, Missing(l) PROVE Followed(l)
    <3>1. CASE l = "proposals"
      <4>1. Fetch(l) = proposals /\ Fetch(l)' = proposals'
        BY <3>1 DEF Fetch
      <4>2. \A j \in 1 .. Len(proposals) : SameEntry(l, proposals[j], proposals'[j])
        BY <2>3, <3>1 DEF Extends, Later, SameEntry
      <4>3. DOMAIN proposals' = 1 .. Len(proposals)
        BY <2>3, LenProperties
      <4> QED
        BY <1>4, <2>2, <2>3, <2>4, <4>1, <4>2, <4>3
    <3>2. CASE l # "proposals"
      <4>1. Fetch(l)' = Fetch(l)
        BY <1>6, <2>2, <3>2 DEF Fetch
      <4> QED
        BY <1>17, <2>2, <2>4, <4>1
    <3> QED
      BY <3>1, <3>2
  <2> QED
    BY <1>1, <2>2, <2>3, <2>4
<1>13. CASE \E p \in Policies : SetPolicy(p)
  <2>1. UNCHANGED <<proposals, bounties, nfts, pages, Sweep>> /\ policy' \in Policies
        /\ least' = least /\ most' = most /\ steady' = steady /\ reading' = reading
    BY <1>13 DEF SetPolicy, pages
  <2>2. \A l \in Lists \ {"groups"} : Fetch(l)' = Fetch(l)
    BY <1>6, <2>1 DEF Fetch
  <2> QED
    BY <1>1, <1>2, <1>17, <2>1, <2>2
<1>14. CASE \E amount \in Amounts : AddBounty(amount)
  <2>1. PICK amount \in Amounts : AddBounty(amount)
    BY <1>14
  <2>2. UNCHANGED <<policy, proposals, nfts, Sweep>>
    BY <2>1 DEF AddBounty
  <2>3. \A l \in Lists \ {"groups", "bounties"} : Fetch(l)' = Fetch(l)
    BY <2>2 DEF Fetch, Lists
  <2>4. reading' = reading /\ \A l \in Lists \ {"groups"} : ~ NotReading /\ Missing(l) => Followed(l)
    BY <1>5, <1>6, <1>9, <2>1, <2>3
  <2> QED
    BY <1>1, <1>2, <1>9, <2>1, <2>2, <2>4
<1>15. ASSUME NEW owned \in Seq(Tokens), TransferNft(owned)
       PROVE  /\ UNCHANGED <<Sweep, reading>> /\ policy' = policy /\ proposals' = proposals
              /\ bounties' = bounties /\ nfts' \in Seq(Tokens)
              /\ \A l \in Lists \ {"groups"} : ~ NotReading /\ Missing(l) => Followed(l)
  <2>2. UNCHANGED <<policy, proposals, bounties, Sweep>>
    BY <1>15 DEF TransferNft
  <2>3. \A l \in Lists \ {"groups", "nfts"} : Fetch(l)' = Fetch(l)
    BY <2>2 DEF Fetch, Lists
  <2>4. reading' = reading /\ \A l \in Lists \ {"groups"} : ~ NotReading /\ Missing(l) => Followed(l)
    BY <1>5, <1>6, <1>10, <1>15, <2>3
  <2> QED
    BY <1>10, <1>15, <2>2, <2>4
<1>16. CASE \/ \E token \in Tokens \ Range(nfts) : TransferNft(Append(nfts, token))
            \/ \E i \in DOMAIN nfts : \E owned \in Without(nfts, i) : TransferNft(owned)
  <2>1. \A token \in Tokens : Append(nfts, token) \in Seq(Tokens)
    OBVIOUS
  <2>2. ASSUME NEW i \in DOMAIN nfts, NEW owned \in Without(nfts, i) PROVE owned \in Seq(Tokens)
    BY <2>2, StillTokens
  <2>3. PICK owned \in Seq(Tokens) : TransferNft(owned)
    BY <1>16, <2>1, <2>2
  <2>4. /\ UNCHANGED <<Sweep, reading>> /\ policy' = policy /\ proposals' = proposals
        /\ bounties' = bounties /\ nfts' \in Seq(Tokens)
    BY <1>15, <2>3
  <2>5. \A l \in Lists \ {"groups"} : ~ NotReading /\ Missing(l) => Followed(l)
    BY <1>15, <2>3
  <2>6. policy' \in Policies /\ proposals' \in Seq(Proposal) /\ bounties' \in Seq(Amounts)
        /\ Len(bounties) <= Len(bounties')
    BY <1>1, <2>4
  <2>7. Extends(proposals, proposals')
    BY <1>2, <2>4
  <2> QED
    BY <2>4, <2>5, <2>6, <2>7
<1> QED
  BY <1>11, <1>12, <1>13, <1>14, <1>16 DEF DaoChanges

\* What storing a value changes.
LEMMA Stored ==
    ASSUME TypeOK, at < 16, NEW list, Store(list)
    PROVE  /\ at' = at + 1 /\ at' \in 0 .. 16 /\ at + 1 \in 1 .. 16
           /\ stats' = [m \in Metrics |-> stats'[m]]
           /\ stats'[Order[at + 1]] = CurrentValue(Order[at + 1], list)
           /\ \A j \in 1 .. 16 : j # at + 1 => stats'[Order[j]] = stats[Order[j]]
<1> DEFINE m == Order[at + 1]
           v == CurrentValue(m, list)
<1>1. at + 1 \in 1 .. 16 /\ m \in Metrics /\ stats = [k \in Metrics |-> stats[k]]
  BY OrderFacts DEF TypeOK
<1>2. at' = at + 1 /\ stats' = [stats EXCEPT ![m] = v]
  BY DEF Store
<1> HIDE DEF v
<1>3. stats' = [k \in Metrics |-> stats'[k]] /\ stats'[m] = v
      /\ \A k \in Metrics : k # m => stats'[k] = stats[k]
  <2> HIDE DEF m
  <2> QED
    BY <1>1, <1>2
<1>4. \A j \in 1 .. 16 : j # at + 1 => Order[j] # m /\ Order[j] \in Metrics
  BY <1>1, OrderFacts
<1>5. at' \in 0 .. 16
  BY <1>1, <1>2
<1> QED
  BY <1>1, <1>2, <1>3, <1>4, <1>5 DEF v

\* What keeping a list changes.
LEMMA Kept ==
    ASSUME TypeOK, NEW l \in Lists, NEW value, cache' = [cache EXCEPT ![l] = value]
    PROVE  /\ cache' = [k \in Lists |-> cache'[k]] /\ cache'[l] = value
           /\ \A k \in Lists \ {l} : cache'[k] = cache[k]
<1>1. cache = [k \in Lists |-> cache[k]]
  BY DEF TypeOK
<1> QED
  BY <1>1

\* The missing list is that of the next metric.
LEMMA MissingAt ==
    ASSUME TypeOK, NEW l, Missing(l)
    PROVE  at < 16 /\ at + 1 \in 1 .. 16 /\ l = ListOf(Order[at + 1]) /\ l \in Lists /\ cache[l] = <<>>
BY OrderFacts DEF Missing, TypeOK

\* When no list is missing, or only the groups, none is being read.
LEMMA Idle ==
    ASSUME ReadingOK, \A l \in Lists \ {"groups"} : ~ Missing(l)
    PROVE  NotReading
BY DEF ReadingOK

\* Nothing is to be known when no list is being read.
LEMMA IdleReads ==
    ASSUME NotReading'
    PROVE  ReadingOK'
BY DEF ReadingOK

\* The list that a finished read makes.
LEMMA WholeList ==
    ASSUME TypeOK, ReadingOK, NEW l \in Lists \ {"groups"}, FinishReading(l)
    PROVE  LET whole == FlattenSeq([number \in DOMAIN reading[1] |-> reading[1][number][1]])
           IN  /\ Keep(l, whole) /\ Store(whole) /\ Missing(l)
               /\ whole \in Seq(Entries(l)) /\ least <= Len(whole) /\ Len(whole) <= most
               /\ \A i \in steady : i \in DOMAIN whole /\ SameEntry(l, whole[i], Fetch(l)[i])
               /\ l = "proposals" =>
                     /\ Extends(whole, proposals)
                     /\ \A old \in Seq(Proposal) : OldRead(old, reading[1], least) => Extends(old, whole)
<1> DEFINE whole == FlattenSeq([number \in DOMAIN reading[1] |-> reading[1][number][1]])
<1>1. /\ Missing(l) /\ ~ NotReading /\ Keep(l, whole) /\ Store(whole)
      /\ \A number \in DOMAIN reading[1] : reading[1][number] # <<>>
  BY DEF FinishReading
<1>2. Fetch(l) \in Seq(Entries(l)) /\ ReadSoFar(l, Fetch(l), reading[1], least, most)
      /\ SteadyRead(l, Fetch(l), reading[1], least, steady) /\ Fetch("proposals") = proposals
  BY <1>1, ListsOnChain DEF ReadingOK
<1>3. /\ whole \in Seq(Entries(l)) /\ least <= Len(whole) /\ Len(whole) <= most
      /\ \A i \in steady : i \in DOMAIN whole /\ SameEntry(l, whole[i], Fetch(l)[i])
      /\ l = "proposals" =>
            /\ Extends(whole, Fetch(l))
            /\ \A old \in Seq(Proposal) : OldRead(old, reading[1], least) => Extends(old, whole)
  BY <1>1, <1>2, ReadFinished
<1> HIDE DEF whole
<1>4. l = "proposals" => Extends(whole, proposals)
  BY <1>2, <1>3
<1> QED
  BY <1>1, <1>3, <1>4 DEF whole

\* Types and reads at the beginning.
LEMMA TypesInit == Init => TypeOK /\ ReadingOK
<1> SUFFICES ASSUME Init PROVE TypeOK /\ ReadingOK
  OBVIOUS
<1>1. policy \in Policies /\ proposals \in Seq(Proposal) /\ bounties \in Seq(Amounts) /\ nfts \in Seq(Tokens)
  BY InputsAssumption DEF Init
<1>2. cache = [l \in Lists |-> cache[l]] /\ \A l \in Lists : cache[l] = <<>>
  BY DEF Init
<1>3. stats = [m \in Metrics |-> stats[m]] /\ at \in 0 .. 16 /\ disturbed = FALSE /\ mixed = FALSE /\ NotReading
  BY DEF Init, NotReading
<1>4. "groups" \in Lists /\ \A l : <<>> \in Slots(l)
  BY DEF Lists, Slots
<1> QED
  BY <1>1, <1>2, <1>3, <1>4 DEF TypeOK, ReadingOK

\* Every step keeps the types and what is known of a list being read.
LEMMA TypesStep ==
    ASSUME TypeOK, ReadingOK, [Next]_vars
    PROVE  TypeOK' /\ ReadingOK'
<1>1. CASE ReadGroups
  <2> DEFINE list == Fetch("groups")
  <2>1. /\ Missing("groups") /\ cache' = [cache EXCEPT !["groups"] = <<list>>] /\ Store(list)
        /\ UNCHANGED <<chain, pages, changes, failures, disturbed, mixed>>
    BY <1>1 DEF ReadGroups, Keep
  <2>2. "groups" \in Lists /\ at < 16
    BY <2>1, MissingAt
  <2>3. NotReading /\ NotReading'
    <3>1. NotReading
      BY <2>1, Idle, OneMissing
    <3> QED
      BY <2>1, <3>1 DEF NotReading, pages
  <2>4. list = RestrictValues(policy, IsRoleGroup) /\ policy \in Policies
    BY DEF Fetch, TypeOK
  <2> HIDE DEF list
  <2>5. /\ cache' = [k \in Lists |-> cache'[k]] /\ cache'["groups"] = <<list>>
        /\ \A k \in Lists \ {"groups"} : cache'[k] = cache[k]
    BY <2>1, <2>2, Kept
  <2>6. at' \in 0 .. 16 /\ stats' = [m \in Metrics |-> stats'[m]]
    BY <2>1, <2>2, Stored
  <2>7. TypeOK'
    <3>1. \E p \in Policies : cache'["groups"] = <<RestrictValues(p, IsRoleGroup)>>
      BY <2>4, <2>5
    <3>2. policy' = policy /\ proposals' = proposals /\ bounties' = bounties /\ nfts' = nfts
          /\ disturbed' = disturbed /\ mixed' = mixed
      BY <2>1 DEF chain
    <3> QED
      BY <2>5, <2>6, <3>1, <3>2 DEF TypeOK
  <2> QED
    BY <2>3, <2>7, IdleReads
<1>2. ASSUME NEW l \in Lists, StartReading(l) PROVE TypeOK' /\ ReadingOK'
  <2> DEFINE parts == [page \in 1 .. Pages(l) |-> <<>>]
  <2>1. /\ l \in Lists \ {"groups"} /\ Missing(l) /\ reading' = <<parts>>
        /\ least' = Len(Fetch(l)) /\ most' = Len(Fetch(l)) /\ steady' = DOMAIN Fetch(l)
        /\ UNCHANGED <<chain, cache, stats, at, changes, failures, disturbed, mixed>>
    BY <1>2 DEF StartReading
  <2>2. /\ ReadSoFar(l, Fetch(l), parts, Len(Fetch(l)), Len(Fetch(l)))
        /\ SteadyRead(l, Fetch(l), parts, Len(Fetch(l)), DOMAIN Fetch(l))
    BY <2>1, ListsOnChain, NothingRead
  <2> HIDE DEF parts
  <2>3. TypeOK'
    <3>1. UNCHANGED <<policy, proposals, bounties, nfts, cache, stats, at, disturbed, mixed>>
      BY <2>1 DEF chain
    <3> QED
      BY <3>1 DEF TypeOK
  <2>4. ReadingOK'
    <3>1. \A k : Missing(k)' <=> Missing(k)
      BY <2>1 DEF Missing
    <3>2. Fetch(l)' = Fetch(l)
      BY <2>1 DEF Fetch, chain
    <3>3. reading'[1] = parts /\ reading' = <<reading'[1]>>
      BY <2>1
    <3>4. /\ ReadSoFar(l, Fetch(l)', reading'[1], least', most')
          /\ SteadyRead(l, Fetch(l)', reading'[1], least', steady')
      BY <2>1, <2>2, <3>2, <3>3
    <3>5. \A k \in Lists \ {"groups"} : Missing(k)' => k = l
      BY <2>1, <3>1, OneMissing
    <3> QED
      BY <2>1, <3>1, <3>3, <3>4, <3>5 DEF ReadingOK
  <2> QED
    BY <2>3, <2>4
<1>3. ASSUME NEW l \in Lists, ~ NotReading, NEW number \in DOMAIN reading[1], ReadPage(l, number)
      PROVE  TypeOK' /\ ReadingOK'
  <2> DEFINE page == Page(Fetch(l), (number - 1) * ChunkSize)
             read == [reading[1] EXCEPT ![number] = <<page>>]
             after == IF l = "nfts" /\ Len(page) = ChunkSize THEN Append(read, <<>>) ELSE read
  <2>1. /\ Missing(l) /\ reading[1][number] = <<>> /\ reading' = <<after>>
        /\ UNCHANGED <<chain, least, most, steady, cache, stats, at, changes, failures, disturbed, mixed>>
    BY <1>3 DEF ReadPage
  <2>2. l \in Lists \ {"groups"}
    BY <1>3, <2>1, OneMissing DEF ReadingOK
  <2>3. /\ Fetch(l) \in Seq(Entries(l)) /\ ReadSoFar(l, Fetch(l), reading[1], least, most)
        /\ SteadyRead(l, Fetch(l), reading[1], least, steady)
    BY <1>3, <2>1, <2>2, ListsOnChain DEF ReadingOK
  <2>4. number \in 1 .. Len(reading[1])
    BY <1>3, <2>3, LenProperties DEF ReadSoFar
  <2>5. ReadSoFar(l, Fetch(l), after, least, most) /\ SteadyRead(l, Fetch(l), after, least, steady)
    BY <2>1, <2>2, <2>3, <2>4, PageRead
  <2> HIDE DEF after
  <2>6. TypeOK'
    <3>1. UNCHANGED <<policy, proposals, bounties, nfts, cache, stats, at, disturbed, mixed>>
      BY <2>1 DEF chain
    <3> QED
      BY <3>1 DEF TypeOK
  <2>7. ReadingOK'
    <3>1. \A k : Missing(k)' <=> Missing(k)
      BY <2>1 DEF Missing
    <3>2. Fetch(l)' = Fetch(l)
      BY <2>1 DEF Fetch, chain
    <3>3. reading'[1] = after /\ reading' = <<reading'[1]>>
      BY <2>1
    <3>4. /\ ReadSoFar(l, Fetch(l)', reading'[1], least', most')
          /\ SteadyRead(l, Fetch(l)', reading'[1], least', steady')
      BY <2>1, <2>5, <3>2, <3>3
    <3>5. \A k \in Lists \ {"groups"} : Missing(k)' => k = l
      BY <2>1, <3>1, OneMissing
    <3> QED
      BY <2>1, <2>2, <3>1, <3>3, <3>4, <3>5 DEF ReadingOK
  <2> QED
    BY <2>6, <2>7
<1>4. ASSUME NEW l \in Lists, FinishReading(l) PROVE TypeOK' /\ ReadingOK'
  <2>1. /\ l \in Lists \ {"groups"} /\ at < 16 /\ NotReading'
        /\ UNCHANGED <<chain, changes, failures, disturbed, mixed>>
    <3>1. Missing(l) /\ ~ NotReading
      BY <1>4 DEF FinishReading
    <3>2. l \in Lists \ {"groups"}
      BY <3>1, OneMissing DEF ReadingOK
    <3> QED
      BY <1>4, <3>1, <3>2, MissingAt DEF FinishReading, NotReading
  <2>2. PICK whole \in Seq(Entries(l)) : Keep(l, whole) /\ Store(whole)
    BY <1>4, <2>1, WholeList
  <2>3. /\ cache' = [k \in Lists |-> cache'[k]] /\ cache'[l] = <<whole>>
        /\ \A k \in Lists \ {l} : cache'[k] = cache[k]
    BY <2>2, Kept DEF Keep
  <2>4. at' \in 0 .. 16 /\ stats' = [m \in Metrics |-> stats'[m]]
    BY <2>1, <2>2, Stored
  <2>5. <<whole>> \in Slots(l)
    BY <2>2 DEF Slots
  <2>6. /\ \A k \in Lists \ {"groups"} : cache'[k] \in Slots(k)
        /\ cache'["groups"] = cache["groups"]
    BY <2>1, <2>3, <2>5 DEF TypeOK, Lists
  <2>7. policy' = policy /\ proposals' = proposals /\ bounties' = bounties /\ nfts' = nfts
        /\ disturbed' = disturbed /\ mixed' = mixed
    BY <2>1 DEF chain
  <2>8. TypeOK'
    BY <2>3, <2>4, <2>6, <2>7 DEF TypeOK
  <2> QED
    BY <2>1, <2>8, IdleReads
<1>5. ASSUME NEW l \in Lists, ReadKept(l) PROVE TypeOK' /\ ReadingOK'
  <2>1. /\ at < 16 /\ l = ListOf(Order[at + 1]) /\ cache[l] # <<>> /\ Store(cache[l][1])
        /\ UNCHANGED <<chain, pages, cache, changes, failures, disturbed, mixed>>
    BY <1>5, OrderFacts DEF ReadKept
  <2>2. NotReading /\ NotReading'
    <3>1. \A k : ~ Missing(k)
      BY <2>1 DEF Missing
    <3> QED
      BY <2>1, <3>1, Idle DEF NotReading, pages
  <2>3. at' \in 0 .. 16 /\ stats' = [m \in Metrics |-> stats'[m]]
    BY <2>1, Stored
  <2>4. UNCHANGED <<policy, proposals, bounties, nfts, cache, disturbed, mixed>>
    BY <2>1 DEF chain
  <2>5. TypeOK'
    BY <2>3, <2>4 DEF TypeOK
  <2> QED
    BY <2>2, <2>5, IdleReads
<1>6. CASE MetricFails
  <2>1. at' = at + 1 /\ at < 16 /\ at \in 0 .. 16 /\ NotReading' /\ disturbed' = TRUE /\ mixed' = TRUE
    BY <1>6, OrderFacts DEF MetricFails, NotReading, Missing, TypeOK
  <2>2. UNCHANGED <<policy, proposals, bounties, nfts, cache, stats>>
    BY <1>6 DEF MetricFails, chain
  <2>3. at' \in 0 .. 16
    BY <2>1
  <2>4. TypeOK'
    BY <2>1, <2>2, <2>3 DEF TypeOK
  <2> QED
    BY <2>1, <2>4, IdleReads
<1>7. CASE NftsUnreadable
  <2>1. at < 16 /\ Store(<<>>) /\ NotReading /\ reading' = reading
    BY <1>7, MissingAt DEF NftsUnreadable, pages
  <2>2. at' \in 0 .. 16 /\ stats' = [m \in Metrics |-> stats'[m]]
    BY <2>1, Stored
  <2>3. UNCHANGED <<policy, proposals, bounties, nfts, cache, disturbed, mixed>>
    BY <1>7 DEF NftsUnreadable, chain
  <2>4. TypeOK'
    BY <2>2, <2>3 DEF TypeOK
  <2>5. NotReading'
    BY <2>1 DEF NotReading
  <2> QED
    BY <2>4, <2>5, IdleReads
<1>8. CASE FinishSweep
  <2>1. at = 16 /\ at' = 0 /\ disturbed' = FALSE /\ mixed' = disturbed /\ reading' = reading
    BY <1>8, OrderFacts DEF FinishSweep, pages
  <2>2. UNCHANGED <<policy, proposals, bounties, nfts, cache, stats>>
    BY <1>8 DEF FinishSweep, chain
  <2>3. NotReading'
    <3>1. \A k : ~ Missing(k)
      BY <2>1, OrderFacts DEF Missing
    <3>2. NotReading
      BY <3>1, Idle
    <3> QED
      BY <2>1, <3>2 DEF NotReading
  <2>4. at' \in 0 .. 16
    BY <2>1
  <2>5. disturbed' \in BOOLEAN /\ mixed' \in BOOLEAN
    <3>1. disturbed \in BOOLEAN
      BY DEF TypeOK
    <3> QED
      BY <2>1, <3>1, Zenon
  <2>6. TypeOK'
    BY <2>2, <2>4, <2>5 DEF TypeOK
  <2> QED
    BY <2>3, <2>6, IdleReads
<1>9. ASSUME NEW l \in Lists, Expires(l) PROVE TypeOK' /\ ReadingOK'
  <2>1. /\ cache[l] # <<>> /\ cache' = [cache EXCEPT ![l] = <<>>] /\ at' = at
        /\ disturbed' = (disturbed \/ at > 0) /\ mixed' = (mixed \/ at > 0)
        /\ UNCHANGED <<chain, pages, stats>>
    BY <1>9 DEF Expires
  <2>2. /\ cache' = [k \in Lists |-> cache'[k]] /\ cache'[l] = <<>>
        /\ \A k \in Lists \ {l} : cache'[k] = cache[k]
    BY <2>1, Kept
  <2>3. UNCHANGED <<policy, proposals, bounties, nfts, reading, least, most, steady, stats, at>>
    BY <2>1 DEF chain, pages
  <2>4. \A k : <<>> \in Slots(k)
    BY DEF Slots
  <2>5. disturbed' \in BOOLEAN /\ mixed' \in BOOLEAN
    BY <2>1
  <2>6. TypeOK'
    BY <2>2, <2>3, <2>4, <2>5 DEF TypeOK, Lists
  <2>7. \A k \in Lists : Missing(k) => Missing(k)'
    BY <2>1, <2>2 DEF Missing
  <2>8. CASE NotReading
    <3>1. NotReading'
      BY <2>3, <2>8 DEF NotReading
    <3> QED
      BY <2>6, <3>1, IdleReads
  <2>9. CASE ~ NotReading
    <3>1. PICK k \in Lists \ {"groups"} : Missing(k)
      BY <2>9 DEF ReadingOK
    <3>2. Missing(k)' /\ \A j \in Lists : Missing(j)' => j = k
      BY <2>7, <3>1, <2>1 DEF Missing
    <3>3. \A j : Fetch(j)' = Fetch(j)
      BY <2>3 DEF Fetch
    <3>4. /\ ReadSoFar(k, Fetch(k)', reading'[1], least', most') /\ reading' = <<reading'[1]>>
          /\ SteadyRead(k, Fetch(k)', reading'[1], least', steady')
      BY <2>3, <2>9, <3>1, <3>3 DEF ReadingOK
    <3> QED
      BY <2>6, <3>1, <3>2, <3>4 DEF ReadingOK
  <2> QED
    BY <2>6, <2>8, <2>9
<1>10. CASE DaoChanges
  <2>1. /\ UNCHANGED <<Sweep, reading>>
        /\ policy' \in Policies /\ proposals' \in Seq(Proposal) /\ Extends(proposals, proposals')
        /\ bounties' \in Seq(Amounts) /\ Len(bounties) <= Len(bounties') /\ nfts' \in Seq(Tokens)
    BY <1>10, DaoStep
  <2>2. UNCHANGED <<cache, stats, at, disturbed, mixed, reading>>
    BY <2>1 DEF Sweep
  <2>3. TypeOK'
    BY <2>1, <2>2 DEF TypeOK
  <2>4. ASSUME NEW l \in Lists \ {"groups"}, ~ NotReading, Missing(l)
        PROVE  ReadSoFar(l, Fetch(l)', reading[1], least', most') /\ SteadyRead(l, Fetch(l)', reading[1], least', steady')
    <3>1. Followed(l)
      BY <1>10, <2>4, DaoStep
    <3>2. Fetch(l) \in Seq(Entries(l)) /\ ReadSoFar(l, Fetch(l), reading[1], least, most)
      BY <2>4, ListsOnChain DEF ReadingOK
    <3>3. l \in {"proposals", "bounties", "nfts"} /\ Fetch(l)' \in Seq(Entries(l))
      BY <2>1, <2>4 DEF Fetch, Entries, Lists
    <3>4. l # "nfts" => Len(Fetch(l)) <= Len(Fetch(l)')
      BY <2>1, <3>3 DEF Fetch, Extends
    <3>5. l = "proposals" => Extends(Fetch(l), Fetch(l)')
      BY <2>1 DEF Fetch
    <3> DEFINE now == Fetch(l)'
               was == Fetch(l)
    <3> HIDE DEF now, was
    <3>6. was \in Seq(Entries(l)) /\ now \in Seq(Entries(l)) /\ ReadSoFar(l, was, reading[1], least, most)
          /\ (l # "nfts" => Len(was) <= Len(now)) /\ (l = "proposals" => Extends(was, now))
      BY <3>2, <3>3, <3>4, <3>5 DEF now, was
    <3>7. ReadSoFar(l, now, reading[1], IF Len(now) < least THEN Len(now) ELSE least,
                                        IF Len(now) > most THEN Len(now) ELSE most)
      BY <3>6, ListChanged
    <3>8. SteadyRead(l, now, reading[1], IF Len(now) < least THEN Len(now) ELSE least, steady')
      <4>1. DOMAIN now = 1 .. Len(now) /\ Len(now) \in Nat
        BY <3>6, LenProperties
      <4>2. least \in Nat
        BY <3>6 DEF ReadSoFar, LengthsOK
      <4>3. SteadyRead(l, was, reading[1], least, steady)
        BY <2>4 DEF ReadingOK, was
      <4>4. \A i \in steady' : i \in steady /\ i \in DOMAIN now /\ SameEntry(l, was[i], now[i])
        BY <3>1 DEF Followed, was, now
      <4> QED
        BY <4>1, <4>2, <4>3, <4>4, SteadyChanged
    <3> QED
      BY <3>1, <3>7, <3>8 DEF now, Followed
  <2>5. \A k : Missing(k)' <=> Missing(k)
    BY <2>2 DEF Missing
  <2>6. ReadingOK'
    BY <2>2, <2>4, <2>5 DEF ReadingOK, NotReading
  <2> QED
    BY <2>3, <2>6
<1>11. CASE UNCHANGED vars
  <2>1. UNCHANGED <<policy, proposals, bounties, nfts, reading, least, most, steady, cache, stats, at, disturbed, mixed>>
    BY <1>11 DEF vars, chain, pages
  <2> QED
    BY <2>1 DEF TypeOK, ReadingOK, NotReading, Missing, Fetch
<1> QED
  BY <1>1, <1>2, <1>3, <1>4, <1>5, <1>6, <1>7, <1>8, <1>9, <1>10, <1>11 DEF Next

-----------------------------------------------------------------------------
(* The values of an undisturbed sweep                                      *)

\* In a sweep that was not disturbed the metrics that are done have the value of the
\* list that is kept.  (The last metric may have found no NFTs to read.)
FreshOK ==
    ~ disturbed =>
        \A j \in 1 .. 15 : j <= at =>
            /\ cache[ListOf(Order[j])] # <<>>
            /\ stats[Order[j]] = CurrentValue(Order[j], cache[ListOf(Order[j])][1])

\* A stored value is that of the list that is kept.
LEMMA FreshStored ==
    ASSUME TypeOK, FreshOK, at < 16, disturbed' = disturbed, NEW list, Store(list),
           cache'[ListOf(Order[at + 1])] # <<>>, cache'[ListOf(Order[at + 1])][1] = list,
           \A k \in Lists : cache[k] # <<>> => cache'[k] = cache[k]
    PROVE  FreshOK'
<1>1. /\ at' = at + 1 /\ at \in 0 .. 16
      /\ stats'[Order[at + 1]] = CurrentValue(Order[at + 1], list)
      /\ \A j \in 1 .. 16 : j # at + 1 => stats'[Order[j]] = stats[Order[j]]
  BY Stored DEF TypeOK
<1> SUFFICES ASSUME ~ disturbed, NEW j \in 1 .. 15, j <= at'
             PROVE  /\ cache'[ListOf(Order[j])] # <<>>
                    /\ stats'[Order[j]] = CurrentValue(Order[j], cache'[ListOf(Order[j])][1])
  BY DEF FreshOK
<1>2. CASE j = at + 1
  BY <1>1, <1>2
<1>3. CASE j # at + 1
  <2>1. j \in 1 .. 16 /\ j <= at
    BY <1>1, <1>3
  <2>2. cache[ListOf(Order[j])] # <<>> /\ stats[Order[j]] = CurrentValue(Order[j], cache[ListOf(Order[j])][1])
    BY <2>1 DEF FreshOK
  <2>3. cache'[ListOf(Order[j])] = cache[ListOf(Order[j])] /\ stats'[Order[j]] = stats[Order[j]]
    BY <1>1, <1>3, <2>1, <2>2, OrderFacts
  <2> QED
    BY <2>2, <2>3
<1> QED
  BY <1>2, <1>3

\* Every step of an undisturbed sweep keeps the values those of the kept lists.
LEMMA FreshStep ==
    ASSUME TypeOK, ReadingOK, FreshOK, [Next]_vars
    PROVE  FreshOK'
<1>1. ASSUME NEW l \in Lists, Missing(l), NEW list, Keep(l, list), Store(list), disturbed' = disturbed
      PROVE  FreshOK'
  <2>1. l = ListOf(Order[at + 1]) /\ at < 16 /\ cache[l] = <<>>
    BY <1>1, MissingAt
  <2>2. cache'[l] = <<list>> /\ \A k \in Lists \ {l} : cache'[k] = cache[k]
    BY <1>1, Kept DEF Keep
  <2>3. cache'[l] # <<>> /\ cache'[l][1] = list
    BY <2>2
  <2>4. \A k \in Lists : cache[k] # <<>> => cache'[k] = cache[k]
    BY <2>1, <2>2
  <2> QED
    BY <1>1, <2>1, <2>3, <2>4, FreshStored
<1>2. CASE ReadGroups
  <2>1. Missing("groups") /\ Keep("groups", Fetch("groups")) /\ Store(Fetch("groups")) /\ disturbed' = disturbed
        /\ "groups" \in Lists
    BY <1>2 DEF ReadGroups, Lists
  <2> QED
    BY <1>1, <2>1
<1>3. ASSUME NEW l \in Lists, FinishReading(l) PROVE FreshOK'
  <2>1. Missing(l) /\ disturbed' = disturbed /\ l \in Lists \ {"groups"}
    BY <1>3, OneMissing DEF FinishReading, ReadingOK
  <2>2. PICK whole : Keep(l, whole) /\ Store(whole)
    BY <1>3 DEF FinishReading
  <2> QED
    BY <1>1, <2>1, <2>2
<1>4. ASSUME NEW l \in Lists, ReadKept(l) PROVE FreshOK'
  <2>1. /\ at < 16 /\ l = ListOf(Order[at + 1]) /\ cache[l] # <<>> /\ Store(cache[l][1])
        /\ cache' = cache /\ disturbed' = disturbed
    BY <1>4, OrderFacts DEF ReadKept
  <2> QED
    BY <2>1, FreshStored
<1>5. ASSUME NEW l \in Lists, StartReading(l) \/ \E number \in DOMAIN reading[1] : ReadPage(l, number)
      PROVE  FreshOK'
  <2>1. cache' = cache /\ stats' = stats /\ at' = at /\ disturbed' = disturbed
    BY <1>5 DEF StartReading, ReadPage
  <2> QED
    BY <2>1 DEF FreshOK
<1>6. CASE MetricFails
  BY <1>6 DEF MetricFails, FreshOK
<1>7. CASE NftsUnreadable
  <2>1. /\ Missing("nfts") /\ Store(<<>>) /\ cache' = cache /\ disturbed' = disturbed
    BY <1>7 DEF NftsUnreadable
  <2>2. at = 15
    <3>1. at < 16 /\ at + 1 \in 1 .. 16 /\ ListOf(Order[at + 1]) = "nfts"
      BY <2>1, MissingAt
    <3>2. at + 1 = 16
      BY <3>1, OrderFacts
    <3> QED
      BY <3>2 DEF TypeOK
  <2>3. at' = at + 1 /\ \A j \in 1 .. 16 : j # at + 1 => stats'[Order[j]] = stats[Order[j]]
    BY <2>1, <2>2, Stored
  <2>4. \A j \in 1 .. 15 : j <= at /\ j # at + 1 /\ j \in 1 .. 16
    BY <2>2
  <2> QED
    BY <2>1, <2>3, <2>4 DEF FreshOK
<1>8. CASE FinishSweep
  <2>1. at' = 0
    BY <1>8 DEF FinishSweep
  <2>2. \A j \in 1 .. 15 : ~ (j <= 0)
    OBVIOUS
  <2> QED
    BY <2>1, <2>2 DEF FreshOK
<1>9. ASSUME NEW l \in Lists, Expires(l) PROVE FreshOK'
  <2>1. disturbed' = (disturbed \/ at > 0) /\ at' = at
    BY <1>9 DEF Expires
  <2>2. ~ disturbed' => at = 0
    <3>1. ~ disturbed' => ~ (at > 0)
      BY <2>1, Zenon
    <3>2. ~ (at > 0) => at = 0
      BY DEF TypeOK
    <3> QED
      BY <3>1, <3>2
  <2>3. \A j \in 1 .. 15 : ~ (j <= 0)
    OBVIOUS
  <2> QED
    BY <2>1, <2>2, <2>3 DEF FreshOK
<1>10. CASE DaoChanges
  <2>1. cache' = cache /\ stats' = stats /\ at' = at /\ disturbed' = disturbed
    BY <1>10, DaoStep DEF Sweep
  <2> QED
    BY <2>1 DEF FreshOK
<1>11. CASE UNCHANGED vars
  BY <1>11 DEF vars, FreshOK
<1> QED
  BY <1>2, <1>3, <1>4, <1>5, <1>6, <1>7, <1>8, <1>9, <1>10, <1>11 DEF Next

\* The council is a part of the members.
LEMMA CouncilInMembers ==
    ASSUME NEW p \in Policies
    PROVE  LET gs == RestrictValues(p, IsRoleGroup)
           IN  /\ CouncilSizeMetric(gs) <= MembersCountMetric(gs)
               /\ GroupsCountMetric(gs) = 0 => MembersCountMetric(gs) = 0
<1> DEFINE gs == RestrictValues(p, IsRoleGroup)
           members == UNION {gs[i].members : i \in DOMAIN gs}
           council == {i \in DOMAIN gs : IsRoleGroupCouncil(gs[i])}
           first == CHOOSE i \in council : \A j \in council : i <= j
<1>1. p \in Seq(Role)
  BY InputsAssumption
<1>2. DOMAIN gs \subseteq 1 .. Len(p) /\ \A i \in DOMAIN gs : gs[i] = p[i] /\ gs[i] \in Role
  BY <1>1, ElementOfSeq, LenProperties DEF RestrictValues, Restrict
<1> HIDE DEF gs
<1>3. \A i \in DOMAIN gs : gs[i].members \subseteq Members
  BY <1>2 DEF Role
<1>4. members \subseteq Members
  BY <1>3
<1>5. IsFiniteSet(members) /\ Cardinality(members) \in Nat
  BY <1>4, InputsAssumption, FS_Subset, FS_CardinalityType
<1>6. IsFiniteSet(DOMAIN gs)
  <2>1. IsFiniteSet(1 .. Len(p))
    BY <1>1, LenProperties, FS_Interval
  <2> DEFINE D == DOMAIN gs
  <2>2. D \in SUBSET (1 .. Len(p))
    BY <1>2
  <2> HIDE DEF D
  <2>3. IsFiniteSet(D)
    BY <2>1, <2>2, FS_Subset
  <2> QED
    BY <2>3 DEF D
<1>7. council # {} => first \in DOMAIN gs
  <2> SUFFICES ASSUME council # {} PROVE first \in DOMAIN gs
    OBVIOUS
  <2>1. council \in SUBSET Nat
    BY <1>1, <1>2, LenProperties
  <2>2. \E i \in council : \A j \in council : i <= j
    BY <2>1, LeastNatural
  <2>3. first \in council
    BY <2>2
  <2> QED
    BY <2>3
<1>8. CouncilSizeMetric(gs) = IF council = {} THEN 0 ELSE Cardinality(gs[first].members)
  BY DEF CouncilSizeMetric
<1>9. MembersCountMetric(gs) = Cardinality(members) /\ GroupsCountMetric(gs) = Cardinality(DOMAIN gs)
  BY DEF MembersCountMetric, GroupsCountMetric
<1>10. CouncilSizeMetric(gs) <= Cardinality(members)
  <2>1. CASE council = {}
    BY <1>5, <1>8, <2>1
  <2>2. CASE council # {}
    <3>1. gs[first].members \subseteq members
      <4> HIDE DEF first
      <4> QED
        BY <1>7, <2>2
    <3> HIDE DEF members, first
    <3> QED
      BY <1>5, <1>8, <2>2, <3>1, FS_Subset
  <2> QED
    BY <2>1, <2>2
<1>11. Cardinality(DOMAIN gs) = 0 => Cardinality(members) = 0
  <2> SUFFICES ASSUME Cardinality(DOMAIN gs) = 0 PROVE Cardinality(members) = 0
    OBVIOUS
  <2>1. DOMAIN gs = {}
    BY <1>6, FS_EmptySet
  <2>2. members = {}
    BY <2>1
  <2> HIDE DEF members
  <2> QED
    BY <2>2, FS_EmptySet
<1> QED
  BY <1>9, <1>10, <1>11 DEF gs

\* No bounty, nothing locked.
LEMMA NoBounties ==
    ASSUME NEW bs \in Seq(Amounts), BountiesCountMetric(bs) = 0
    PROVE  BountiesValueLockedMetric(bs) = 0
<1>1. DOMAIN bs = {}
  BY LenProperties DEF BountiesCountMetric
<1>2. IsFiniteSet({}) /\ SumFunctionOnSet(bs, {}) = 0
  BY FS_EmptySet, SumRecursion
<1> QED
  BY <1>1, <1>2 DEF BountiesValueLockedMetric

\* Values of one list of groups and of one list of bounties agree.
LEMMA FreshGroups ==
    ASSUME TypeOK, FreshOK
    PROVE  GroupsAgree
<1> SUFFICES ASSUME at = Len(Order), ~ disturbed
             PROVE  /\ stats["COUNCIL_SIZE"] <= stats["MEMBERS"]
                    /\ stats["GROUPS"] = 0 => stats["MEMBERS"] = 0
                    /\ stats["BOUNTIES"] = 0 => stats["BOUNTIES_VALUE"] = 0
  BY DEF GroupsAgree
<1>1. at = 16
  BY OrderFacts
<1>2. \A j \in 1 .. 15 : /\ cache[ListOf(Order[j])] # <<>>
                         /\ stats[Order[j]] = CurrentValue(Order[j], cache[ListOf(Order[j])][1])
  <2>1. \A j \in 1 .. 15 : j <= at
    BY <1>1
  <2> QED
    BY <2>1 DEF FreshOK
<1>3. /\ Order[1] = "COUNCIL_SIZE" /\ Order[2] = "GROUPS" /\ Order[3] = "MEMBERS"
      /\ Order[14] = "BOUNTIES" /\ Order[15] = "BOUNTIES_VALUE"
  BY DEF Order
<1>4. /\ ListOf("COUNCIL_SIZE") = "groups" /\ ListOf("GROUPS") = "groups" /\ ListOf("MEMBERS") = "groups"
      /\ ListOf("BOUNTIES") = "bounties" /\ ListOf("BOUNTIES_VALUE") = "bounties"
  BY DEF ListOf
<1> DEFINE gs == cache["groups"][1]
           bs == cache["bounties"][1]
<1>5. /\ cache["groups"] # <<>> /\ cache["bounties"] # <<>>
      /\ stats["COUNCIL_SIZE"] = CurrentValue("COUNCIL_SIZE", gs)
      /\ stats["GROUPS"] = CurrentValue("GROUPS", gs)
      /\ stats["MEMBERS"] = CurrentValue("MEMBERS", gs)
      /\ stats["BOUNTIES"] = CurrentValue("BOUNTIES", bs)
      /\ stats["BOUNTIES_VALUE"] = CurrentValue("BOUNTIES_VALUE", bs)
  <2>1. 1 \in 1 .. 15 /\ 2 \in 1 .. 15 /\ 3 \in 1 .. 15 /\ 14 \in 1 .. 15 /\ 15 \in 1 .. 15
    OBVIOUS
  <2> QED
    BY <1>2, <1>3, <1>4, <2>1
<1>6. PICK p \in Policies : cache["groups"] = <<RestrictValues(p, IsRoleGroup)>>
  BY <1>5 DEF TypeOK
<1>7. bs \in Seq(Amounts)
  <2>1. cache["bounties"] \in Slots("bounties")
    BY DEF TypeOK, Lists
  <2>2. bs \in Seq(Entries("bounties"))
    BY <1>5, <2>1, SlotFacts
  <2> QED
    BY <2>2 DEF Entries
<1>8. gs = RestrictValues(p, IsRoleGroup)
  BY <1>6
<1> HIDE DEF gs, bs
<1>9. CouncilSizeMetric(gs) <= MembersCountMetric(gs) /\ (GroupsCountMetric(gs) = 0 => MembersCountMetric(gs) = 0)
  BY <1>8, CouncilInMembers
<1>10. BountiesCountMetric(bs) = 0 => BountiesValueLockedMetric(bs) = 0
  BY <1>7, NoBounties
<1> QED
  BY <1>5, <1>9, <1>10 DEF CurrentValue

-----------------------------------------------------------------------------
(* The values of two sweeps                                                *)

\* The values of proposals that this sweep has yet to compute stem from an older list.
OldOK(old) ==
    /\ \A j \in 4 .. 13 : j > at => stats[Order[j]] = CurrentValue(Order[j], old)
    /\ Extends(old, proposals)
    /\ cache["proposals"] # <<>> => Extends(old, cache["proposals"][1])
    /\ ~ NotReading /\ Missing("proposals") => OldRead(old, reading[1], least)

\* Unless something was disturbed there is such a list.
MixedOK ==
    /\ disturbed => mixed
    /\ cache["proposals"] # <<>> => Extends(cache["proposals"][1], proposals)
    /\ ~ mixed => \E old \in Seq(Proposal) : OldOK(old)

\* The proposals that are kept.
LEMMA KeptProposals ==
    ASSUME TypeOK, cache["proposals"] # <<>>
    PROVE  cache["proposals"][1] \in Seq(Proposal)
<1>1. cache["proposals"] \in Slots("proposals")
  BY DEF TypeOK, Lists
<1> QED
  BY <1>1, SlotFacts DEF Entries

\* The invariants of the values at the beginning.
LEMMA MixedInit == Init => FreshOK /\ MixedOK
<1> SUFFICES ASSUME Init PROVE FreshOK /\ MixedOK
  OBVIOUS
<1>1. at = 0 /\ NotReading /\ disturbed = FALSE /\ cache["proposals"] = <<>> /\ proposals = <<>>
      /\ stats = [m \in Metrics |-> 0]
  BY DEF Init, NotReading, Lists
<1>2. FreshOK
  <2>1. \A j \in 1 .. 15 : ~ (j <= 0)
    OBVIOUS
  <2> QED
    BY <1>1, <2>1 DEF FreshOK
<1>3. <<>> \in Seq(Proposal) /\ Extends(<<>>, proposals)
  <2>1. <<>> \in Seq(Proposal)
    BY EmptySeq
  <2>2. Extends(<<>>, <<>>)
    BY <2>1, ExtendsSame
  <2> QED
    BY <1>1, <2>1, <2>2
<1>4. ASSUME NEW j \in 4 .. 13 PROVE stats[Order[j]] = CurrentValue(Order[j], <<>>)
  <2>1. stats[Order[j]] = 0
    BY <1>1, OrderFacts
  <2>2. /\ Order[4] = "PROPOSALS" /\ Order[5] = "MEMBER" /\ Order[6] = "COUNCIL_MEMBER"
        /\ Order[7] = "POLICY_CHANGE" /\ Order[8] = "TRANSFER" /\ Order[9] = "BOUNTY"
        /\ Order[10] = "IN_PROGRESS" /\ Order[11] = "APPROVED" /\ Order[12] = "REJECTED"
        /\ Order[13] = "EXPIRED"
    BY DEF Order
  <2> DEFINE none == <<>>
  <2>3. DOMAIN none = {} /\ Len(none) = 0
    OBVIOUS
  <2> HIDE DEF none
  <2>4. \A s : OfStatus(none, s) = {} /\ OfKind(none, s) = {}
    BY <2>3 DEF OfStatus, OfKind
  <2>5. Cardinality({}) = 0
    BY FS_EmptySet
  <2>6. CurrentValue("COUNCIL_MEMBER", none) = 0
    <3>1. CurrentValue("COUNCIL_MEMBER", none) = ProposalsCouncilMemberCountMetric(none)
      BY DEF CurrentValue
    <3>2. {i \in DOMAIN none : none[i].kind \in MemberKinds /\ none[i].role \in {"council", "Council"}} = {}
      BY <2>3
    <3> QED
      BY <2>5, <3>1, <3>2 DEF ProposalsCouncilMemberCountMetric
  <2>7. /\ CurrentValue("PROPOSALS", none) = 0 /\ CurrentValue("MEMBER", none) = 0
        /\ CurrentValue("BOUNTY", none) = 0 /\ CurrentValue("TRANSFER", none) = 0
        /\ CurrentValue("POLICY_CHANGE", none) = 0 /\ CurrentValue("IN_PROGRESS", none) = 0
        /\ CurrentValue("APPROVED", none) = 0 /\ CurrentValue("REJECTED", none) = 0
        /\ CurrentValue("EXPIRED", none) = 0
    BY <2>3, <2>4, <2>5, ProposalValues
  <2>8. j \in {4, 5, 6, 7, 8, 9, 10, 11, 12, 13}
    BY <1>4
  <2>9. CurrentValue(Order[j], none) = 0
    BY <2>2, <2>6, <2>7, <2>8
  <2> QED
    BY <2>1, <2>9 DEF none
<1>5. OldOK(<<>>)
  BY <1>1, <1>3, <1>4 DEF OldOK
<1> QED
  BY <1>1, <1>2, <1>3, <1>5 DEF MixedOK

\* What is left of the older list when one more metric is done.
LEMMA OldStored ==
    ASSUME TypeOK, NEW old \in Seq(Proposal), OldOK(old), at < 16, NEW list, Store(list)
    PROVE  \A j \in 4 .. 13 : j > at' => stats'[Order[j]] = CurrentValue(Order[j], old)
<1>1. at' = at + 1 /\ at \in 0 .. 16 /\ \A j \in 1 .. 16 : j # at + 1 => stats'[Order[j]] = stats[Order[j]]
  BY Stored DEF TypeOK
<1>2. ASSUME NEW j \in 4 .. 13, j > at' PROVE stats'[Order[j]] = CurrentValue(Order[j], old)
  <2>1. j \in 1 .. 16 /\ j # at + 1 /\ j > at
    <3>1. at' = at + 1 /\ at \in 0 .. 16 /\ j > at'
      BY <1>1, <1>2
    <3> QED
      BY <3>1
  <2> QED
    BY <1>1, <2>1 DEF OldOK
<1> QED
  BY <1>2

\* Every step keeps the values those of the kept list or of one older state of it.
LEMMA MixedStep ==
    ASSUME TypeOK, ReadingOK, FreshOK, MixedOK, [Next]_vars
    PROVE  MixedOK'
<1>1. /\ at \in 0 .. 16 /\ proposals \in Seq(Proposal)
      /\ (cache["proposals"] # <<>> => cache["proposals"][1] \in Seq(Proposal))
      /\ "proposals" \in Lists \ {"groups"}
  BY KeptProposals DEF TypeOK, Lists
\* Steps that store a value and leave the proposals that are kept alone.
<1>2. ASSUME at < 16, NEW list, Store(list), NotReading', cache'["proposals"] = cache["proposals"],
             UNCHANGED <<proposals, disturbed, mixed>>
      PROVE  MixedOK'
  <2>1. ASSUME NEW old \in Seq(Proposal), OldOK(old) PROVE OldOK(old)'
    <3>1. \A j \in 4 .. 13 : j > at' => stats'[Order[j]] = CurrentValue(Order[j], old)
      BY <1>2, <2>1, OldStored
    <3> QED
      BY <1>2, <2>1, <3>1 DEF OldOK
  <2> QED
    BY <1>2, <2>1 DEF MixedOK
<1>3. CASE ReadGroups
  <2>1. /\ Missing("groups") /\ cache' = [cache EXCEPT !["groups"] = <<Fetch("groups")>>]
        /\ Store(Fetch("groups")) /\ UNCHANGED <<chain, pages, disturbed, mixed>>
    BY <1>3 DEF ReadGroups, Keep
  <2>2. at < 16 /\ NotReading
    BY <2>1, MissingAt, Idle, OneMissing
  <2>3. NotReading' /\ UNCHANGED <<proposals, disturbed, mixed>>
    BY <2>1, <2>2 DEF NotReading, pages, chain
  <2>4. cache'["proposals"] = cache["proposals"]
    <3>1. "groups" \in Lists
      BY DEF Lists
    <3> QED
      BY <1>1, <2>1, <3>1, Kept
  <2> QED
    BY <1>2, <2>1, <2>2, <2>3, <2>4
<1>4. ASSUME NEW l \in Lists, StartReading(l) PROVE MixedOK'
  <2> DEFINE parts == [page \in 1 .. Pages(l) |-> <<>>]
  <2>1. /\ l \in Lists \ {"groups"} /\ Missing(l) /\ reading' = <<parts>> /\ least' = Len(Fetch(l))
        /\ UNCHANGED <<proposals, cache, stats, at, disturbed, mixed>>
    BY <1>4 DEF StartReading, chain
  <2>2. ASSUME NEW old \in Seq(Proposal), OldOK(old) PROVE OldOK(old)'
    <3>1. l = "proposals" => OldRead(old, parts, Len(Fetch(l)))
      <4> SUFFICES ASSUME l = "proposals" PROVE OldRead(old, parts, Len(Fetch(l)))
        OBVIOUS
      <4>1. Len(old) <= Len(Fetch(l))
        BY <2>2 DEF OldOK, Extends, Fetch
      <4>2. ReadSoFar(l, Fetch(l), parts, Len(Fetch(l)), Len(Fetch(l)))
        BY <2>1, ListsOnChain, NothingRead
      <4>3. DOMAIN parts = 1 .. Len(parts)
        BY <4>2, LenProperties DEF ReadSoFar
      <4>4. \A k \in 1 .. Len(parts) : parts[k] = <<>>
        BY <4>3
      <4> HIDE DEF parts
      <4> QED
        BY <4>1, <4>4 DEF OldRead
    <3> HIDE DEF parts
    <3>2. reading'[1] = parts
      BY <2>1
    <3>3. Missing("proposals")' => l = "proposals"
      BY <2>1 DEF Missing
    <3>4. ~ NotReading' /\ Missing("proposals")' => OldRead(old, reading'[1], least')
      BY <2>1, <3>1, <3>2, <3>3
    <3> QED
      BY <2>1, <2>2, <3>4 DEF OldOK
  <2> QED
    BY <2>1, <2>2 DEF MixedOK
<1>5. ASSUME NEW l \in Lists, ~ NotReading, NEW number \in DOMAIN reading[1], ReadPage(l, number)
      PROVE  MixedOK'
  <2> DEFINE page == Page(Fetch(l), (number - 1) * ChunkSize)
             read == [reading[1] EXCEPT ![number] = <<page>>]
  <2>1. /\ Missing(l) /\ UNCHANGED <<proposals, least, cache, stats, at, disturbed, mixed>>
        /\ (l = "proposals" => reading' = <<read>>)
    BY <1>5 DEF ReadPage, chain
  <2>2. ASSUME NEW old \in Seq(Proposal), OldOK(old) PROVE OldOK(old)'
    <3>1. l = "proposals" => OldRead(old, read, least)
      <4> SUFFICES ASSUME l = "proposals" PROVE OldRead(old, read, least)
        OBVIOUS
      <4>1. Fetch(l) = proposals /\ ReadSoFar("proposals", proposals, reading[1], least, most)
        BY <1>1, <1>5, <2>1, ListsOnChain DEF ReadingOK
      <4>2. reading[1] \in Seq(Slots("proposals")) /\ number \in 1 .. Len(reading[1])
        BY <1>5, <4>1, LenProperties DEF ReadSoFar
      <4>3. Extends(old, proposals) /\ OldRead(old, reading[1], least)
        BY <1>5, <2>1, <2>2 DEF OldOK
      <4> DEFINE parts == reading[1]
      <4> HIDE DEF parts
      <4>4. OldRead(old, [parts EXCEPT ![number] = <<Page(proposals, (number - 1) * ChunkSize)>>], least)
        BY <1>1, <4>2, <4>3, OldPageRead DEF parts
      <4> QED
        BY <4>1, <4>4 DEF parts
    <3> HIDE DEF read
    <3>2. Missing("proposals")' => l = "proposals"
      BY <2>1 DEF Missing
    <3>3. ~ NotReading' /\ Missing("proposals")' => OldRead(old, reading'[1], least')
      BY <2>1, <3>1, <3>2
    <3> QED
      BY <2>1, <2>2, <3>3 DEF OldOK
  <2> QED
    BY <2>1, <2>2 DEF MixedOK
<1>6. ASSUME NEW l \in Lists, FinishReading(l) PROVE MixedOK'
  <2>1. /\ Missing(l) /\ ~ NotReading /\ NotReading' /\ UNCHANGED <<proposals, disturbed, mixed>>
        /\ l \in Lists \ {"groups"} /\ at < 16
    <3>1. Missing(l) /\ ~ NotReading /\ NotReading' /\ UNCHANGED <<proposals, disturbed, mixed>>
      BY <1>6 DEF FinishReading, chain, NotReading
    <3> QED
      BY <3>1, MissingAt, OneMissing DEF ReadingOK
  <2>2. PICK whole : /\ Keep(l, whole) /\ Store(whole) /\ whole \in Seq(Entries(l))
                     /\ l = "proposals" =>
                           /\ Extends(whole, proposals)
                           /\ \A old \in Seq(Proposal) : OldRead(old, reading[1], least) => Extends(old, whole)
    BY <1>6, <2>1, WholeList
  <2>3. cache'[l] = <<whole>> /\ \A k \in Lists \ {l} : cache'[k] = cache[k]
    BY <2>2, Kept DEF Keep
  <2>4. CASE l # "proposals"
    BY <1>1, <1>2, <2>1, <2>2, <2>3, <2>4
  <2>5. CASE l = "proposals"
    <3>1. cache'["proposals"][1] = whole /\ Extends(whole, proposals')
      BY <2>1, <2>2, <2>3, <2>5
    <3>2. ASSUME NEW old \in Seq(Proposal), OldOK(old) PROVE OldOK(old)'
      <4>1. Extends(old, whole)
        BY <2>1, <2>2, <2>5, <3>2 DEF OldOK
      <4>2. \A j \in 4 .. 13 : j > at' => stats'[Order[j]] = CurrentValue(Order[j], old)
        BY <2>1, <2>2, <3>2, OldStored
      <4> QED
        BY <2>1, <3>1, <3>2, <4>1, <4>2 DEF OldOK
    <3> QED
      BY <2>1, <3>1, <3>2 DEF MixedOK
  <2> QED
    BY <2>4, <2>5
<1>7. ASSUME NEW l \in Lists, ReadKept(l) PROVE MixedOK'
  <2>1. /\ at < 16 /\ l = ListOf(Order[at + 1]) /\ cache[l] # <<>> /\ Store(cache[l][1])
        /\ cache' = cache /\ reading' = reading /\ UNCHANGED <<proposals, disturbed, mixed>>
    BY <1>7, OrderFacts DEF ReadKept, pages, chain
  <2>2. NotReading'
    <3>1. \A k : ~ Missing(k)
      BY <2>1 DEF Missing
    <3> QED
      BY <2>1, <3>1, Idle DEF NotReading
  <2> QED
    BY <1>2, <2>1, <2>2
<1>8. CASE MetricFails
  <2>1. mixed' = TRUE /\ cache' = cache /\ proposals' = proposals
    BY <1>8 DEF MetricFails, chain
  <2> QED
    BY <2>1 DEF MixedOK
<1>9. CASE NftsUnreadable
  <2>1. at < 16 /\ Store(<<>>) /\ NotReading' /\ cache' = cache /\ UNCHANGED <<proposals, disturbed, mixed>>
    BY <1>9, MissingAt DEF NftsUnreadable, pages, chain, NotReading
  <2> QED
    BY <1>2, <2>1
<1>10. CASE FinishSweep
  <2>1. /\ at = 16 /\ at' = 0 /\ disturbed' = FALSE /\ mixed' = disturbed
        /\ UNCHANGED <<proposals, reading, cache, stats>>
    BY <1>10, OrderFacts DEF FinishSweep, pages, chain
  <2>2. NotReading'
    <3>1. \A k : ~ Missing(k)
      BY <2>1, OrderFacts DEF Missing
    <3> QED
      BY <2>1, <3>1, Idle DEF NotReading
  <2>3. ASSUME ~ disturbed PROVE \E old \in Seq(Proposal) : OldOK(old)'
    <3>1. ASSUME NEW j \in 4 .. 13
          PROVE  /\ cache["proposals"] # <<>>
                 /\ stats[Order[j]] = CurrentValue(Order[j], cache["proposals"][1])
      <4>1. j \in 1 .. 15 /\ j <= at /\ j \in 1 .. 16
        BY <2>1
      <4>2. ListOf(Order[j]) = "proposals"
        BY <4>1, OrderFacts
      <4> QED
        BY <2>3, <4>1, <4>2 DEF FreshOK
    <3>2. cache["proposals"] # <<>>
      <4>1. 4 \in 4 .. 13
        OBVIOUS
      <4> QED
        BY <3>1, <4>1
    <3>3. PICK old \in Seq(Proposal) : old = cache["proposals"][1]
      BY <1>1, <3>2
    <3>4. Extends(old, proposals) /\ Extends(old, old)
      BY <3>2, <3>3, ExtendsSame DEF MixedOK
    <3>5. old = cache'["proposals"][1] /\ stats' = stats /\ proposals' = proposals
      BY <2>1, <3>3
    <3>6. OldOK(old)'
      BY <2>2, <3>1, <3>3, <3>4, <3>5 DEF OldOK
    <3> QED
      BY <3>6
  <2>4. (cache["proposals"] # <<>>)' => Extends(cache["proposals"][1], proposals)'
    BY <2>1 DEF MixedOK
  <2>5. ~ mixed' => \E old \in Seq(Proposal) : OldOK(old)'
    BY <2>1, <2>3
  <2> QED
    BY <2>1, <2>4, <2>5 DEF MixedOK
<1>11. ASSUME NEW l \in Lists, Expires(l) PROVE MixedOK'
  <2>1. /\ cache[l] # <<>> /\ cache' = [cache EXCEPT ![l] = <<>>]
        /\ disturbed' = (disturbed \/ at > 0) /\ mixed' = (mixed \/ at > 0)
        /\ UNCHANGED <<proposals, reading, least, stats, at>>
    BY <1>11 DEF Expires, chain, pages
  <2>2. /\ cache'[l] = <<>> /\ \A k \in Lists \ {l} : cache'[k] = cache[k]
    BY <2>1, Kept
  <2>3. cache'["proposals"] # <<>> => cache'["proposals"] = cache["proposals"]
    BY <1>1, <2>2
  <2>4. disturbed' => mixed'
    BY <2>1, Zenon DEF MixedOK
  <2>5. ~ mixed' => ~ mixed
    BY <2>1, Zenon
  <2>6. ~ NotReading' /\ Missing("proposals")' => ~ NotReading /\ Missing("proposals")
    <3> SUFFICES ASSUME ~ NotReading', Missing("proposals")' PROVE ~ NotReading /\ Missing("proposals")
      OBVIOUS
    <3>1. ~ NotReading
      BY <2>1 DEF NotReading
    <3>2. PICK k \in Lists \ {"groups"} : Missing(k)
      BY <3>1 DEF ReadingOK
    <3>3. k = "proposals"
      BY <2>1, <3>2 DEF Missing
    <3> QED
      BY <3>1, <3>2, <3>3
  <2>7. ASSUME NEW old \in Seq(Proposal), OldOK(old) PROVE OldOK(old)'
    BY <2>1, <2>3, <2>6, <2>7 DEF OldOK
  <2>8. cache'["proposals"] # <<>> => Extends(cache'["proposals"][1], proposals')
    BY <2>1, <2>3 DEF MixedOK
  <2> QED
    BY <2>4, <2>5, <2>7, <2>8 DEF MixedOK
<1>12. CASE DaoChanges
  <2>1. /\ UNCHANGED <<cache, stats, at, disturbed, mixed, reading>>
        /\ proposals' \in Seq(Proposal) /\ Extends(proposals, proposals')
        /\ (~ NotReading /\ Missing("proposals") => Followed("proposals"))
    BY <1>1, <1>12, DaoStep DEF Sweep
  <2>2. cache'["proposals"] # <<>> => Extends(cache'["proposals"][1], proposals')
    BY <1>1, <2>1, ExtendsTransitive DEF MixedOK
  <2>3. ~ NotReading /\ Missing("proposals") => least' = least
    <3> SUFFICES ASSUME ~ NotReading, Missing("proposals") PROVE least' = least
      OBVIOUS
    <3>1. Fetch("proposals") = proposals /\ Fetch("proposals")' = proposals'
      BY DEF Fetch
    <3>2. ReadSoFar("proposals", proposals, reading[1], least, most)
      BY <1>1, <3>1 DEF ReadingOK
    <3>3. least \in Nat /\ least <= Len(proposals) /\ Len(proposals) <= Len(proposals')
          /\ Len(proposals) \in Nat /\ Len(proposals') \in Nat
      BY <1>1, <2>1, <3>2, LenProperties DEF ReadSoFar, LengthsOK, Extends
    <3> QED
      BY <2>1, <3>1, <3>3 DEF Followed
  <2>4. ASSUME NEW old \in Seq(Proposal), OldOK(old) PROVE OldOK(old)'
    <3>1. Extends(old, proposals')
      BY <1>1, <2>1, <2>4, ExtendsTransitive DEF OldOK
    <3>2. ~ NotReading' /\ Missing("proposals")' => ~ NotReading /\ Missing("proposals")
      BY <2>1 DEF NotReading, Missing
    <3>3. ~ NotReading' /\ Missing("proposals")' => OldRead(old, reading'[1], least')
      BY <2>1, <2>3, <2>4, <3>2 DEF OldOK
    <3> QED
      BY <2>1, <2>4, <3>1, <3>3 DEF OldOK
  <2> QED
    BY <2>1, <2>2, <2>4 DEF MixedOK
<1>13. CASE UNCHANGED vars
  <2>1. UNCHANGED <<proposals, reading, least, cache, stats, at, disturbed, mixed>>
    BY <1>13 DEF vars, chain, pages
  <2>2. ASSUME NEW old \in Seq(Proposal), OldOK(old) PROVE OldOK(old)'
    BY <2>1, <2>2 DEF OldOK, NotReading, Missing
  <2> QED
    BY <2>1, <2>2 DEF MixedOK
<1> QED
  BY <1>3, <1>4, <1>5, <1>6, <1>7, <1>8, <1>9, <1>10, <1>11, <1>12, <1>13 DEF Next

\* Whatever was computed of which list, the parts are within the total.
LEMMA MixedParts ==
    ASSUME TypeOK, FreshOK, MixedOK
    PROVE  PartsWithinTotal
<1> SUFFICES ASSUME ~ mixed
             PROVE  /\ stats["IN_PROGRESS"] + stats["APPROVED"] + stats["REJECTED"] + stats["EXPIRED"]
                          <= stats["PROPOSALS"]
                    /\ stats["PROPOSALS"] - (stats["TRANSFER"] + stats["BOUNTY"] + stats["MEMBER"])
                          >= stats["POLICY_CHANGE"]
  BY DEF PartsWithinTotal, Approved, Total, GovernanceShare
<1>1. ~ disturbed /\ at \in 0 .. 16
  BY DEF MixedOK, TypeOK
<1>2. PICK old \in Seq(Proposal) : OldOK(old)
  BY DEF MixedOK
<1>3. /\ Order[4] = "PROPOSALS" /\ Order[5] = "MEMBER" /\ Order[7] = "POLICY_CHANGE"
      /\ Order[8] = "TRANSFER" /\ Order[9] = "BOUNTY" /\ Order[10] = "IN_PROGRESS"
      /\ Order[11] = "APPROVED" /\ Order[12] = "REJECTED" /\ Order[13] = "EXPIRED"
  BY DEF Order
\* The list of this sweep, or the older one before it is read.
<1>4. \E new \in Seq(Proposal) :
         /\ Extends(old, new)
         /\ \A j \in 4 .. 13 : j <= at => stats[Order[j]] = CurrentValue(Order[j], new)
         /\ at < 4 => new = old
  <2>1. CASE at < 4
    <3>1. Extends(old, old)
      BY ExtendsSame
    <3>2. \A j \in 4 .. 13 : ~ (j <= at)
      BY <1>1, <2>1
    <3> QED
      BY <3>1, <3>2
  <2>2. CASE ~ (at < 4)
    <3>1. ASSUME NEW j \in 4 .. 13, j <= at
          PROVE  cache["proposals"] # <<>> /\ stats[Order[j]] = CurrentValue(Order[j], cache["proposals"][1])
      <4>1. j \in 1 .. 15 /\ j \in 1 .. 16
        BY <3>1
      <4>2. ListOf(Order[j]) = "proposals"
        BY <4>1, OrderFacts
      <4> QED
        BY <1>1, <3>1, <4>1, <4>2 DEF FreshOK
    <3>2. cache["proposals"] # <<>>
      <4>1. 4 \in 4 .. 13 /\ 4 <= at
        BY <1>1, <2>2
      <4> QED
        BY <3>1, <4>1
    <3>3. cache["proposals"][1] \in Seq(Proposal) /\ Extends(old, cache["proposals"][1])
      BY <1>2, <3>2, KeptProposals DEF OldOK
    <3> QED
      BY <2>2, <3>1, <3>3
  <2> QED
    BY <2>1, <2>2
<1>5. PICK new \in Seq(Proposal) :
         /\ Extends(old, new)
         /\ \A j \in 4 .. 13 : j <= at => stats[Order[j]] = CurrentValue(Order[j], new)
         /\ at < 4 => new = old
  BY <1>4
<1> DEFINE Value(j) == stats[Order[j]]
           Old(j) == CurrentValue(Order[j], old)
           New(j) == CurrentValue(Order[j], new)
<1>6. \A j \in 4 .. 13 : IF j <= at THEN Value(j) = New(j) ELSE Value(j) = Old(j)
  <2>1. \A j \in 4 .. 13 : ~ (j <= at) => j > at
    BY <1>1
  <2> QED
    BY <1>2, <1>5, <2>1 DEF OldOK
<1>7. /\ Old(4) = Len(old) /\ New(4) = Len(new) /\ Old(5) = 0 /\ New(5) = 0 /\ Old(9) = 0 /\ New(9) = 0
      /\ Old(7) = Cardinality(OfKind(old, "ChangePolicy")) /\ New(7) = Cardinality(OfKind(new, "ChangePolicy"))
      /\ Old(8) = Cardinality(OfKind(old, "Transfer")) /\ New(8) = Cardinality(OfKind(new, "Transfer"))
      /\ Old(10) = Cardinality(OfStatus(old, "InProgress")) /\ New(10) = Cardinality(OfStatus(new, "InProgress"))
      /\ Old(11) = Cardinality(OfStatus(old, "Approved")) /\ New(11) = Cardinality(OfStatus(new, "Approved"))
      /\ Old(12) = Cardinality(OfStatus(old, "Rejected")) /\ New(12) = Cardinality(OfStatus(new, "Rejected"))
      /\ Old(13) = Cardinality(OfStatus(old, "Expired")) /\ New(13) = Cardinality(OfStatus(new, "Expired"))
  BY <1>3, ProposalValues
<1> HIDE DEF Value, Old, New
<1>8. /\ "ChangePolicy" \in ProposalKinds /\ "Transfer" \in ProposalKinds
      /\ "InProgress" \in ProposalStatuses
      /\ "Approved" \in ProposalStatuses \ {"InProgress"} /\ "Rejected" \in ProposalStatuses \ {"InProgress"}
      /\ "Expired" \in ProposalStatuses \ {"InProgress"}
  BY DEF ProposalKinds, ProposalStatuses
<1>9. /\ Old(4) \in Nat /\ Old(7) \in Nat /\ Old(8) \in Nat /\ Old(10) \in Nat
      /\ Old(11) \in Nat /\ Old(12) \in Nat /\ Old(13) \in Nat
      /\ Old(10) + Old(11) + Old(12) + Old(13) <= Old(4)
      /\ Old(8) + Old(7) <= Old(4)
  BY <1>7, <1>8, OneList
<1>10. /\ New(4) \in Nat /\ New(7) \in Nat /\ New(8) \in Nat /\ New(10) \in Nat
       /\ New(11) \in Nat /\ New(12) \in Nat /\ New(13) \in Nat
       /\ New(10) + New(11) + New(12) + New(13) <= New(4)
       /\ New(8) + New(7) <= New(4)
  BY <1>7, <1>8, OneList
<1>11. /\ Old(4) <= New(4) /\ Old(7) <= New(7) /\ Old(8) <= New(8)
       /\ Old(11) <= New(11) /\ Old(12) <= New(12) /\ Old(13) <= New(13)
  BY <1>5, <1>7, <1>8, LaterCounts
<1>12. /\ Value(4) = New(4)
       /\ Value(7) = New(7) \/ Value(7) = Old(7)
       /\ Value(8) = New(8) \/ Value(8) = Old(8)
       /\ Value(11) = New(11) \/ Value(11) = Old(11)
       /\ Value(12) = New(12) \/ Value(12) = Old(12)
       /\ Value(13) = New(13) \/ Value(13) = Old(13)
       /\ Value(5) = 0 /\ Value(9) = 0
  <2>1. Value(4) = New(4)
    <3>1. at < 4 => Old(4) = New(4)
      BY <1>5 DEF Old, New
    <3>2. 4 \in 4 .. 13 /\ (~ (at < 4) => 4 <= at)
      BY <1>1
    <3> QED
      BY <1>6, <3>1, <3>2
  <2>2. {5, 7, 8, 9, 11, 12, 13} \subseteq 4 .. 13
    OBVIOUS
  <2>3. \A j \in {5, 7, 8, 9, 11, 12, 13} : Value(j) = New(j) \/ Value(j) = Old(j)
    BY <1>6, <2>2
  <2> QED
    BY <1>7, <2>1, <2>3
<1>13. /\ Value(7) \in Nat /\ Value(7) <= New(7) /\ Value(8) \in Nat /\ Value(8) <= New(8)
       /\ Value(11) \in Nat /\ Value(11) <= New(11) /\ Value(12) \in Nat /\ Value(12) <= New(12)
       /\ Value(13) \in Nat /\ Value(13) <= New(13)
  <2>1. \A o, n, v : o \in Nat /\ n \in Nat /\ o <= n /\ (v = n \/ v = o) => v \in Nat /\ v <= n
    OBVIOUS
  <2> QED
    BY <1>9, <1>10, <1>11, <1>12, <2>1
<1> DEFINE u == Value(10)
           v == Value(11)
           w == Value(12)
           x == Value(13)
           total == New(4)
<1>14. u + v + w + x <= total
  <2>1. CASE 10 <= at
    <3> DEFINE b == New(11)
               c == New(12)
               d == New(13)
    <3>1. u = New(10)
      <4>1. 10 \in 4 .. 13
        OBVIOUS
      <4> QED
        BY <1>6, <2>1, <4>1
    <3>2. u \in Nat /\ b \in Nat /\ c \in Nat /\ d \in Nat /\ total \in Nat /\ u + b + c + d <= total
      BY <1>10, <3>1
    <3>3. v \in Nat /\ v <= b /\ w \in Nat /\ w <= c /\ x \in Nat /\ x <= d
      BY <1>13
    <3> HIDE DEF u, v, w, x, b, c, d, total
    <3> QED
      BY <3>2, <3>3
  <2>2. CASE ~ (10 <= at)
    <3> DEFINE a == Old(10)
               b == Old(11)
               c == Old(12)
               d == Old(13)
               sum == a + b + c + d
               before == Old(4)
    <3>1. \A j \in {10, 11, 12, 13} : j \in 4 .. 13 /\ ~ (j <= at)
      BY <1>1, <2>2
    <3>2. u = Old(10) /\ v = Old(11) /\ w = Old(12) /\ x = Old(13)
      BY <1>6, <3>1
    <3>3. u + v + w + x = sum
      BY <3>2
    <3>4. sum \in Nat /\ sum <= before /\ before \in Nat /\ before <= total /\ total \in Nat
      <4>1. a \in Nat /\ b \in Nat /\ c \in Nat /\ d \in Nat /\ a + b + c + d <= before
        BY <1>9
      <4> HIDE DEF a, b, c, d, before, total
      <4>2. sum \in Nat /\ sum <= before
        BY <4>1
      <4> HIDE DEF sum
      <4> USE DEF before, total
      <4>3. before \in Nat /\ total \in Nat /\ before <= total
        BY <1>9, <1>10, <1>11
      <4> QED
        BY <4>2, <4>3
    <3> HIDE DEF u, v, w, x, sum, before, total
    <3>5. sum <= total
      BY <3>4
    <3> QED
      BY <3>3, <3>5
  <2> QED
    BY <2>1, <2>2
<1>15. Value(4) - (Value(8) + Value(9) + Value(5)) >= Value(7)
  <2> DEFINE a == New(8)
             b == New(7)
             c == Value(8)
             d == Value(7)
  <2>1. a \in Nat /\ b \in Nat /\ total \in Nat /\ a + b <= total
    BY <1>10
  <2>2. c \in Nat /\ d \in Nat /\ c <= a /\ d <= b
    BY <1>13
  <2>3. Value(4) = total /\ Value(9) = 0 /\ Value(5) = 0
    BY <1>12
  <2> HIDE DEF a, b, c, d, total
  <2>4. total - (c + 0 + 0) >= d
    BY <2>1, <2>2
  <2> QED
    BY <2>3, <2>4 DEF c, d
<1> QED
  BY <1>3, <1>12, <1>14, <1>15 DEF Value

-----------------------------------------------------------------------------
(* The theorems                                                            *)

\* In every state the variables have their types, what was read of a list fits what the
\* list was meanwhile, and every value that is shown stems from the list of this sweep
\* or, as long as nothing was disturbed, from one older state of it.
THEOREM MetricsInvariant == Spec => [](TypeOK /\ ReadingOK /\ FreshOK /\ MixedOK)
<1>1. Init => TypeOK /\ ReadingOK /\ FreshOK /\ MixedOK
  BY TypesInit, MixedInit
<1>2. TypeOK /\ ReadingOK /\ FreshOK /\ MixedOK /\ [Next]_vars
      => (TypeOK /\ ReadingOK /\ FreshOK /\ MixedOK)'
  BY TypesStep, FreshStep, MixedStep
<1> QED
  BY <1>1, <1>2, PTL DEF Spec

\* The decided and the open proposals are no more than the proposals, at any moment of a
\* sweep (DAO_METRICS, the order of the metrics; GovernanceService.totals).
THEOREM TotalsHold == Spec => []PartsWithinTotal
<1>1. TypeOK /\ FreshOK /\ MixedOK => PartsWithinTotal
  BY MixedParts
<1> QED
  BY <1>1, MetricsInvariant, PTL

\* After an undisturbed sweep the council is part of the members, members need groups and
\* locked values need bounties (CouncilSizeMetric, MembersCountMetric,
\* BountiesValueLockedMetric).
THEOREM ValuesAgree == Spec => []GroupsAgree
<1>1. TypeOK /\ FreshOK => GroupsAgree
  BY FreshGroups
<1> QED
  BY <1>1, MetricsInvariant, PTL

\* A list that was read page by page while it changed has a length it had meanwhile, and
\* the entries that kept their places are at them (getProposals, getBounties,
\* getAccountNfts).
THEOREM ListsWhole == Spec => ReadsWhole
<1> DEFINE Step == \A l \in Lists \ {"groups"} : (cache[l] = <<>> /\ cache'[l] # <<>>) =>
                      LET list == cache'[l][1]
                      IN  /\ Len(list) \in least .. most
                          /\ \A i \in steady : i \in DOMAIN list /\ SameEntry(l, list[i], Fetch(l)[i])
<1>1. TypeOK /\ ReadingOK /\ [Next]_vars => Step
  <2> SUFFICES ASSUME TypeOK, ReadingOK, [Next]_vars, NEW l \in Lists \ {"groups"},
                      cache[l] = <<>>, cache'[l] # <<>>
               PROVE  LET list == cache'[l][1]
                      IN  /\ Len(list) \in least .. most
                          /\ \A i \in steady : i \in DOMAIN list /\ SameEntry(l, list[i], Fetch(l)[i])
    OBVIOUS
  <2>1. FinishReading(l)
    <3>1. ASSUME NEW k \in Lists, FinishReading(k) PROVE k = l
      <4>1. PICK whole : Keep(k, whole)
        BY <3>1 DEF FinishReading
      <4> QED
        BY <4>1, Kept DEF Keep
    <3>2. ~ ReadGroups
      <4>1. ReadGroups => cache' = [cache EXCEPT !["groups"] = <<Fetch("groups")>>] /\ "groups" \in Lists
        BY DEF ReadGroups, Keep, Lists
      <4> QED
        BY <4>1, Kept
    <3>3. \A k \in Lists : ~ Expires(k)
      <4>1. \A k \in Lists : Expires(k) => cache' = [cache EXCEPT ![k] = <<>>]
        BY DEF Expires
      <4> QED
        BY <4>1, Kept
    <3>4. cache' # cache
      OBVIOUS
    <3>5. ~ DaoChanges /\ ~ UNCHANGED vars
      BY <3>4, DaoStep DEF Sweep, vars
    <3>6. /\ ~ MetricFails /\ ~ NftsUnreadable /\ ~ FinishSweep
          /\ \A k \in Lists : ~ StartReading(k) /\ ~ ReadKept(k)
          /\ \A k \in Lists, number \in DOMAIN reading[1] : ~ ReadPage(k, number)
      BY <3>4 DEF MetricFails, NftsUnreadable, FinishSweep, StartReading, ReadKept, ReadPage
    <3> QED
      BY <3>1, <3>2, <3>3, <3>5, <3>6 DEF Next
  <2>2. PICK whole \in Seq(Entries(l)) :
           /\ Keep(l, whole) /\ least <= Len(whole) /\ Len(whole) <= most /\ Missing(l)
           /\ \A i \in steady : i \in DOMAIN whole /\ SameEntry(l, whole[i], Fetch(l)[i])
    BY <2>1, WholeList
  <2>3. cache'[l][1] = whole
    BY <2>2, Kept DEF Keep
  <2>4. Len(whole) \in Nat /\ DOMAIN whole = 1 .. Len(whole) /\ least \in Nat /\ most \in Nat
    <3>1. ~ NotReading /\ Missing(l)
      BY <2>1 DEF FinishReading
    <3> QED
      BY <2>2, <3>1, LenProperties DEF ReadingOK, ReadSoFar, LengthsOK
  <2> QED
    BY <2>2, <2>3, <2>4
<1>2. Spec => [][TypeOK /\ ReadingOK /\ [Next]_vars]_vars
  BY MetricsInvariant, PTL DEF Spec
<1> QED
  BY <1>1, <1>2, MetricsInvariant, PTL DEF Spec, ReadsWhole
=============================================================================
