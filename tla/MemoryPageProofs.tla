-------------------------- MODULE MemoryPageProofs --------------------------
(***************************************************************************)
(* Theorems about MemoryPage, for any handlers, readers, addresses, user   *)
(* agents and limits: the exchange sort returns the largest counts, and    *)
(* every call of a page answers from one state of the statistics.          *)
(***************************************************************************)
EXTENDS MemoryPage, CountSums, FiniteSetTheorems, SequenceTheorems, TLAPS

-----------------------------------------------------------------------------
(* The inductive invariant *)

\* A list that is a copy of a count map, in some order.
IsCopy(l, count) == \E s \in Orders(KeysOf(count)) : l = Atomic!Bars(count, s)

\* What the exchange sort has reached: the rows before i are in their places,
\* and the entry at i is the largest of those up to the column j.
SortedUpTo(l, i, j) ==
  /\ i \in 1 .. Len(l) + 1 /\ j \in i + 1 .. Len(l) + 2
  /\ \A a \in 1 .. i - 1 : \A b \in a + 1 .. Len(l) : l[a].count >= l[b].count
  /\ \A b \in i + 1 .. j - 1 : b <= Len(l) => l[i].count >= l[b].count

IsTop(l, count) == \E s \in Atomic!TopLists(count) : l = Atomic!Bars(count, s)

\* A reader that sorts has the read lock, so the maps it copied are still those.
SortOK ==
  \A r \in Readers :
    /\ Sorting(r) => holds[r] > 0 /\ SortedUpTo(list[r], row[r], col[r])
    /\ rpc[r] = "sortIPs" => IsCopy(list[r], mem.ips)
    /\ rpc[r] = "sortUAs" => IsCopy(list[r], mem.uas) /\ IsTop(top[r], mem.ips)

\* What a handler and a page know of themselves.
LocalOK ==
  /\ \A h \in Handlers : hpc[h] # "idle" => hreq[h] \in Requests
  /\ \A r \in Readers :
       /\ rpc[r] # "idle" => serves[r] \in {"ui", "data"}
       /\ rpc[r] \in {"stats", "recent"} => serves[r] = "ui"

Inv == TypeOK /\ SortOK /\ LocalOK

\* The entries behind entry i of the list that are older than it.
Overtaken(recent, i) == {j \in i + 1 .. Len(recent) : recent[j] < recent[i]}

\* The handlers that are at work on a request older than ts.
OlderAtWork(ts) == {h \in Handlers : hpc[h] # "idle" /\ hreq[h].ts < ts}

\* No timestamp is younger than the clock.  An entry was overtaken, or can still
\* be, only by handlers that were at work when it was appended: one entry each.
OrderOK ==
  /\ \A h \in Handlers : hpc[h] # "idle" => hreq[h].ts <= clock
  /\ \A i \in 1 .. Len(mem.recent) :
       /\ mem.recent[i] <= clock
       /\ Cardinality(Overtaken(mem.recent, i)) + Cardinality(OlderAtWork(mem.recent[i]))
            < Cardinality(Handlers)

\* The announced writer is the handler about to record, and readers park behind
\* it.  Who holds the read lock is past its RLock, and who is parked holds none.
LocksOK ==
  /\ writer = NoThread => parked = {}
  /\ \A h \in Handlers : writer = h <=> hpc[h] = "record"
  /\ \A r \in Readers :
       /\ holds[r] > 0 => r \notin parked /\ rpc[r] \in Calls \cup {"sortIPs", "sortUAs"}
       /\ r \in parked => rpc[r] \in Calls

\* The maps have counted no more requests than there were, and the list is as
\* long as the total says.
CountsOK ==
  /\ SumFunction(mem.ips) <= mem.total /\ SumFunction(mem.uas) <= mem.total
  /\ Len(mem.recent) = Atomic!Least(MaxRecent, mem.total)

\* What a page has been answered bounds what it will be answered.
AnswersOK ==
  \A r \in Readers :
    /\ rpc[r] = "stats" =>
         /\ SumOf(page[r].ips) <= mem.total /\ SumOf(page[r].uas) <= mem.total
         /\ Len(page[r].ips) <= Cardinality(KeysOf(mem.ips))
         /\ Len(page[r].uas) <= Cardinality(KeysOf(mem.uas))
    /\ rpc[r] = "recent" => page[r].total <= mem.total

-----------------------------------------------------------------------------
(* Copies and the sort *)

\* The instance sees the same statistics.
LEMMA AtomicSame ==
  /\ \A count : Atomic!KeysOf(count) = KeysOf(count)
  /\ \A S : Atomic!Cardinality(S) = Cardinality(S)
BY Zenon DEF Atomic!KeysOf, KeysOf, Atomic!Cardinality, Cardinality

LEMMA KeysFinite ==
  ASSUME NEW K, IsFiniteSet(K), NEW count \in [K -> Nat]
  PROVE  /\ KeysOf(count) \subseteq K /\ IsFiniteSet(KeysOf(count))
         /\ Cardinality(KeysOf(count)) \in Nat
<1>1. KeysOf(count) \subseteq K
  BY DEF KeysOf
<1> QED
  BY <1>1, FS_Subset, FS_CardinalityType

\* An order of the keys visits each of them once.
LEMMA OrderFacts ==
  ASSUME NEW K, IsFiniteSet(K), NEW count \in [K -> Nat], NEW s \in Orders(KeysOf(count))
  PROVE  /\ s \in [1 .. Cardinality(KeysOf(count)) -> KeysOf(count)]
         /\ \A a, b \in 1 .. Cardinality(KeysOf(count)) : s[a] = s[b] => a = b
         /\ \A k \in KeysOf(count) : \E a \in 1 .. Cardinality(KeysOf(count)) : s[a] = k
BY DEF Orders, Bijection, Injection, Surjection, IsInjective

\* A copy lists every counted key once, with its count.
LEMMA CopyFacts ==
  ASSUME NEW K, IsFiniteSet(K), NEW count \in [K -> Nat], NEW n \in Nat,
         NEW s \in [1 .. n -> KeysOf(count)]
  PROVE  /\ Atomic!Bars(count, s) \in Seq(Entries(K))
         /\ Len(Atomic!Bars(count, s)) = n
         /\ \A a \in 1 .. n :
              Atomic!Bars(count, s)[a] = [label |-> s[a], count |-> count[s[a]]]
<1>1. Atomic!Bars(count, s) = [a \in 1 .. n |-> [label |-> s[a], count |-> count[s[a]]]]
  BY DEF Atomic!Bars
<1>2. \A a \in 1 .. n : [label |-> s[a], count |-> count[s[a]]] \in Entries(K)
  BY KeysFinite DEF Entries, KeysOf
<1> QED
  BY <1>1, <1>2

LEMMA IsCopyTyped ==
  ASSUME NEW K, IsFiniteSet(K), NEW count \in [K -> Nat], NEW l, IsCopy(l, count)
  PROVE  l \in Seq(Entries(K)) /\ Len(l) = Cardinality(KeysOf(count)) /\ Len(l) \in Nat
<1>1. PICK s \in Orders(KeysOf(count)) : l = Atomic!Bars(count, s)
  BY DEF IsCopy
<1>2. s \in [1 .. Cardinality(KeysOf(count)) -> KeysOf(count)]
  BY OrderFacts
<1>3. Cardinality(KeysOf(count)) \in Nat
  BY KeysFinite
<1> QED
  BY <1>1, <1>2, <1>3, CopyFacts

\* What an exchange does to a list.
LEMMA ExchangeFacts ==
  ASSUME NEW S, NEW l \in Seq(S), NEW a \in 1 .. Len(l), NEW b \in 1 .. Len(l)
  PROVE  /\ Exchange(l, a, b) \in Seq(S)
         /\ Len(Exchange(l, a, b)) = Len(l)
         /\ DOMAIN Exchange(l, a, b) = 1 .. Len(l)
         /\ \A c \in 1 .. Len(l) :
              Exchange(l, a, b)[c] = IF c = b THEN l[a] ELSE IF c = a THEN l[b] ELSE l[c]
BY DEF Exchange

\* It leaves a copy a copy.
LEMMA ExchangeCopies ==
  ASSUME NEW K, IsFiniteSet(K), NEW count \in [K -> Nat], NEW l, IsCopy(l, count),
         NEW a \in 1 .. Len(l), NEW b \in 1 .. Len(l)
  PROVE  IsCopy(Exchange(l, a, b), count)
<1> DEFINE n == Cardinality(KeysOf(count))
           to(c) == IF c = b THEN a ELSE IF c = a THEN b ELSE c
<1>1. n \in Nat /\ Len(l) = n /\ l \in Seq(Entries(K))
  BY KeysFinite, IsCopyTyped
<1>2. PICK s \in Orders(KeysOf(count)) : l = Atomic!Bars(count, s)
  BY DEF IsCopy
<1>3. /\ s \in [1 .. n -> KeysOf(count)]
      /\ \A c, d \in 1 .. n : s[c] = s[d] => c = d
      /\ \A k \in KeysOf(count) : \E c \in 1 .. n : s[c] = k
  BY OrderFacts
<1> DEFINE t == [c \in 1 .. n |-> s[to(c)]]
<1> HIDE DEF n
<1>4. \A c \in 1 .. n : to(c) \in 1 .. n /\ to(to(c)) = c
  BY <1>1
<1>5. t \in [1 .. n -> KeysOf(count)]
  BY <1>3, <1>4
<1>6. \A c, d \in 1 .. n : t[c] = t[d] => c = d
  BY <1>3, <1>4
<1>7. \A k \in KeysOf(count) : \E c \in 1 .. n : t[c] = k
  BY <1>3, <1>4
<1>8. t \in Orders(KeysOf(count))
  BY <1>5, <1>6, <1>7 DEF n, Orders, Bijection, Injection, Surjection, IsInjective
<1>9. Exchange(l, a, b) = Atomic!Bars(count, t)
  <2> HIDE DEF t
  <2>1. /\ Atomic!Bars(count, t) \in Seq(Entries(K)) /\ Len(Atomic!Bars(count, t)) = n
        /\ \A c \in 1 .. n :
             Atomic!Bars(count, t)[c] = [label |-> t[c], count |-> count[t[c]]]
    <3>1. Atomic!Bars(count, t) = [c \in 1 .. n |-> [label |-> t[c], count |-> count[t[c]]]]
      BY <1>5 DEF Atomic!Bars
    <3>2. \A c \in 1 .. n : [label |-> t[c], count |-> count[t[c]]] \in Entries(K)
      BY <1>5, KeysFinite DEF Entries
    <3> QED
      BY <1>1, <3>1, <3>2
  <2>2. \A c \in 1 .. n : l[c] = [label |-> s[c], count |-> count[s[c]]]
    BY <1>2, <1>3 DEF Atomic!Bars
  <2>3. /\ Exchange(l, a, b) \in Seq(Entries(K)) /\ Len(Exchange(l, a, b)) = n
        /\ \A c \in 1 .. n :
             Exchange(l, a, b)[c] = IF c = b THEN l[a] ELSE IF c = a THEN l[b] ELSE l[c]
    <3>1. l \in Seq(Entries(K)) /\ a \in 1 .. Len(l) /\ b \in 1 .. Len(l)
      BY <1>1
    <3>2. /\ Exchange(l, a, b) \in Seq(Entries(K)) /\ Len(Exchange(l, a, b)) = Len(l)
          /\ \A c \in 1 .. Len(l) :
               Exchange(l, a, b)[c] = IF c = b THEN l[a] ELSE IF c = a THEN l[b] ELSE l[c]
      BY ONLY <3>1, SMTT(30) DEF Exchange
    <3> QED
      BY <1>1, <3>2
  <2>4. \A c \in 1 .. n : Exchange(l, a, b)[c] = l[to(c)] /\ t[c] = s[to(c)]
    BY <2>3 DEF t
  <2>5. ASSUME NEW c \in 1 .. n PROVE Exchange(l, a, b)[c] = Atomic!Bars(count, t)[c]
    <3>1. PICK d \in 1 .. n : d = to(c)
      BY <1>4
    <3>2. Exchange(l, a, b)[c] = l[d] /\ t[c] = s[d]
      BY <2>4, <3>1
    <3> HIDE DEF to
    <3> QED
      BY <2>1, <2>2, <3>2
  <2> QED
    BY <2>1, <2>3, <2>5, SeqEqual
<1> QED
  BY <1>8, <1>9 DEF IsCopy

\* One turn of the inner loop keeps what the sort has reached.
LEMMA CompareSorts ==
  ASSUME NEW K, NEW l \in Seq(Entries(K)), NEW i, NEW j, SortedUpTo(l, i, j),
         i <= Len(l), j <= Len(l)
  PROVE  SortedUpTo(IF l[j].count > l[i].count THEN Exchange(l, i, j) ELSE l, i, j + 1)
<1>1. /\ Len(l) \in Nat /\ i \in 1 .. Len(l) /\ j \in i + 1 .. Len(l)
      /\ \A c \in 1 .. Len(l) : l[c].count \in Nat
  <2>1. Len(l) \in Nat /\ \A c \in 1 .. Len(l) : l[c] \in Entries(K)
    BY ElementOfSeq
  <2>2. \A e \in Entries(K) : e.count \in Nat
    BY DEF Entries
  <2>3. i \in 1 .. Len(l) /\ j \in i + 1 .. Len(l)
    BY <2>1 DEF SortedUpTo
  <2> QED
    BY <2>1, <2>2, <2>3
<1>2. CASE l[j].count > l[i].count
  <2> DEFINE e == Exchange(l, i, j)
  <2>1. /\ Len(e) = Len(l)
        /\ \A c \in 1 .. Len(l) : e[c] = IF c = j THEN l[i] ELSE IF c = i THEN l[j] ELSE l[c]
    BY <1>1, ExchangeFacts, SMTT(30)
  <2> HIDE DEF e
  <2>2. ASSUME NEW a \in 1 .. i - 1, NEW b \in a + 1 .. Len(e)
        PROVE  e[a].count >= e[b].count
    <3>1. a \in 1 .. Len(l) /\ b \in 1 .. Len(l) /\ a # i /\ a # j /\ e[a] = l[a]
      BY <1>1, <2>1, <2>2
    <3>2. i \in a + 1 .. Len(l) /\ j \in a + 1 .. Len(l) /\ b \in a + 1 .. Len(l)
      BY <1>1, <2>1, <2>2
    <3>3. l[a].count >= l[i].count /\ l[a].count >= l[j].count /\ l[a].count >= l[b].count
      BY <2>2, <3>2 DEF SortedUpTo
    <3> QED
      BY <2>1, <3>1, <3>3
  <2>3. ASSUME NEW b \in i + 1 .. j, b <= Len(e)
        PROVE  e[i].count >= e[b].count
    <3>1. e[i] = l[j]
      BY <1>1, <2>1
    <3>2. CASE b = j
      BY <1>1, <1>2, <2>1, <3>1, <3>2
    <3>3. CASE b # j
      <4>1. b \in i + 1 .. j - 1 /\ b <= Len(l) /\ e[b] = l[b] /\ l[b].count \in Nat
        BY <1>1, <2>1, <2>3, <3>3
      <4>2. l[i].count >= l[b].count
        BY <4>1 DEF SortedUpTo
      <4> QED
        BY <1>1, <1>2, <3>1, <4>1, <4>2
    <3> QED
      BY <3>2, <3>3
  <2>4. SortedUpTo(e, i, j + 1)
    BY <1>1, <2>1, <2>2, <2>3 DEF SortedUpTo
  <2> QED
    BY <1>2, <2>4 DEF e
<1>3. CASE ~(l[j].count > l[i].count)
  BY <1>1, <1>3 DEF SortedUpTo
<1> QED
  BY <1>2, <1>3

\* When the inner loop has ended, the next row can begin.
LEMMA NextRowSorts ==
  ASSUME NEW l, Len(l) \in Nat, NEW i, NEW j, SortedUpTo(l, i, j), i <= Len(l), j > Len(l)
  PROVE  SortedUpTo(l, i + 1, i + 2)
<1>1. i \in 1 .. Len(l) /\ j \in i + 1 .. Len(l) + 2
  BY DEF SortedUpTo
<1>2. ASSUME NEW a \in 1 .. i, NEW b \in a + 1 .. Len(l)
      PROVE  l[a].count >= l[b].count
  <2>1. CASE a = i
    <3>1. b \in i + 1 .. j - 1 /\ b <= Len(l)
      BY <1>1, <1>2, <2>1
    <3> QED
      BY <2>1, <3>1 DEF SortedUpTo
  <2>2. CASE a # i
    <3>1. a \in 1 .. i - 1
      BY <1>1, <1>2, <2>2
    <3> QED
      BY <1>2, <3>1 DEF SortedUpTo
  <2> QED
    BY <2>1, <2>2
<1>3. /\ i + 1 \in 1 .. Len(l) + 1 /\ i + 2 \in (i + 1) + 1 .. Len(l) + 2
      /\ 1 .. (i + 1) - 1 = 1 .. i /\ (i + 1) + 1 .. (i + 2) - 1 = {}
  BY <1>1
<1> QED
  BY <1>2, <1>3 DEF SortedUpTo

\* When both have, the list is sorted and its cut is a chart.
LEMMA CutIsTop ==
  ASSUME NEW K, IsFiniteSet(K), NEW count \in [K -> Nat], NEW l, IsCopy(l, count),
         NEW i, NEW j, SortedUpTo(l, i, j), i > Len(l)
  PROVE  Cut(l) \in Seq(Entries(K)) /\ IsTop(Cut(l), count)
<1> DEFINE n == Cardinality(KeysOf(count))
           m == Atomic!Least(TopItems, n)
<1>1. n \in Nat /\ Len(l) = n /\ l \in Seq(Entries(K))
  BY KeysFinite, IsCopyTyped
<1>2. m \in 0 .. n
  BY <1>1, PageAssumption DEF Atomic!Least
<1>3. PICK s \in Orders(KeysOf(count)) : l = Atomic!Bars(count, s)
  BY DEF IsCopy
<1>4. /\ s \in [1 .. n -> KeysOf(count)]
      /\ \A c, d \in 1 .. n : s[c] = s[d] => c = d
      /\ \A k \in KeysOf(count) : \E c \in 1 .. n : s[c] = k
  BY OrderFacts
<1>5. \A c \in 1 .. n : l[c] = [label |-> s[c], count |-> count[s[c]]]
  BY <1>3, <1>4 DEF Atomic!Bars
<1>6. ASSUME NEW a \in 1 .. n, NEW b \in a + 1 .. n
      PROVE  count[s[a]] >= count[s[b]]
  <2>1. l[a].count >= l[b].count
    BY <1>1 DEF SortedUpTo
  <2> QED
    BY <1>1, <1>5, <2>1
<1> DEFINE t == [c \in 1 .. m |-> s[c]]
<1> HIDE DEF m, n
<1>7. t \in [1 .. m -> KeysOf(count)] /\ \A c \in 1 .. m : t[c] = s[c]
  BY <1>1, <1>2, <1>4
<1> HIDE DEF t
<1>8. t \in Atomic!TopLists(count)
  <2>1. ASSUME NEW a \in 1 .. m, NEW b \in 1 .. m, a < b
        PROVE  t[a] # t[b] /\ count[t[a]] >= count[t[b]]
    BY <1>1, <1>2, <1>4, <1>6, <1>7, <2>1
  <2>2. ASSUME NEW k \in KeysOf(count), \A a \in 1 .. m : t[a] # k, NEW a \in 1 .. m
        PROVE  count[t[a]] >= count[k]
    <3>1. PICK c \in 1 .. n : s[c] = k
      BY <1>4
    <3>2. c \notin 1 .. m
      BY <2>2, <3>1, <1>7
    <3> QED
      BY <1>1, <1>2, <1>6, <1>7, <3>1, <3>2
  <2> QED
    <3>1. Atomic!TopLists(count) =
            {f \in [1 .. m -> KeysOf(count)] :
               /\ \A a, b \in 1 .. m : a < b => f[a] # f[b] /\ count[f[a]] >= count[f[b]]
               /\ \A k \in KeysOf(count) :
                    (\A a \in 1 .. m : f[a] # k) => \A a \in 1 .. m : count[f[a]] >= count[k]}
      BY AtomicSame DEF m, n, Atomic!TopLists
    <3> QED
      BY <1>7, <2>1, <2>2, <3>1
<1>9. Cut(l) = Atomic!Bars(count, t)
  <2>1. Cut(l) = SubSeq(l, 1, m)
    BY <1>1 DEF Cut, m
  <2>2. \A c \in 1 .. m : l[c] \in Entries(K)
    BY <1>1, <1>2, ElementOfSeq
  <2>3. /\ SubSeq(l, 1, m) \in Seq(Entries(K))
        /\ Len(SubSeq(l, 1, m)) = m
        /\ \A c \in 1 .. m : SubSeq(l, 1, m)[c] = l[c]
    <3>1. /\ SubSeq(l, 1, m) \in Seq(Entries(K))
          /\ Len(SubSeq(l, 1, m)) = IF 1 <= m THEN m - 1 + 1 ELSE 0
          /\ \A c \in 1 .. m - 1 + 1 : SubSeq(l, 1, m)[c] = l[1 + c - 1]
      BY <1>1, <1>2, <2>2, SubSeqProperties
    <3> QED
      BY <1>1, <1>2, <3>1
  <2>4. /\ Atomic!Bars(count, t) \in Seq(Entries(K)) /\ Len(Atomic!Bars(count, t)) = m
        /\ \A c \in 1 .. m : Atomic!Bars(count, t)[c] = [label |-> t[c], count |-> count[t[c]]]
    BY <1>1, <1>2, <1>7, CopyFacts
  <2>5. \A c \in 1 .. m : SubSeq(l, 1, m)[c] = Atomic!Bars(count, t)[c]
    BY <1>1, <1>2, <1>5, <1>7, <2>3, <2>4
  <2> QED
    BY <2>1, <2>3, <2>4, <2>5, SeqEqual
<1>10. Atomic!Bars(count, t) \in Seq(Entries(K))
  BY <1>1, <1>2, <1>7, CopyFacts
<1> QED
  BY <1>8, <1>9, <1>10 DEF IsTop

-----------------------------------------------------------------------------
(* Initial states, and the statistics when a request is recorded *)

LEMMA InitInv == Init => Inv
<1> SUFFICES ASSUME Init PROVE Inv
  OBVIOUS
<1>1. mem \in Statistics /\ Len(mem.recent) <= MaxRecent
  <2> DEFINE Lists == {[k \in 1 .. n |-> 0] : n \in 0 .. Atomic!Least(MaxRecent, MaxLoaded)}
  <2>1. ASSUME NEW s \in Lists PROVE s \in Seq(Nat) /\ Len(s) <= MaxRecent
    <3>1. PICK n \in 0 .. Atomic!Least(MaxRecent, MaxLoaded) : s = [k \in 1 .. n |-> 0]
      OBVIOUS
    <3>2. n \in Nat /\ n <= MaxRecent
      BY PageAssumption, CapsAssumption DEF Atomic!Least
    <3> QED
      BY <3>1, <3>2
  <2>2. mem \in [total : 0 .. MaxLoaded, ips : [IPs -> 0 .. MaxLoaded],
                 uas : [UserAgents -> 0 .. MaxLoaded], recent : Lists]
    BY DEF Init, Loaded
  <2> HIDE DEF Lists
  <2>3. mem.recent \in Lists
    BY <2>2
  <2>4. mem.total \in Nat /\ mem.ips \in [IPs -> Nat] /\ mem.uas \in [UserAgents -> Nat]
    BY <2>2, PageAssumption
  <2>5. mem.recent \in Seq(Nat) /\ Len(mem.recent) <= MaxRecent
    BY <2>1, <2>3
  <2> QED
    BY <2>2, <2>4, <2>5 DEF Statistics
<1>2. Atomic!NoView \in Views
  BY DEF Atomic!NoView, Views
<1>3. TypeOK
  BY <1>1, <1>2, PageAssumption DEF Init, Mu!Init, TypeOK
<1>4. SortOK
  BY DEF Init, SortOK, Sorting
<1>5. LocalOK
  BY DEF Init, LocalOK
<1> QED
  BY <1>3, <1>4, <1>5 DEF Inv

\* Recording keeps the statistics typed and the list within its limit.
LEMMA RecordedTyped ==
  ASSUME NEW m \in Statistics, Len(m.recent) <= MaxRecent, NEW q \in Requests
  PROVE  Recorded(m, q) \in Statistics /\ Len(Recorded(m, q).recent) <= MaxRecent
<1>1. m.recent \in Seq(Nat) /\ q.ts \in Nat /\ MaxRecent \in Nat \ {0}
  BY CapsAssumption, PageAssumption DEF Statistics, Requests
<1>2. /\ Append(m.recent, q.ts) \in Seq(Nat)
      /\ Len(Append(m.recent, q.ts)) = Len(m.recent) + 1 /\ Append(m.recent, q.ts) # <<>>
  BY <1>1
<1>3. Appended(m.recent, q.ts) \in Seq(Nat) /\ Len(Appended(m.recent, q.ts)) <= MaxRecent
  BY <1>1, <1>2, HeadTailProperties DEF Appended
<1>4. /\ Counted(m.ips, q.ip, MaxIPs) \in [IPs -> Nat]
      /\ Counted(m.uas, q.ua, MaxUserAgents) \in [UserAgents -> Nat]
      /\ m.total + 1 \in Nat
  <2>1. /\ m.ips \in [IPs -> Nat] /\ m.uas \in [UserAgents -> Nat] /\ m.total \in Nat
        /\ q.ip \in IPs /\ q.ua \in UserAgents
    BY DEF Statistics, Requests
  <2> QED
    BY <2>1 DEF Counted
<1> QED
  BY <1>3, <1>4 DEF Recorded, Statistics

-----------------------------------------------------------------------------
(* Every step keeps the invariant *)

LEMMA ArriveInv == ASSUME Inv, NEW h \in Handlers, Arrive(h) PROVE Inv'
<1> USE DEF Inv, Arrive, lockVars, readVars, sortVars
<1>1. clock' \in 0 .. MaxRequests
  BY PageAssumption DEF TypeOK
<1>2. PICK q \in Requests : hreq' = [hreq EXCEPT ![h] = q]
  OBVIOUS
<1>3. TypeOK'
  BY <1>1, <1>2 DEF TypeOK
<1>4. SortOK'
  BY DEF SortOK, Sorting
<1>5. LocalOK'
  BY <1>2 DEF LocalOK, TypeOK
<1> QED
  BY <1>3, <1>4, <1>5

LEMMA LockInv == ASSUME Inv, NEW h \in Handlers, Lock(h) PROVE Inv'
<1> USE DEF Inv, Lock, Mu!Lock, readVars, sortVars
<1>1. TypeOK'
  BY DEF TypeOK
<1>2. SortOK'
  BY DEF SortOK, Sorting
<1>3. LocalOK'
  BY DEF LocalOK, TypeOK
<1> QED
  BY <1>1, <1>2, <1>3

\* No reader sorts while a request is recorded.
LEMMA RecordInv == ASSUME Inv, NEW h \in Handlers, Record(h) PROVE Inv'
<1> USE DEF Inv, Record, Mu!Exclusive, Mu!Unlock, readVars, sortVars
<1>1. hreq[h] \in Requests
  BY DEF LocalOK
<1>2. mem' \in Statistics /\ Len(mem'.recent) <= MaxRecent
  BY <1>1, RecordedTyped DEF TypeOK
<1>3. holds' \in [Readers -> Nat]
  BY DEF TypeOK
<1>4. TypeOK'
  BY <1>2, <1>3 DEF TypeOK
<1>5. \A r \in Readers : rpc[r] \notin {"sortIPs", "sortUAs"}
  BY DEF SortOK, Sorting
<1>6. SortOK'
  BY <1>5 DEF SortOK, Sorting
<1>7. LocalOK'
  BY DEF LocalOK, TypeOK
<1> QED
  BY <1>4, <1>6, <1>7

\* Both pages begin with the charts.
LEMMA OpenCalls ==
  ASSUME Inv, NEW r \in Readers, Open(r)
  PROVE  /\ \E handler \in {"ui", "data"} : serves' = [serves EXCEPT ![r] = handler]
         /\ rpc' = [rpc EXCEPT ![r] = "charts"] /\ rpc'[r] = "charts"
<1>1. PICK handler \in {"ui", "data"} :
        /\ serves' = [serves EXCEPT ![r] = handler]
        /\ rpc' = [rpc EXCEPT ![r] = Then[handler]["idle"]]
  BY DEF Open, Goto, Then
<1>2. Then[handler]["idle"] = "charts"
  <2>1. CASE handler = "ui"
    BY <2>1 DEF Then, HandleUI, HandleChartData
  <2>2. CASE handler = "data"
    BY <2>2 DEF Then, HandleUI, HandleChartData
  <2> QED
    BY <2>1, <2>2
<1> QED
  BY <1>1, <1>2 DEF Inv, TypeOK

LEMMA OpenInv == ASSUME Inv, NEW r \in Readers, Open(r) PROVE Inv'
<1> USE DEF Inv, Open, lockVars, recordVars, sortVars
<1>1. PICK handler \in {"ui", "data"} :
        /\ serves' = [serves EXCEPT ![r] = handler]
        /\ rpc' = [rpc EXCEPT ![r] = "charts"]
  BY OpenCalls
<1>2. TypeOK'
  BY <1>1 DEF TypeOK, Calls
<1>3. SortOK'
  BY <1>1 DEF SortOK, Sorting, TypeOK
<1>4. LocalOK'
  BY <1>1 DEF LocalOK, TypeOK
<1> QED
  BY <1>2, <1>3, <1>4

LEMMA RLockInv == ASSUME Inv, NEW r \in Readers, RLock(r) PROVE Inv'
<1> USE DEF Inv, RLock, Mu!RLock, recordVars, readVars, sortVars
<1>1. /\ holds' \in [Readers -> Nat] /\ parked' \in SUBSET Readers
      /\ writer' \in Handlers \cup {NoThread}
      /\ \A x \in Readers : holds'[x] >= holds[x]
  <2>1. /\ holds \in [Readers -> Nat] /\ parked \in SUBSET Readers
        /\ writer \in Handlers \cup {NoThread}
    BY DEF TypeOK
  <2>2. CASE writer = NoThread
    BY <2>1, <2>2
  <2>3. CASE writer # NoThread
    BY <2>1, <2>3
  <2> QED
    BY <2>2, <2>3
<1>2. TypeOK'
  BY <1>1 DEF TypeOK
<1>3. \A x \in Readers : Sorting(x) => holds'[x] > 0
  BY <1>1 DEF SortOK, TypeOK
<1>4. SortOK'
  BY <1>3 DEF SortOK, Sorting
<1>5. LocalOK'
  BY DEF LocalOK
<1> QED
  BY <1>2, <1>4, <1>5

\* A fresh copy: nothing of it is sorted.
LEMMA CopyInv ==
  ASSUME Inv, NEW r \in Readers, NEW K, IsFiniteSet(K), NEW count \in [K -> Nat], NEW step,
         Copy(r, count, step)
  PROVE  /\ IsCopy(list'[r], count) /\ list'[r] \in Seq(Entries(K))
         /\ SortedUpTo(list'[r], row'[r], col'[r])
         /\ row' \in [Readers -> Nat] /\ col' \in [Readers -> Nat]
         /\ list' = [list EXCEPT ![r] = list'[r]]
<1> USE DEF Inv, Copy
<1>1. /\ list \in [Readers -> Seq(Entries(IPs)) \cup Seq(Entries(UserAgents))]
      /\ row \in [Readers -> Nat] /\ col \in [Readers -> Nat]
  BY DEF TypeOK
<1>2. PICK s \in Orders(KeysOf(count)) : list' = [list EXCEPT ![r] = Atomic!Bars(count, s)]
  OBVIOUS
<1>3. list'[r] = Atomic!Bars(count, s)
  BY <1>1, <1>2
<1>4. IsCopy(list'[r], count)
  BY <1>3 DEF IsCopy
<1>5. list'[r] \in Seq(Entries(K)) /\ Len(list'[r]) \in Nat
  BY <1>4, IsCopyTyped
<1>6. row'[r] = 1 /\ col'[r] = 2
  BY <1>1
<1>7. SortedUpTo(list'[r], 1, 2)
  BY <1>5 DEF SortedUpTo
<1> QED
  BY <1>1, <1>2, <1>3, <1>4, <1>5, <1>6, <1>7

LEMMA CopyIPsInv == ASSUME Inv, NEW r \in Readers, CopyIPs(r) PROVE Inv'
<1>1. mem.ips \in [IPs -> Nat] /\ IsFiniteSet(IPs)
  BY PageAssumption DEF Inv, TypeOK, Statistics
<1>2. Copy(r, mem.ips, "sortIPs")
  BY DEF CopyIPs
<1>3. /\ IsCopy(list'[r], mem.ips) /\ list'[r] \in Seq(Entries(IPs))
      /\ SortedUpTo(list'[r], row'[r], col'[r])
      /\ row' \in [Readers -> Nat] /\ col' \in [Readers -> Nat]
      /\ list' = [list EXCEPT ![r] = list'[r]]
  BY <1>1, <1>2, CopyInv
<1> USE DEF Inv, CopyIPs, Copy, Goto, Reading, lockVars, recordVars
<1>4. TypeOK'
  BY <1>3 DEF TypeOK
<1>5. rpc'[r] = "sortIPs" /\ holds'[r] > 0 /\ mem' = mem
  BY DEF TypeOK
<1>6. \A x \in Readers \ {r} :
        /\ rpc'[x] = rpc[x] /\ list'[x] = list[x] /\ row'[x] = row[x] /\ col'[x] = col[x]
        /\ top'[x] = top[x] /\ holds'[x] = holds[x]
  BY <1>3 DEF TypeOK
<1>7. SortOK'
  BY <1>3, <1>5, <1>6 DEF SortOK, Sorting
<1>8. LocalOK'
  BY DEF LocalOK, TypeOK
<1> QED
  BY <1>4, <1>7, <1>8

\* A turn of the inner loop leaves the list a copy, sorted one column further.
LEMMA CompareInv == ASSUME Inv, NEW r \in Readers, Compare(r) PROVE Inv'
<1> USE DEF Inv, lockVars, recordVars
<1> DEFINE l == list[r]
           next == IF l[col[r]].count > l[row[r]].count
                   THEN Exchange(l, row[r], col[r]) ELSE l
<1>1. /\ Sorting(r) /\ row[r] <= Len(l) /\ col[r] <= Len(l)
      /\ list' = [list EXCEPT ![r] = next] /\ col' = [col EXCEPT ![r] = col[r] + 1]
      /\ UNCHANGED <<writer, holds, parked, mem, clock, hpc, hreq, serves, rpc, row, top, page>>
  BY DEF Compare
<1>2. /\ mem.ips \in [IPs -> Nat] /\ IsFiniteSet(IPs)
      /\ mem.uas \in [UserAgents -> Nat] /\ IsFiniteSet(UserAgents)
  BY PageAssumption DEF TypeOK, Statistics
<1>3. /\ rpc[r] = "sortIPs" => IsCopy(l, mem.ips)
      /\ rpc[r] = "sortUAs" => IsCopy(l, mem.uas)
      /\ SortedUpTo(l, row[r], col[r]) /\ holds[r] > 0
  BY <1>1 DEF SortOK
<1>4. \/ rpc[r] = "sortIPs" /\ l \in Seq(Entries(IPs))
      \/ rpc[r] = "sortUAs" /\ l \in Seq(Entries(UserAgents))
  BY <1>1, <1>2, <1>3, IsCopyTyped DEF Sorting
<1>5. row[r] \in 1 .. Len(l) /\ col[r] \in 1 .. Len(l)
  <2>1. row[r] \in Nat /\ col[r] \in Nat /\ Len(l) \in Nat
    BY <1>4 DEF TypeOK
  <2> QED
    BY <1>1, <1>3, <2>1 DEF SortedUpTo
<1>6. /\ rpc[r] = "sortIPs" => IsCopy(next, mem.ips)
      /\ rpc[r] = "sortUAs" => IsCopy(next, mem.uas)
  BY <1>2, <1>3, <1>5, ExchangeCopies
<1>7. SortedUpTo(next, row[r], col[r] + 1)
  BY <1>1, <1>3, <1>4, CompareSorts
<1>8. \/ rpc[r] = "sortIPs" /\ next \in Seq(Entries(IPs))
      \/ rpc[r] = "sortUAs" /\ next \in Seq(Entries(UserAgents))
  BY <1>2, <1>4, <1>6, IsCopyTyped
<1> HIDE DEF next
<1>9. TypeOK'
  BY <1>1, <1>8 DEF TypeOK
<1>10. /\ list'[r] = next /\ col'[r] = col[r] + 1
       /\ \A x \in Readers \ {r} : list'[x] = list[x] /\ col'[x] = col[x]
  BY <1>1 DEF TypeOK
<1>11. SortOK'
  BY <1>1, <1>3, <1>6, <1>7, <1>10 DEF SortOK, Sorting
<1>12. LocalOK'
  BY <1>1 DEF LocalOK
<1> QED
  BY <1>9, <1>11, <1>12

LEMMA NextRowInv == ASSUME Inv, NEW r \in Readers, NextRow(r) PROVE Inv'
<1> USE DEF Inv, lockVars, recordVars
<1>1. /\ Sorting(r) /\ row[r] <= Len(list[r]) /\ col[r] > Len(list[r])
      /\ row' = [row EXCEPT ![r] = row[r] + 1] /\ col' = [col EXCEPT ![r] = row[r] + 2]
      /\ UNCHANGED <<writer, holds, parked, mem, clock, hpc, hreq, serves, rpc, list, top, page>>
  BY DEF NextRow
<1>2. SortedUpTo(list[r], row[r], col[r]) /\ Len(list[r]) \in Nat
  BY <1>1 DEF SortOK, TypeOK
<1>3. SortedUpTo(list[r], row[r] + 1, row[r] + 2)
  BY <1>1, <1>2, NextRowSorts
<1>4. TypeOK'
  <2>1. row' \in [Readers -> Nat] /\ col' \in [Readers -> Nat]
    BY <1>1 DEF TypeOK
  <2> QED
    BY <1>1, <2>1, SMTT(30) DEF TypeOK
<1>5. /\ row'[r] = row[r] + 1 /\ col'[r] = row[r] + 2
      /\ \A x \in Readers \ {r} : row'[x] = row[x] /\ col'[x] = col[x]
  BY <1>1 DEF TypeOK
<1>6. SortOK'
  BY <1>1, <1>3, <1>5 DEF SortOK, Sorting
<1>7. LocalOK'
  BY <1>1 DEF LocalOK
<1> QED
  BY <1>4, <1>6, <1>7

LEMMA CopyUAsInv == ASSUME Inv, NEW r \in Readers, CopyUAs(r) PROVE Inv'
<1>1. /\ mem.ips \in [IPs -> Nat] /\ IsFiniteSet(IPs)
      /\ mem.uas \in [UserAgents -> Nat] /\ IsFiniteSet(UserAgents)
  BY PageAssumption DEF Inv, TypeOK, Statistics
<1>2. /\ rpc[r] = "sortIPs" /\ row[r] > Len(list[r])
      /\ top' = [top EXCEPT ![r] = Cut(list[r])]
      /\ Copy(r, mem.uas, "sortUAs")
  BY DEF CopyUAs, Sorted
<1>3. /\ IsCopy(list'[r], mem.uas) /\ list'[r] \in Seq(Entries(UserAgents))
      /\ SortedUpTo(list'[r], row'[r], col'[r])
      /\ row' \in [Readers -> Nat] /\ col' \in [Readers -> Nat]
      /\ list' = [list EXCEPT ![r] = list'[r]]
  BY <1>1, <1>2, CopyInv
<1>4. /\ IsCopy(list[r], mem.ips) /\ SortedUpTo(list[r], row[r], col[r]) /\ holds[r] > 0
  BY <1>2 DEF Inv, SortOK, Sorting
<1>5. Cut(list[r]) \in Seq(Entries(IPs)) /\ IsTop(Cut(list[r]), mem.ips)
  BY <1>1, <1>2, <1>4, CutIsTop
<1> USE DEF Inv, Copy, Goto, lockVars, recordVars
<1>6. TypeOK'
  BY <1>2, <1>3, <1>5 DEF TypeOK
<1>7. rpc'[r] = "sortUAs" /\ holds' = holds /\ mem' = mem /\ top'[r] = Cut(list[r])
  BY <1>2 DEF TypeOK
<1>8. \A x \in Readers \ {r} :
        /\ rpc'[x] = rpc[x] /\ list'[x] = list[x] /\ row'[x] = row[x] /\ col'[x] = col[x]
        /\ top'[x] = top[x]
  BY <1>2, <1>3 DEF TypeOK
<1>9. SortOK'
  BY <1>3, <1>4, <1>5, <1>7, <1>8 DEF SortOK, Sorting
<1>10. LocalOK'
  BY <1>2 DEF LocalOK, TypeOK
<1> QED
  BY <1>6, <1>9, <1>10

\* What the calls after the charts lead to.
LEMMA AfterFacts ==
  ASSUME Inv, NEW r \in Readers, rpc[r] # "idle"
  PROVE  /\ After(r, "charts") = IF serves[r] = "ui" THEN "stats" ELSE "render"
         /\ serves[r] = "ui" => After(r, "stats") = "recent" /\ After(r, "recent") = "render"
<1>1. serves[r] \in {"ui", "data"}
  BY DEF Inv, LocalOK
<1>2. CASE serves[r] = "ui"
  BY <1>2 DEF After, Then, HandleUI, HandleChartData
<1>3. CASE serves[r] = "data"
  BY <1>3 DEF After, Then, HandleUI, HandleChartData
<1> QED
  BY <1>1, <1>2, <1>3

LEMMA ReturnChartsInv ==
  ASSUME Inv, NEW r \in Readers, ReturnCharts(r)
  PROVE  /\ Inv' /\ IsTop(top[r], mem.ips) /\ IsTop(Cut(list[r]), mem.uas)
<1>1. mem.uas \in [UserAgents -> Nat] /\ IsFiniteSet(UserAgents)
  BY PageAssumption DEF Inv, TypeOK, Statistics
<1>2. /\ rpc[r] = "sortUAs" /\ row[r] > Len(list[r])
      /\ page' = [page EXCEPT ![r].ips = top[r], ![r].uas = Cut(list[r])]
      /\ top' = [top EXCEPT ![r] = <<>>] /\ list' = [list EXCEPT ![r] = <<>>]
      /\ row' = [row EXCEPT ![r] = 1] /\ col' = [col EXCEPT ![r] = 2]
      /\ holds' = [holds EXCEPT ![r] = 0] /\ rpc' = [rpc EXCEPT ![r] = After(r, "charts")]
      /\ UNCHANGED <<writer, parked, mem, clock, hpc, hreq, serves>>
  BY DEF ReturnCharts, Sorted, Leave, Goto, Mu!RUnlockAll, recordVars
<1>3. /\ IsCopy(list[r], mem.uas) /\ SortedUpTo(list[r], row[r], col[r])
      /\ IsTop(top[r], mem.ips)
  BY <1>2 DEF Inv, SortOK, Sorting
<1>4. Cut(list[r]) \in Seq(Entries(UserAgents)) /\ IsTop(Cut(list[r]), mem.uas)
  BY <1>1, <1>2, <1>3, CutIsTop
<1>5. rpc' = [rpc EXCEPT ![r] = IF serves[r] = "ui" THEN "stats" ELSE "render"]
  BY <1>2, AfterFacts
<1> USE DEF Inv
<1>6. page' \in [Readers -> Views]
  <2>1. /\ page \in [Readers -> Views] /\ top[r] \in Seq(Entries(IPs))
        /\ page' = [page EXCEPT ![r] = [page[r] EXCEPT !.ips = top[r], !.uas = Cut(list[r])]]
    BY <1>2 DEF TypeOK
  <2>2. [page[r] EXCEPT !.ips = top[r], !.uas = Cut(list[r])] \in Views
    BY <1>4, <2>1 DEF Views
  <2> QED
    BY <2>1, <2>2
<1>7. TypeOK'
  BY <1>2, <1>5, <1>6 DEF TypeOK, Calls
<1>8. /\ rpc'[r] \in {"stats", "render"}
      /\ \A x \in Readers \ {r} :
           /\ rpc'[x] = rpc[x] /\ list'[x] = list[x] /\ row'[x] = row[x]
           /\ col'[x] = col[x] /\ top'[x] = top[x] /\ holds'[x] = holds[x]
  BY <1>2, <1>5 DEF TypeOK
<1>9. SortOK'
  BY <1>2, <1>8 DEF SortOK, Sorting
<1>10. LocalOK'
  BY <1>2, <1>5 DEF LocalOK, TypeOK
<1> QED
  BY <1>3, <1>4, <1>7, <1>9, <1>10

\* The steps of a reader that do not sort: they leave the lists alone.
LEMMA UnsortedStep ==
  ASSUME Inv, NEW r \in Readers, ~Sorting(r),
         NEW step \in {"recent", "render", "idle"}, rpc' = [rpc EXCEPT ![r] = step],
         holds' \in {holds, [holds EXCEPT ![r] = 0]},
         page' \in [Readers -> Views],
         serves' \in {serves, [serves EXCEPT ![r] = "none"]},
         step # "idle" => serves' = serves /\ rpc[r] # "idle",
         step = "recent" => serves[r] = "ui",
         UNCHANGED <<writer, parked, mem, clock, hpc, hreq, list, row, col, top>>
  PROVE  Inv'
<1> USE DEF Inv
<1>1. TypeOK'
  <2>1. /\ [holds EXCEPT ![r] = 0] \in [Readers -> Nat]
        /\ [serves EXCEPT ![r] = "none"] \in [Readers -> {"none", "ui", "data"}]
        /\ holds \in [Readers -> Nat] /\ serves \in [Readers -> {"none", "ui", "data"}]
    BY DEF TypeOK
  <2>3. holds' \in [Readers -> Nat]
    BY <2>1
  <2>4. serves' \in [Readers -> {"none", "ui", "data"}]
    BY <2>1
  <2>2. rpc' \in [Readers -> {"idle", "sortIPs", "sortUAs", "render"} \cup Calls]
    BY DEF TypeOK, Calls
  <2> QED
    BY <2>2, <2>3, <2>4 DEF TypeOK
<1>2. /\ rpc'[r] = step
      /\ \A x \in Readers \ {r} :
           rpc'[x] = rpc[x] /\ holds'[x] = holds[x] /\ serves'[x] = serves[x]
  BY DEF TypeOK
<1>3. SortOK'
  BY <1>2 DEF SortOK, Sorting
<1>4. LocalOK'
  BY <1>2 DEF LocalOK
<1> QED
  BY <1>1, <1>3, <1>4

LEMMA GetStatsInv == ASSUME Inv, NEW r \in Readers, GetStats(r) PROVE Inv'
<1>1. rpc[r] = "stats" /\ serves[r] = "ui" /\ After(r, "stats") = "recent"
  BY AfterFacts DEF Inv, LocalOK, GetStats, Reading
<1>2. /\ mem.total \in Nat /\ Cardinality(KeysOf(mem.ips)) \in Nat
      /\ Cardinality(KeysOf(mem.uas)) \in Nat
  <2>1. /\ mem.total \in Nat /\ mem.ips \in [IPs -> Nat]
        /\ mem.uas \in [UserAgents -> Nat]
    BY DEF Inv, TypeOK, Statistics
  <2> QED
    BY <2>1, KeysFinite, PageAssumption
<1>3. page' \in [Readers -> Views]
  <2> DEFINE answer == [page[r] EXCEPT !.total = mem.total,
                                       !.uniqueIPs = Cardinality(KeysOf(mem.ips)),
                                       !.uniqueUAs = Cardinality(KeysOf(mem.uas))]
  <2>1. page \in [Readers -> Views] /\ page' = [page EXCEPT ![r] = answer]
    BY DEF Inv, TypeOK, GetStats
  <2>2. answer \in Views
    BY <1>2, <2>1 DEF Views
  <2> QED
    BY <2>1, <2>2
<1>4. /\ rpc' = [rpc EXCEPT ![r] = "recent"] /\ holds' = [holds EXCEPT ![r] = 0]
      /\ UNCHANGED <<writer, parked, mem, clock, hpc, hreq, serves, list, row, col, top>>
  BY <1>1 DEF GetStats, Leave, Goto, Mu!RUnlockAll, recordVars, sortVars
<1>5. ~Sorting(r)
  BY <1>1 DEF Sorting
<1> QED
  BY <1>1, <1>3, <1>4, <1>5, UnsortedStep

\* The list of a page is the list of the newest requests.
LEMMA ReversedTyped ==
  ASSUME NEW recent \in Seq(Nat)
  PROVE  Reversed(recent) \in Seq(Nat) /\ Reversed(recent) = Atomic!Newest(recent)
<1> DEFINE n == Atomic!Least(RecentLimit, Len(recent))
<1>1. n \in Nat /\ n <= Len(recent) /\ Len(recent) \in Nat
  BY PageAssumption DEF Atomic!Least
<1>2. Reversed(recent) = [a \in 1 .. n |-> recent[Len(recent) - (a - 1)]]
  BY DEF Reversed
<1>3. Atomic!Newest(recent) = [a \in 1 .. n |-> recent[Len(recent) + 1 - a]]
  BY DEF Atomic!Newest
<1> HIDE DEF n
<1>4. \A a \in 1 .. n :
        /\ Len(recent) - (a - 1) = Len(recent) + 1 - a
        /\ recent[Len(recent) - (a - 1)] \in Nat
  BY <1>1
<1> QED
  BY <1>1, <1>2, <1>3, <1>4

LEMMA GetRecentRequestsInv ==
  ASSUME Inv, NEW r \in Readers, GetRecentRequests(r) PROVE Inv'
<1>1. rpc[r] = "recent" /\ serves[r] = "ui" /\ After(r, "recent") = "render"
  BY AfterFacts DEF Inv, LocalOK, GetRecentRequests, Reading
<1>2. mem.recent \in Seq(Nat)
  BY DEF Inv, TypeOK, Statistics
<1>3. page' \in [Readers -> Views]
  <2> DEFINE answer == [page[r] EXCEPT !.recent = Reversed(mem.recent)]
  <2>1. page \in [Readers -> Views] /\ page' = [page EXCEPT ![r] = answer]
    BY DEF Inv, TypeOK, GetRecentRequests
  <2>2. answer \in Views
    BY <1>2, <2>1, ReversedTyped DEF Views
  <2> QED
    BY <2>1, <2>2
<1>4. /\ rpc' = [rpc EXCEPT ![r] = "render"] /\ holds' = [holds EXCEPT ![r] = 0]
      /\ UNCHANGED <<writer, parked, mem, clock, hpc, hreq, serves, list, row, col, top>>
  BY <1>1 DEF GetRecentRequests, Leave, Goto, Mu!RUnlockAll, recordVars, sortVars
<1>5. ~Sorting(r)
  BY <1>1 DEF Sorting
<1> QED
  BY <1>1, <1>3, <1>4, <1>5, UnsortedStep

LEMMA RenderInv == ASSUME Inv, NEW r \in Readers, Render(r) PROVE Inv'
<1>1. /\ rpc[r] = "render" /\ rpc' = [rpc EXCEPT ![r] = "idle"]
      /\ page' = [page EXCEPT ![r] = Atomic!NoView]
      /\ serves' = [serves EXCEPT ![r] = "none"]
      /\ UNCHANGED <<writer, holds, parked, mem, clock, hpc, hreq, list, row, col, top>>
  BY DEF Render, Goto, lockVars, recordVars, sortVars
<1>2. page' \in [Readers -> Views]
  BY <1>1 DEF Inv, TypeOK, Views, Atomic!NoView
<1>3. ~Sorting(r)
  BY <1>1 DEF Sorting
<1> QED
  BY <1>1, <1>2, <1>3, UnsortedStep

LEMMA StutterInv == ASSUME Inv, UNCHANGED vars PROVE Inv'
<1> USE DEF Inv, vars, lockVars, recordVars, readVars, sortVars
<1>1. TypeOK'
  BY DEF TypeOK
<1>2. SortOK'
  BY DEF SortOK, Sorting
<1>3. LocalOK'
  BY DEF LocalOK
<1> QED
  BY <1>1, <1>2, <1>3

LEMMA NextInv == Inv /\ [Next]_vars => Inv'
<1> SUFFICES ASSUME Inv, [Next]_vars PROVE Inv'
  OBVIOUS
<1>1. ASSUME NEW h \in Handlers, Write(h) PROVE Inv'
  BY <1>1, ArriveInv, LockInv, RecordInv DEF Write
<1>2. ASSUME NEW r \in Readers, Open(r) \/ RLock(r) \/ Run(r) PROVE Inv'
  BY <1>2, OpenInv, RLockInv, CopyIPsInv, CompareInv, NextRowInv, CopyUAsInv,
     ReturnChartsInv, GetStatsInv, GetRecentRequestsInv, RenderInv DEF Run
<1>3. CASE UNCHANGED vars
  BY <1>3, StutterInv
<1> QED
  BY <1>1, <1>2, <1>3 DEF Next

LEMMA SpecInv == Spec => []Inv
BY InitInv, NextInv, PTL DEF Spec

-----------------------------------------------------------------------------
(* What the calls answer *)

LEMMA ChartsAnswer ==
  ASSUME Inv, NEW r \in Readers, ReturnCharts(r)
  PROVE  /\ page'[r].ips = top[r] /\ page'[r].uas = Cut(list[r])
         /\ page'[r].recent = page[r].recent /\ page'[r].total = page[r].total
         /\ \A x \in Readers \ {r} : page'[x] = page[x]
<1>1. page \in [Readers -> Views]
  BY DEF Inv, TypeOK
<1>2. page' = [page EXCEPT ![r] = [page[r] EXCEPT !.ips = top[r], !.uas = Cut(list[r])]]
  BY <1>1 DEF ReturnCharts
<1>3. page'[r] = [page[r] EXCEPT !.ips = top[r], !.uas = Cut(list[r])]
  BY <1>1, <1>2, Zenon
<1>4. \A x \in Readers \ {r} : page'[x] = page[x]
  BY <1>1, <1>2, Zenon
<1>5. page[r] \in Views
  BY <1>1
<1> QED
  BY <1>3, <1>4, <1>5 DEF Views

LEMMA StatsAnswer ==
  ASSUME Inv, NEW r \in Readers, GetStats(r)
  PROVE  /\ page'[r].total = mem.total
         /\ page'[r].uniqueIPs = Cardinality(KeysOf(mem.ips))
         /\ page'[r].uniqueUAs = Cardinality(KeysOf(mem.uas))
         /\ page'[r].ips = page[r].ips /\ page'[r].uas = page[r].uas
         /\ page'[r].recent = page[r].recent
         /\ \A x \in Readers \ {r} : page'[x] = page[x]
<1> DEFINE nIPs == Cardinality(KeysOf(mem.ips))
           nUAs == Cardinality(KeysOf(mem.uas))
<1>1. page \in [Readers -> Views]
  BY DEF Inv, TypeOK
<1>2. page' = [page EXCEPT ![r] = [page[r] EXCEPT !.total = mem.total, !.uniqueIPs = nIPs,
                                                  !.uniqueUAs = nUAs]]
  BY <1>1 DEF GetStats
<1> HIDE DEF nIPs, nUAs
<1>3. page'[r] = [page[r] EXCEPT !.total = mem.total, !.uniqueIPs = nIPs, !.uniqueUAs = nUAs]
  BY <1>1, <1>2, Zenon
<1>4. \A x \in Readers \ {r} : page'[x] = page[x]
  BY <1>1, <1>2, Zenon
<1>5. page[r] \in Views
  BY <1>1
<1>6. /\ page'[r].total = mem.total /\ page'[r].uniqueIPs = nIPs /\ page'[r].uniqueUAs = nUAs
      /\ page'[r].ips = page[r].ips /\ page'[r].uas = page[r].uas
      /\ page'[r].recent = page[r].recent
  BY <1>3, <1>5 DEF Views
<1> QED
  BY <1>4, <1>6 DEF nIPs, nUAs

LEMMA RecentAnswer ==
  ASSUME Inv, NEW r \in Readers, GetRecentRequests(r)
  PROVE  /\ page'[r].recent = Reversed(mem.recent)
         /\ page'[r].total = page[r].total
         /\ page'[r].uniqueIPs = page[r].uniqueIPs /\ page'[r].uniqueUAs = page[r].uniqueUAs
         /\ page'[r].ips = page[r].ips /\ page'[r].uas = page[r].uas
         /\ \A x \in Readers \ {r} : page'[x] = page[x]
<1> DEFINE newest == Reversed(mem.recent)
<1>1. page \in [Readers -> Views]
  BY DEF Inv, TypeOK
<1>2. page' = [page EXCEPT ![r] = [page[r] EXCEPT !.recent = newest]]
  BY <1>1 DEF GetRecentRequests
<1> HIDE DEF newest
<1>3. page'[r] = [page[r] EXCEPT !.recent = newest]
  BY <1>1, <1>2, Zenon
<1>4. \A x \in Readers \ {r} : page'[x] = page[x]
  BY <1>1, <1>2, Zenon
<1>5. page[r] \in Views
  BY <1>1
<1>6. /\ page'[r].recent = newest /\ page'[r].total = page[r].total
      /\ page'[r].uniqueIPs = page[r].uniqueIPs /\ page'[r].uniqueUAs = page[r].uniqueUAs
      /\ page'[r].ips = page[r].ips /\ page'[r].uas = page[r].uas
  BY <1>3, <1>5 DEF Views
<1> QED
  BY <1>4, <1>6 DEF newest

-----------------------------------------------------------------------------
(* The order of the recent requests *)

\* The steps of a reader record nothing.
LEMMA ReadersRecordNothing ==
  ASSUME NEW r \in Readers, Open(r) \/ RLock(r) \/ Run(r)
  PROVE  UNCHANGED <<mem, clock, hpc, hreq>>
BY DEF Open, RLock, Run, CopyIPs, Compare, NextRow, CopyUAs, Copy, ReturnCharts, GetStats,
   GetRecentRequests, Render, recordVars

LEMMA OvertakenFinite ==
  ASSUME NEW l \in Seq(Nat), NEW i \in 1 .. Len(l)
  PROVE  IsFiniteSet(Overtaken(l, i)) /\ Cardinality(Overtaken(l, i)) \in Nat
<1>1. IsFiniteSet(i + 1 .. Len(l))
  BY FS_Interval
<1>2. Overtaken(l, i) \in SUBSET (i + 1 .. Len(l))
  BY DEF Overtaken
<1> QED
  BY <1>1, <1>2, FS_Subset, FS_CardinalityType

LEMMA OlderFinite ==
  \A ts : IsFiniteSet(OlderAtWork(ts)) /\ Cardinality(OlderAtWork(ts)) \in Nat
<1>1. \A ts : OlderAtWork(ts) \in SUBSET Handlers
  BY DEF OlderAtWork
<1> QED
  BY <1>1, FS_Subset, FS_CardinalityType, PageAssumption

\* An appended entry is behind all others, and overtakes those that are younger.
LEMMA AppendOvertakes ==
  ASSUME NEW l \in Seq(Nat), NEW ts \in Nat, NEW i \in 1 .. Len(l)
  PROVE  Overtaken(Append(l, ts), i) =
           IF ts < l[i] THEN Overtaken(l, i) \cup {Len(l) + 1} ELSE Overtaken(l, i)
<1> DEFINE L == Append(l, ts)
<1>1. /\ Len(L) = Len(l) + 1 /\ L[Len(l) + 1] = ts /\ Len(l) \in Nat
      /\ \A j \in 1 .. Len(l) : L[j] = l[j]
  OBVIOUS
<1> HIDE DEF L
<1>2. Len(L) = Len(l) + 1 /\ Len(l) \in Nat /\ i \in 1 .. Len(l)
  BY <1>1
<1>3. ASSUME NEW j
      PROVE  j \in Overtaken(L, i) <=>
               j \in Overtaken(l, i) \/ (j = Len(l) + 1 /\ ts < l[i])
  <2>1. CASE j \in i + 1 .. Len(l)
    <3>1. /\ j \in i + 1 .. Len(L) /\ j # Len(l) + 1
          /\ L[j] = l[j] /\ L[i] = l[i]
      BY <1>1, <2>1
    <3> QED
      BY <2>1, <3>1, Zenon DEF Overtaken
  <2>2. CASE j = Len(l) + 1
    <3>1. L[j] = ts /\ L[i] = l[i]
      BY <1>1, <2>2
    <3>2. j \in i + 1 .. Len(L) /\ j \notin i + 1 .. Len(l)
      BY <1>2, <2>2
    <3> QED
      BY <2>2, <3>1, <3>2, Zenon DEF Overtaken
  <2>3. CASE j \notin i + 1 .. Len(l) /\ j # Len(l) + 1
    <3>1. j \notin i + 1 .. Len(L)
      BY <1>2, <2>3
    <3> QED
      BY <2>3, <3>1, Zenon DEF Overtaken
  <2> QED
    BY <2>1, <2>2, <2>3
<1> QED
  BY <1>3, Zenon DEF L

\* When the first entry is dropped, the others keep those that overtook them.
LEMMA TailOvertaken ==
  ASSUME NEW l \in Seq(Nat), l # <<>>, NEW i \in 1 .. Len(l) - 1
  PROVE  Cardinality(Overtaken(Tail(l), i)) <= Cardinality(Overtaken(l, i + 1))
<1> DEFINE A == Overtaken(Tail(l), i)
           B == Overtaken(l, i + 1)
           next == [j \in A |-> j + 1]
<1>1. /\ Len(l) \in Nat /\ Len(Tail(l)) = Len(l) - 1
      /\ \A j \in 1 .. Len(l) - 1 : Tail(l)[j] = l[j + 1]
  OBVIOUS
<1>2. \A j \in A : j \in Nat /\ j + 1 \in B
  BY <1>1 DEF Overtaken
<1>3. next \in Injection(A, B)
  <2> HIDE DEF A, B
  <2> QED
    BY <1>2 DEF Injection, IsInjective
<1>4. IsFiniteSet(B)
  BY <1>1, OvertakenFinite
<1> HIDE DEF A, B, next
<1> QED
  BY <1>3, <1>4, FS_Injection DEF A, B

\* A page shows the list backwards: what is older and above an entry overtook it.
LEMMA ReversedOvertaken ==
  ASSUME NEW l \in Seq(Nat), NEW b \in DOMAIN Reversed(l)
  PROVE  /\ Len(l) - (b - 1) \in 1 .. Len(l)
         /\ Cardinality({a \in 1 .. b - 1 : Reversed(l)[a] < Reversed(l)[b]})
              <= Cardinality(Overtaken(l, Len(l) - (b - 1)))
<1> DEFINE n == Atomic!Least(RecentLimit, Len(l))
           i == Len(l) - (b - 1)
           A == {a \in 1 .. b - 1 : Reversed(l)[a] < Reversed(l)[b]}
           place == [a \in A |-> Len(l) - (a - 1)]
<1>1. n \in Nat /\ n <= Len(l) /\ Len(l) \in Nat
  BY PageAssumption DEF Atomic!Least
<1>2. DOMAIN Reversed(l) = 1 .. n /\ \A a \in 1 .. n : Reversed(l)[a] = l[Len(l) - (a - 1)]
  BY DEF Reversed
<1> HIDE DEF n
<1>3. b \in 1 .. n /\ i \in 1 .. Len(l)
  BY <1>1, <1>2
<1>4. \A a \in A : a \in Nat /\ Len(l) - (a - 1) \in Overtaken(l, i)
  <2>1. ASSUME NEW a \in A PROVE a \in Nat /\ Len(l) - (a - 1) \in Overtaken(l, i)
    <3>1. a \in 1 .. n /\ a < b
      BY <1>1, <1>3
    <3>2. l[Len(l) - (a - 1)] < l[i]
      BY <1>2, <1>3, <3>1
    <3> QED
      BY <1>1, <1>3, <3>1, <3>2 DEF Overtaken
  <2> QED
    BY <2>1
<1>5. place \in Injection(A, Overtaken(l, i))
  <2> HIDE DEF A, i
  <2>1. \A a \in A : place[a] = Len(l) - (a - 1)
    OBVIOUS
  <2>2. place \in [A -> Overtaken(l, i)]
    BY <1>4
  <2>3. \A a, c \in A : place[a] = place[c] => a = c
    BY <1>1, <1>4, <2>1
  <2> QED
    BY <2>2, <2>3 DEF Injection, IsInjective
<1>6. IsFiniteSet(Overtaken(l, i))
  BY <1>3, OvertakenFinite
<1> HIDE DEF A, i, place
<1>7. Cardinality(A) <= Cardinality(Overtaken(l, i))
  BY <1>5, <1>6, FS_Injection
<1> QED
  BY <1>3, <1>7 DEF A, i

LEMMA InitOrder == Init => OrderOK
<1> SUFFICES ASSUME Init PROVE OrderOK
  OBVIOUS
<1>1. \A i \in 1 .. Len(mem.recent) : mem.recent[i] = 0
  <2>1. PICK n \in 0 .. Atomic!Least(MaxRecent, MaxLoaded) :
          mem.recent = [k \in 1 .. n |-> 0]
    BY DEF Init, Loaded
  <2>2. n \in Nat
    BY PageAssumption, CapsAssumption DEF Atomic!Least
  <2> QED
    BY <2>1, <2>2
<1>2. ASSUME NEW i \in 1 .. Len(mem.recent)
      PROVE  Cardinality(Overtaken(mem.recent, i)) + Cardinality(OlderAtWork(mem.recent[i]))
               < Cardinality(Handlers)
  <2>1. Len(mem.recent) \in Nat
    BY InitInv DEF Inv, TypeOK, Statistics
  <2>2. Overtaken(mem.recent, i) = {}
    BY <1>1, <2>1 DEF Overtaken
  <2>3. OlderAtWork(mem.recent[i]) = {}
    BY DEF Init, OlderAtWork
  <2>4. Cardinality(Handlers) \in Nat /\ Cardinality(Handlers) # 0
    BY PageAssumption, FS_CardinalityType, FS_EmptySet
  <2> QED
    BY <2>2, <2>3, <2>4, FS_EmptySet
<1> QED
  BY <1>1, <1>2 DEF Init, OrderOK

LEMMA ArriveOrder == ASSUME Inv, OrderOK, NEW h \in Handlers, Arrive(h) PROVE OrderOK'
<1>1. /\ clock \in Nat /\ clock' = clock + 1 /\ mem' = mem /\ hpc[h] = "idle"
      /\ hpc' = [hpc EXCEPT ![h] = "lock"]
  BY PageAssumption DEF Inv, TypeOK, Arrive
<1>2. PICK q \in Requests : q.ts = clock + 1 /\ hreq' = [hreq EXCEPT ![h] = q]
  BY DEF Arrive
<1>3. \A x \in Handlers : hpc'[x] # "idle" =>
        \/ x = h /\ hreq'[x].ts = clock + 1
        \/ x # h /\ hpc[x] # "idle" /\ hreq'[x] = hreq[x]
  BY <1>1, <1>2 DEF Inv, TypeOK
<1>4. ASSUME NEW x \in Handlers, hpc'[x] # "idle" PROVE hreq'[x].ts <= clock'
  <2>1. CASE x = h
    BY <1>1, <1>3, <1>4, <2>1
  <2>2. CASE x # h
    <3>1. hpc[x] # "idle" /\ hreq'[x] = hreq[x] /\ hreq[x] \in Requests
      BY <1>3, <1>4, <2>2 DEF Inv, LocalOK
    <3>2. hreq[x].ts \in Nat /\ hreq[x].ts <= clock
      BY <3>1, PageAssumption DEF OrderOK, Requests
    <3> QED
      BY <1>1, <3>1, <3>2
  <2> QED
    BY <2>1, <2>2
<1>5. ASSUME NEW ts \in Nat, ts <= clock PROVE OlderAtWork(ts)' = OlderAtWork(ts)
  <2>1. \A x \in Handlers :
          (hpc'[x] # "idle" /\ hreq'[x].ts < ts) <=> (hpc[x] # "idle" /\ hreq[x].ts < ts)
    BY <1>1, <1>2, <1>5 DEF Inv, TypeOK
  <2> QED
    BY <2>1, Zenon DEF OlderAtWork
<1>6. ASSUME NEW i \in 1 .. Len(mem.recent)
      PROVE  /\ mem.recent[i] <= clock'
             /\ Cardinality(Overtaken(mem.recent, i)) + Cardinality(OlderAtWork(mem.recent[i])')
                  < Cardinality(Handlers)
  <2>1. mem.recent[i] \in Nat /\ mem.recent[i] <= clock
    BY DEF Inv, TypeOK, Statistics, OrderOK
  <2>2. OlderAtWork(mem.recent[i])' = OlderAtWork(mem.recent[i])
    <3>1. mem.recent[i]' = mem.recent[i]
      BY <1>1
    <3> QED
      BY <1>5, <2>1, <3>1 DEF OlderAtWork
  <2> QED
    BY <1>1, <2>1, <2>2 DEF OrderOK
<1> QED
  BY <1>1, <1>4, <1>6 DEF OrderOK

LEMMA LockOrder == ASSUME Inv, OrderOK, NEW h \in Handlers, Lock(h) PROVE OrderOK'
<1>1. mem' = mem /\ clock' = clock /\ hreq' = hreq /\ hpc[h] = "lock"
      /\ hpc' = [hpc EXCEPT ![h] = "record"]
  BY DEF Lock
<1>2. \A x \in Handlers : hpc'[x] # "idle" <=> hpc[x] # "idle"
  BY <1>1 DEF Inv, TypeOK
<1> QED
  BY <1>1, <1>2 DEF OrderOK, OlderAtWork

\* The handler that records leaves those at work and joins the entries: it
\* overtakes what is younger than its request, as it was said to be able to.
LEMMA RecordOrder == ASSUME Inv, OrderOK, NEW h \in Handlers, Record(h) PROVE OrderOK'
<1> DEFINE l == mem.recent
           t == hreq[h].ts
           L == Append(mem.recent, hreq[h].ts)
<1>1. /\ mem' = Recorded(mem, hreq[h]) /\ clock' = clock
      /\ hpc' = [hpc EXCEPT ![h] = "idle"] /\ hreq' = [hreq EXCEPT ![h] = NoRequest]
      /\ hpc[h] = "record"
  BY DEF Record
<1>2. /\ hreq[h] \in Requests /\ t \in Nat /\ t <= clock /\ clock \in Nat /\ l \in Seq(Nat)
      /\ \A x \in Handlers : hpc[x] # "idle" => hreq[x].ts \in Nat
  <2>1. \A x \in Handlers : hpc[x] # "idle" => hreq[x] \in Requests
    BY DEF Inv, LocalOK
  <2>2. \A q \in Requests : q.ts \in Nat
    BY PageAssumption DEF Requests
  <2> QED
    BY <1>1, <2>1, <2>2, PageAssumption DEF OrderOK, Inv, TypeOK, Statistics
<1>3. /\ L \in Seq(Nat) /\ Len(L) = Len(l) + 1 /\ Len(l) \in Nat /\ L[Len(l) + 1] = t
      /\ \A j \in 1 .. Len(l) : L[j] = l[j]
  BY <1>2
<1> DEFINE Left(ts) == {x \in Handlers : hpc'[x] # "idle" /\ hreq'[x].ts < ts}
<1>4. \A ts : Left(ts) = OlderAtWork(ts) \ {h}
  BY <1>1 DEF OlderAtWork, Inv, TypeOK
<1>5. Cardinality(Handlers) \in Nat /\ \A ts : IsFiniteSet(OlderAtWork(ts))
  BY OlderFinite, PageAssumption, FS_CardinalityType
<1>6. ASSUME NEW i \in 1 .. Len(L)
      PROVE  /\ L[i] <= clock
             /\ Cardinality(Overtaken(L, i)) + Cardinality(Left(L[i])) < Cardinality(Handlers)
  <2>1. CASE i \in 1 .. Len(l)
    <3>1. /\ L[i] = l[i] /\ l[i] \in Nat /\ l[i] <= clock
          /\ Cardinality(Overtaken(l, i)) + Cardinality(OlderAtWork(l[i])) < Cardinality(Handlers)
      BY <1>2, <1>3, <2>1 DEF OrderOK
    <3>2. /\ IsFiniteSet(Overtaken(l, i)) /\ Cardinality(Overtaken(l, i)) \in Nat
          /\ Cardinality(OlderAtWork(l[i])) \in Nat
      BY <1>2, <2>1, OvertakenFinite, OlderFinite
    <3>3. CASE t < l[i]
      <4>1. h \in OlderAtWork(l[i])
        BY <1>1, <3>3 DEF OlderAtWork
      <4>2. Cardinality(Left(l[i])) = Cardinality(OlderAtWork(l[i])) - 1
        <5>1. Left(l[i]) = OlderAtWork(l[i]) \ {h}
          BY <1>4
        <5> HIDE DEF L, l, Left
        <5> QED
          BY <1>5, <4>1, <5>1, FS_RemoveElement
      <4>3. Overtaken(L, i) = Overtaken(l, i) \cup {Len(l) + 1}
        BY <1>2, <2>1, <3>3, AppendOvertakes
      <4>4. Len(l) + 1 \notin Overtaken(l, i)
        BY <1>3 DEF Overtaken
      <4>5. Cardinality(Overtaken(L, i)) = Cardinality(Overtaken(l, i)) + 1
        BY <3>2, <4>3, <4>4, FS_AddElement
      <4> HIDE DEF L, l, Left
      <4> QED
        BY <1>5, <3>1, <3>2, <4>2, <4>5
    <3>4. CASE ~ (t < l[i])
      <4>1. h \notin OlderAtWork(l[i])
        BY <3>4 DEF OlderAtWork
      <4>2. Left(l[i]) = OlderAtWork(l[i])
        BY <1>4, <4>1
      <4>3. Overtaken(L, i) = Overtaken(l, i)
        BY <1>2, <2>1, <3>4, AppendOvertakes
      <4> HIDE DEF L, l, Left
      <4> QED
        BY <3>1, <4>2, <4>3
    <3> QED
      BY <3>3, <3>4
  <2>2. CASE i = Len(l) + 1
    <3>1. Overtaken(L, i) = {}
      BY <1>3, <2>2 DEF Overtaken
    <3>2. Left(L[i]) \in SUBSET (Handlers \ {h})
      BY <1>4 DEF OlderAtWork
    <3>3. /\ IsFiniteSet(Handlers \ {h})
          /\ Cardinality(Handlers \ {h}) = Cardinality(Handlers) - 1
      BY PageAssumption, FS_RemoveElement
    <3>4. Cardinality(Left(L[i])) <= Cardinality(Handlers) - 1
      BY <3>2, <3>3, FS_Subset
    <3>5. Cardinality(Left(L[i])) \in Nat /\ Cardinality({}) = 0
      BY <3>2, <3>3, FS_Subset, FS_CardinalityType, FS_EmptySet
    <3>6. L[i] <= clock
      BY <1>2, <1>3, <2>2
    <3> HIDE DEF L, l, Left
    <3> QED
      BY <1>5, <3>1, <3>4, <3>5, <3>6
  <2>3. i \in 1 .. Len(l) \/ i = Len(l) + 1
    <3> HIDE DEF L, l
    <3> QED
      BY <1>3
  <2> QED
    BY <2>1, <2>2, <2>3, Zenon
<1>7. mem'.recent = IF Len(L) > MaxRecent THEN Tail(L) ELSE L
  BY <1>1 DEF Recorded, Appended
<1>8. ASSUME NEW i \in 1 .. Len(mem'.recent)
      PROVE  /\ mem'.recent[i] <= clock
             /\ Cardinality(Overtaken(mem'.recent, i)) + Cardinality(Left(mem'.recent[i]))
                  < Cardinality(Handlers)
  <2>1. CASE mem'.recent = L
    <3> HIDE DEF L, Left
    <3>1. i \in 1 .. Len(L)
      BY <1>8, <2>1
    <3> QED
      BY <1>6, <2>1, <3>1
  <2>2. CASE mem'.recent = Tail(L)
    <3> HIDE DEF L, Left
    <3>1. L # <<>> /\ i \in 1 .. Len(L) - 1 /\ i + 1 \in 1 .. Len(L) /\ Tail(L)[i] = L[i + 1]
      BY <1>3, <1>8, <2>2
    <3>2. Cardinality(Overtaken(Tail(L), i)) <= Cardinality(Overtaken(L, i + 1))
      BY <1>3, <3>1, TailOvertaken
    <3>3. /\ L[i + 1] <= clock
          /\ Cardinality(Overtaken(L, i + 1)) + Cardinality(Left(L[i + 1]))
               < Cardinality(Handlers)
      BY <1>6, <3>1
    <3>4. Cardinality(Overtaken(L, i + 1)) \in Nat
      BY <1>3, <3>1, OvertakenFinite
    <3>5. Cardinality(Overtaken(Tail(L), i)) \in Nat
      <4>1. Tail(L) \in Seq(Nat) /\ i \in 1 .. Len(Tail(L))
        BY <1>3, <3>1
      <4> QED
        BY <4>1, OvertakenFinite
    <3>6. Cardinality(Left(L[i + 1])) \in Nat
      <4>1. Left(L[i + 1]) \in SUBSET OlderAtWork(L[i + 1])
        BY <1>4
      <4> QED
        BY <1>5, <4>1, FS_Subset, FS_CardinalityType
    <3> QED
      BY <1>5, <2>2, <3>1, <3>2, <3>3, <3>4, <3>5, <3>6
  <2> QED
    BY <1>7, <2>1, <2>2
<1>9. \A x \in Handlers : hpc'[x] # "idle" => hreq'[x].ts <= clock
  BY <1>1 DEF OrderOK, Inv, TypeOK
<1>10. \A i \in 1 .. Len(mem'.recent) : OlderAtWork(mem.recent[i])' = Left(mem'.recent[i])
  BY DEF OlderAtWork
<1> HIDE DEF L, l, Left
<1> QED
  BY <1>1, <1>8, <1>9, <1>10 DEF OrderOK, Overtaken

LEMMA NextOrder == Inv /\ OrderOK /\ [Next]_vars => OrderOK'
<1> SUFFICES ASSUME Inv, OrderOK, [Next]_vars PROVE OrderOK'
  OBVIOUS
<1>1. ASSUME NEW h \in Handlers, Write(h) PROVE OrderOK'
  BY <1>1, ArriveOrder, LockOrder, RecordOrder DEF Write
<1>2. ASSUME UNCHANGED <<mem, clock, hpc, hreq>> PROVE OrderOK'
  BY <1>2 DEF OrderOK, OlderAtWork
<1>3. ASSUME NEW r \in Readers, Open(r) \/ RLock(r) \/ Run(r) PROVE OrderOK'
  BY <1>2, <1>3, ReadersRecordNothing
<1>4. CASE UNCHANGED vars
  BY <1>2, <1>4 DEF vars, recordVars
<1> QED
  BY <1>1, <1>3, <1>4 DEF Next

\* What a page shows was the list when it was read.
LEMMA NextShown == Inv /\ OrderOK /\ RecentNearlyOrdered /\ [Next]_vars => RecentNearlyOrdered'
<1> SUFFICES ASSUME Inv, OrderOK, RecentNearlyOrdered, [Next]_vars PROVE RecentNearlyOrdered'
  OBVIOUS
<1> DEFINE Ordered(shown) ==
             \A b \in DOMAIN shown :
               Cardinality({a \in 1 .. b - 1 : shown[a] < shown[b]}) < Cardinality(Handlers)
<1>1. Ordered(<<>>)
  OBVIOUS
<1>2. Ordered(Reversed(mem.recent))
  <2>1. mem.recent \in Seq(Nat)
    BY DEF Inv, TypeOK, Statistics
  <2>2. ASSUME NEW b \in DOMAIN Reversed(mem.recent)
        PROVE  Cardinality({a \in 1 .. b - 1 :
                              Reversed(mem.recent)[a] < Reversed(mem.recent)[b]})
                 < Cardinality(Handlers)
    <3> DEFINE i == Len(mem.recent) - (b - 1)
               A == {a \in 1 .. b - 1 : Reversed(mem.recent)[a] < Reversed(mem.recent)[b]}
    <3>1. i \in 1 .. Len(mem.recent) /\ Cardinality(A) <= Cardinality(Overtaken(mem.recent, i))
      BY <2>1, ReversedOvertaken
    <3>2. b \in Nat
      BY <2>1, ReversedTyped
    <3> HIDE DEF i
    <3>3. Cardinality(Overtaken(mem.recent, i)) + Cardinality(OlderAtWork(mem.recent[i]))
            < Cardinality(Handlers)
      BY <3>1 DEF OrderOK
    <3>4. /\ Cardinality(Overtaken(mem.recent, i)) \in Nat
          /\ Cardinality(OlderAtWork(mem.recent[i])) \in Nat
          /\ Cardinality(Handlers) \in Nat
      BY <2>1, <3>1, OvertakenFinite, OlderFinite, PageAssumption, FS_CardinalityType
    <3>5. Cardinality(A) \in Nat
      <4>1. IsFiniteSet(1 .. b - 1) /\ A \in SUBSET (1 .. b - 1)
        BY <3>2, FS_Interval
      <4> QED
        BY <4>1, FS_Subset, FS_CardinalityType
    <3> HIDE DEF A
    <3>6. Cardinality(A) < Cardinality(Handlers)
      BY <3>1, <3>3, <3>4, <3>5
    <3> QED
      BY <3>6 DEF A
  <2> QED
    BY <2>2
<1>3. \A r \in Readers : Ordered(page[r].recent)
  BY DEF RecentNearlyOrdered
<1>4. \A r \in Readers :
        page'[r].recent \in {page[r].recent, Reversed(mem.recent), <<>>}
  <2>1. page \in [Readers -> Views]
    BY DEF Inv, TypeOK
  <2>2. CASE \E h \in Handlers : Write(h)
    BY <2>2 DEF Write, Arrive, Lock, Record, readVars
  <2>3. ASSUME NEW r \in Readers, Open(r) \/ RLock(r) \/ Run(r)
        PROVE  \A x \in Readers :
                 page'[x].recent \in {page[x].recent, Reversed(mem.recent), <<>>}
    <3>1. CASE UNCHANGED page
      BY <3>1
    <3>2. CASE ReturnCharts(r) \/ GetStats(r) \/ GetRecentRequests(r)
      BY <3>2, ChartsAnswer, StatsAnswer, RecentAnswer
    <3>3. CASE Render(r)
      BY <2>1, <3>3 DEF Render, Atomic!NoView
    <3>4. Open(r) \/ RLock(r) \/ CopyIPs(r) \/ Compare(r) \/ NextRow(r) \/ CopyUAs(r)
            => UNCHANGED page
      BY DEF Open, RLock, CopyIPs, Compare, NextRow, CopyUAs, Copy, readVars
    <3> QED
      BY <2>3, <3>1, <3>2, <3>3, <3>4 DEF Run
  <2>4. CASE UNCHANGED vars
    BY <2>4 DEF vars, readVars
  <2> QED
    BY <2>2, <2>3, <2>4 DEF Next
<1> HIDE DEF Ordered
<1>5. \A r \in Readers : Ordered(page'[r].recent)
  BY <1>1, <1>2, <1>3, <1>4
<1> QED
  BY <1>5 DEF RecentNearlyOrdered, Ordered

-----------------------------------------------------------------------------
(* What a page adds up to *)

LEMMA SumOfTyped ==
  ASSUME NEW K, NEW l \in Seq(Entries(K)) PROVE SumOf(l) \in Nat
<1>1. DOMAIN l = 1 .. Len(l) /\ Len(l) \in Nat /\ \A a \in 1 .. Len(l) : l[a] \in Entries(K)
  BY ElementOfSeq
<1>2. [a \in DOMAIN l |-> l[a].count] \in [DOMAIN l -> Nat]
  BY <1>1 DEF Entries
<1>3. IsFiniteSet(DOMAIN l)
  BY <1>1, FS_Interval
<1> QED
  BY <1>2, <1>3, SumType DEF SumOf

\* A chart is a selection of the counts: it adds up to no more than they do.
LEMMA TopFits ==
  ASSUME NEW K, IsFiniteSet(K), NEW count \in [K -> Nat], NEW l, IsTop(l, count)
  PROVE  SumOf(l) <= SumFunction(count) /\ Len(l) <= Cardinality(KeysOf(count))
<1> DEFINE n == Cardinality(KeysOf(count))
           m == Atomic!Least(TopItems, n)
           h == [a \in DOMAIN l |-> l[a].count]
<1>1. n \in Nat /\ KeysOf(count) \subseteq K
  BY KeysFinite
<1>2. m \in Nat /\ m <= n
  BY <1>1, PageAssumption DEF Atomic!Least
<1>3. PICK s \in Atomic!TopLists(count) : l = Atomic!Bars(count, s)
  BY DEF IsTop
<1>4. /\ s \in [1 .. m -> KeysOf(count)]
      /\ \A a, b \in 1 .. m : a < b => s[a] # s[b]
  BY <1>3, AtomicSame DEF Atomic!TopLists
<1> HIDE DEF m, n
<1>5. /\ l \in Seq(Entries(K)) /\ Len(l) = m
      /\ \A a \in 1 .. m : l[a] = [label |-> s[a], count |-> count[s[a]]]
  BY <1>2, <1>3, <1>4, CopyFacts
<1>6. DOMAIN l = 1 .. m
  BY <1>5
<1>7. /\ h \in [1 .. m -> Nat] /\ \A a \in 1 .. m : h[a] = count[s[a]]
      /\ s \in [1 .. m -> K]
  BY <1>1, <1>4, <1>5, <1>6
<1> HIDE DEF h
<1>8. \A a, b \in 1 .. m : a # b => s[a] # s[b]
  BY <1>2, <1>4
<1>9. SumFunctionOnSet(h, 1 .. m) <= SumFunctionOnSet(count, K)
  <2>1. IsFiniteSet(1 .. m)
    BY <1>2, FS_Interval
  <2> QED
    BY <1>7, <1>8, <2>1, SumOfSelection
<1>10. SumOf(l) = SumFunctionOnSet(h, 1 .. m) /\ SumFunction(count) = SumFunctionOnSet(count, K)
  BY <1>7, Zenon DEF SumOf, SumFunction, h
<1> QED
  BY <1>2, <1>5, <1>9, <1>10 DEF n

\* Counting a request adds at most one, and no key is lost.
LEMMA CountedGrows ==
  ASSUME NEW K, IsFiniteSet(K), NEW count \in [K -> Nat], NEW k \in K, NEW max
  PROVE  /\ SumFunction(count) \in Nat
         /\ SumFunction(Counted(count, k, max)) <= SumFunction(count) + 1
         /\ Cardinality(KeysOf(count)) <= Cardinality(KeysOf(Counted(count, k, max)))
<1> DEFINE more == [count EXCEPT ![k] = @ + 1]
<1>1. SumFunction(count) \in Nat
  BY SumType
<1>2. SumFunction(more) = SumFunction(count) + 1
  BY SumCounted
<1>3. more \in [K -> Nat] /\ \A x \in K : count[x] > 0 => more[x] > 0
  OBVIOUS
<1> HIDE DEF more
<1>4. KeysOf(count) \subseteq KeysOf(more)
  BY <1>3 DEF KeysOf
<1>5. Cardinality(KeysOf(count)) <= Cardinality(KeysOf(more))
  BY <1>3, <1>4, KeysFinite, FS_Subset
<1>6. Cardinality(KeysOf(count)) \in Nat
  BY KeysFinite
<1>7. Counted(count, k, max) = more \/ Counted(count, k, max) = count
  BY DEF Counted, more
<1> QED
  BY <1>1, <1>2, <1>5, <1>6, <1>7

\* The list grows with the total until it is full.
LEMMA AppendedLength ==
  ASSUME NEW recent \in Seq(Nat), NEW ts \in Nat, NEW n \in Nat,
         Len(recent) = Atomic!Least(MaxRecent, n)
  PROVE  Len(Appended(recent, ts)) = Atomic!Least(MaxRecent, n + 1)
<1> DEFINE longer == Append(recent, ts)
<1>1. /\ longer \in Seq(Nat) /\ Len(longer) = Len(recent) + 1 /\ longer # <<>>
      /\ Len(recent) \in Nat
  <2>1. recent \in Seq(Nat) /\ ts \in Nat
    OBVIOUS
  <2> QED
    BY ONLY <2>1
<1> HIDE DEF longer
<1>2. Len(Tail(longer)) = Len(recent)
  BY <1>1
<1>3. Appended(recent, ts) = IF Len(longer) > MaxRecent THEN Tail(longer) ELSE longer
  BY DEF Appended, longer
<1> QED
  BY <1>1, <1>2, <1>3, CapsAssumption DEF Atomic!Least

LEMMA InitAddsUp == Init => CountsOK /\ AnswersOK /\ PageAddsUp
<1> SUFFICES ASSUME Init PROVE CountsOK /\ AnswersOK /\ PageAddsUp
  OBVIOUS
<1>1. mem.total \in Nat
  BY InitInv DEF Inv, TypeOK, Statistics
<1>2. CountsOK
  BY <1>1, CapsAssumption DEF Init, Consistent, MapAgrees, Atomic!Least, CountsOK
<1>3. AnswersOK /\ PageAddsUp
  BY DEF Init, AnswersOK, PageAddsUp
<1> QED
  BY <1>2, <1>3

\* The statistics only grow.
LEMMA StatisticsGrow ==
  ASSUME Inv, CountsOK, [Next]_vars
  PROVE  /\ CountsOK'
         /\ mem.total <= mem'.total
         /\ Cardinality(KeysOf(mem.ips)) <= Cardinality(KeysOf(mem'.ips))
         /\ Cardinality(KeysOf(mem.uas)) <= Cardinality(KeysOf(mem'.uas))
<1>1. /\ mem.total \in Nat /\ mem.ips \in [IPs -> Nat] /\ mem.uas \in [UserAgents -> Nat]
      /\ mem.recent \in Seq(Nat) /\ IsFiniteSet(IPs) /\ IsFiniteSet(UserAgents)
  BY PageAssumption DEF Inv, TypeOK, Statistics
<1>2. Cardinality(KeysOf(mem.ips)) \in Nat /\ Cardinality(KeysOf(mem.uas)) \in Nat
  BY <1>1, KeysFinite
<1>3. ASSUME NEW h \in Handlers, Record(h)
      PROVE  /\ CountsOK'
             /\ mem.total <= mem'.total
             /\ Cardinality(KeysOf(mem.ips)) <= Cardinality(KeysOf(mem'.ips))
             /\ Cardinality(KeysOf(mem.uas)) <= Cardinality(KeysOf(mem'.uas))
  <2>1. hreq[h].ip \in IPs /\ hreq[h].ua \in UserAgents /\ hreq[h].ts \in Nat
    <3>1. hreq[h] \in Requests
      BY <1>3 DEF Inv, LocalOK, Record
    <3> QED
      BY <3>1, PageAssumption DEF Requests
  <2>2. mem' = Recorded(mem, hreq[h])
    BY <1>3 DEF Record
  <2>3. /\ mem'.total = mem.total + 1
        /\ mem'.ips = Counted(mem.ips, hreq[h].ip, MaxIPs)
        /\ mem'.uas = Counted(mem.uas, hreq[h].ua, MaxUserAgents)
        /\ mem'.recent = Appended(mem.recent, hreq[h].ts)
    BY <2>2 DEF Recorded
  <2>4. /\ SumFunction(mem.ips) \in Nat /\ SumFunction(mem'.ips) <= SumFunction(mem.ips) + 1
        /\ Cardinality(KeysOf(mem.ips)) <= Cardinality(KeysOf(mem'.ips))
    BY <1>1, <2>1, <2>3, CountedGrows
  <2>5. /\ SumFunction(mem.uas) \in Nat /\ SumFunction(mem'.uas) <= SumFunction(mem.uas) + 1
        /\ Cardinality(KeysOf(mem.uas)) <= Cardinality(KeysOf(mem'.uas))
    BY <1>1, <2>1, <2>3, CountedGrows
  <2>6. SumFunction(mem'.ips) \in Nat /\ SumFunction(mem'.uas) \in Nat
    <3>1. mem' \in Statistics
      <4>1. Inv'
        BY <1>3, RecordInv
      <4> QED
        BY <4>1 DEF Inv, TypeOK
    <3> QED
      BY <1>1, <3>1, SumType DEF Statistics
  <2>7. Len(mem'.recent) = Atomic!Least(MaxRecent, mem'.total)
    <3>1. Len(mem.recent) = Atomic!Least(MaxRecent, mem.total)
      BY DEF CountsOK
    <3>2. Len(Appended(mem.recent, hreq[h].ts)) = Atomic!Least(MaxRecent, mem.total + 1)
      BY <1>1, <2>1, <3>1, AppendedLength
    <3> QED
      BY <2>3, <3>2
  <2>8. SumFunction(mem'.ips) <= mem'.total /\ SumFunction(mem'.uas) <= mem'.total
    BY <1>1, <2>3, <2>4, <2>5, <2>6 DEF CountsOK
  <2>9. CountsOK'
    BY <2>7, <2>8 DEF CountsOK
  <2> QED
    BY <1>1, <2>3, <2>4, <2>5, <2>9
<1>4. ASSUME mem' = mem
      PROVE  /\ CountsOK'
             /\ mem.total <= mem'.total
             /\ Cardinality(KeysOf(mem.ips)) <= Cardinality(KeysOf(mem'.ips))
             /\ Cardinality(KeysOf(mem.uas)) <= Cardinality(KeysOf(mem'.uas))
  <2>1. CountsOK'
    BY <1>4 DEF CountsOK
  <2> QED
    BY <1>1, <1>2, <1>4, <2>1
<1>5. mem' = mem \/ \E h \in Handlers : Record(h)
  <2>1. ASSUME NEW r \in Readers, Open(r) \/ RLock(r) \/ Run(r) PROVE mem' = mem
    BY <2>1, ReadersRecordNothing
  <2>2. ASSUME NEW h \in Handlers, Arrive(h) \/ Lock(h) PROVE mem' = mem
    BY <2>2 DEF Arrive, Lock
  <2>3. CASE UNCHANGED vars
    BY <2>3 DEF vars, recordVars
  <2> QED
    BY <2>1, <2>2, <2>3 DEF Next, Write
<1> QED
  BY <1>3, <1>4, <1>5

\* A reader's step is its own.
LEMMA OthersStand ==
  ASSUME Inv, NEW r \in Readers, Open(r) \/ RLock(r) \/ Run(r), NEW x \in Readers, x # r
  PROVE  page'[x] = page[x] /\ rpc'[x] = rpc[x] /\ serves'[x] = serves[x]
<1>1. /\ DOMAIN page = Readers /\ DOMAIN rpc = Readers /\ DOMAIN serves = Readers
  BY DEF Inv, TypeOK
<1>2. CASE Open(r)
  BY <1>1, <1>2 DEF Open, Goto
<1>3. CASE RLock(r) \/ Compare(r) \/ NextRow(r)
  BY <1>3 DEF RLock, Compare, NextRow, readVars
<1>4. CASE CopyIPs(r) \/ CopyUAs(r)
  BY <1>1, <1>4 DEF CopyIPs, CopyUAs, Copy, Goto
<1>5. CASE ReturnCharts(r) \/ GetStats(r) \/ GetRecentRequests(r)
  <2>1. page'[x] = page[x]
    BY <1>5, ChartsAnswer, StatsAnswer, RecentAnswer
  <2> QED
    BY <1>1, <1>5, <2>1 DEF ReturnCharts, GetStats, GetRecentRequests, Leave, Goto
<1>6. CASE Render(r)
  BY <1>1, <1>6 DEF Render, Goto
<1> QED
  BY <1>2, <1>3, <1>4, <1>5, <1>6 DEF Run

\* What one page has been answered adds up, and bounds what it will be answered.
AddsUp(r) ==
  /\ rpc[r] = "stats" =>
       /\ SumOf(page[r].ips) <= mem.total /\ SumOf(page[r].uas) <= mem.total
       /\ Len(page[r].ips) <= Cardinality(KeysOf(mem.ips))
       /\ Len(page[r].uas) <= Cardinality(KeysOf(mem.uas))
  /\ rpc[r] = "recent" => page[r].total <= mem.total
  /\ serves[r] = "ui" /\ rpc[r] \in {"recent", "render"} =>
       /\ SumOf(page[r].ips) <= page[r].total /\ SumOf(page[r].uas) <= page[r].total
       /\ Len(page[r].ips) <= page[r].uniqueIPs
       /\ Len(page[r].uas) <= page[r].uniqueUAs
  /\ serves[r] = "ui" /\ rpc[r] = "render" =>
       Len(page[r].recent) >= Atomic!Least(RecentLimit, Atomic!Least(MaxRecent, page[r].total))

LEMMA AllAddUp == AnswersOK /\ PageAddsUp <=> \A r \in Readers : AddsUp(r)
BY Zenon DEF AnswersOK, PageAddsUp, AddsUp

LEMMA StandAddsUp ==
  ASSUME Inv, CountsOK, [Next]_vars, NEW r \in Readers, AddsUp(r),
         page'[r] = page[r], rpc'[r] = rpc[r], serves'[r] = serves[r]
  PROVE  AddsUp(r)'
<1>1. page[r] \in Views /\ mem.total \in Nat /\ mem'.total \in Nat
  <2>1. Inv'
    BY NextInv
  <2> QED
    BY <2>1 DEF Inv, TypeOK, Statistics
<1>2. /\ SumOf(page[r].ips) \in Nat /\ SumOf(page[r].uas) \in Nat /\ page[r].total \in Nat
      /\ Len(page[r].ips) \in Nat /\ Len(page[r].uas) \in Nat
  <2>1. /\ page[r].ips \in Seq(Entries(IPs)) /\ page[r].uas \in Seq(Entries(UserAgents))
        /\ page[r].total \in Nat
    BY <1>1 DEF Views
  <2> QED
    BY <2>1, SumOfTyped
<1>3. /\ Cardinality(KeysOf(mem.ips)) \in Nat /\ Cardinality(KeysOf(mem.uas)) \in Nat
      /\ Cardinality(KeysOf(mem'.ips)) \in Nat /\ Cardinality(KeysOf(mem'.uas)) \in Nat
  <2>1. Inv'
    BY NextInv
  <2> QED
    BY <2>1, KeysFinite, PageAssumption DEF Inv, TypeOK, Statistics
<1>4. /\ mem.total <= mem'.total
      /\ Cardinality(KeysOf(mem.ips)) <= Cardinality(KeysOf(mem'.ips))
      /\ Cardinality(KeysOf(mem.uas)) <= Cardinality(KeysOf(mem'.uas))
  BY StatisticsGrow
<1>5. rpc[r] = "stats" =>
        /\ SumOf(page[r].ips) <= mem'.total /\ SumOf(page[r].uas) <= mem'.total
        /\ Len(page[r].ips) <= Cardinality(KeysOf(mem'.ips))
        /\ Len(page[r].uas) <= Cardinality(KeysOf(mem'.uas))
  <2>1. rpc[r] = "stats" =>
          /\ SumOf(page[r].ips) <= mem.total /\ SumOf(page[r].uas) <= mem.total
          /\ Len(page[r].ips) <= Cardinality(KeysOf(mem.ips))
          /\ Len(page[r].uas) <= Cardinality(KeysOf(mem.uas))
    BY Zenon DEF AddsUp
  <2>2. \A a, b, c \in Nat : a <= b /\ b <= c => a <= c
    OBVIOUS
  <2> QED
    BY <1>1, <1>2, <1>3, <1>4, <2>1, <2>2, Zenon
<1>6. rpc[r] = "recent" => page[r].total <= mem'.total
  <2>1. rpc[r] = "recent" => page[r].total <= mem.total
    BY Zenon DEF AddsUp
  <2> QED
    BY <1>1, <1>2, <1>4, <2>1
<1> QED
  BY <1>5, <1>6, Zenon DEF AddsUp

LEMMA ReturnChartsAddsUp ==
  ASSUME Inv, CountsOK, NEW r \in Readers, ReturnCharts(r) PROVE AddsUp(r)'
<1>1. /\ mem.ips \in [IPs -> Nat] /\ mem.uas \in [UserAgents -> Nat] /\ mem.total \in Nat
      /\ IsFiniteSet(IPs) /\ IsFiniteSet(UserAgents)
  BY PageAssumption DEF Inv, TypeOK, Statistics
<1>2. /\ page'[r].ips = top[r] /\ page'[r].uas = Cut(list[r])
      /\ IsTop(top[r], mem.ips) /\ IsTop(Cut(list[r]), mem.uas)
  BY ChartsAnswer, ReturnChartsInv
<1>3. /\ SumOf(page'[r].ips) <= SumFunction(mem.ips)
      /\ SumOf(page'[r].uas) <= SumFunction(mem.uas)
      /\ Len(page'[r].ips) <= Cardinality(KeysOf(mem.ips))
      /\ Len(page'[r].uas) <= Cardinality(KeysOf(mem.uas))
  BY <1>1, <1>2, TopFits
<1>4. SumOf(page'[r].ips) <= mem.total /\ SumOf(page'[r].uas) <= mem.total
  <2>1. SumFunction(mem.ips) <= mem.total /\ SumFunction(mem.uas) <= mem.total
    BY DEF CountsOK
  <2>2. SumFunction(mem.ips) \in Nat /\ SumFunction(mem.uas) \in Nat
    BY <1>1, SumType
  <2>3. SumOf(page'[r].ips) \in Nat /\ SumOf(page'[r].uas) \in Nat
    <3>1. page'[r] \in Views
      BY ReturnChartsInv DEF Inv, TypeOK
    <3> QED
      BY <3>1, SumOfTyped DEF Views
  <2> QED
    BY <1>1, <1>3, <2>1, <2>2, <2>3
<1>5. /\ mem' = mem /\ serves' = serves
      /\ rpc'[r] = IF serves[r] = "ui" THEN "stats" ELSE "render"
  <2>1. rpc[r] # "idle"
    BY DEF ReturnCharts, Sorted
  <2>2. rpc'[r] = After(r, "charts")
    BY DEF Inv, TypeOK, ReturnCharts, Leave, Goto
  <2> QED
    BY <2>1, <2>2, AfterFacts DEF ReturnCharts, recordVars
<1>6. mem'.total = mem.total /\ mem'.ips = mem.ips /\ mem'.uas = mem.uas
      /\ serves'[r] = serves[r]
  BY <1>5
<1>7. CASE serves[r] = "ui"
  BY <1>3, <1>4, <1>5, <1>6, <1>7 DEF AddsUp
<1>8. CASE serves[r] # "ui"
  BY <1>5, <1>6, <1>8 DEF AddsUp
<1> QED
  BY <1>7, <1>8

LEMMA GetStatsAddsUp ==
  ASSUME Inv, NEW r \in Readers, AddsUp(r), GetStats(r) PROVE AddsUp(r)'
<1>1. /\ page'[r].total = mem.total /\ page'[r].uniqueIPs = Cardinality(KeysOf(mem.ips))
      /\ page'[r].uniqueUAs = Cardinality(KeysOf(mem.uas))
      /\ page'[r].ips = page[r].ips /\ page'[r].uas = page[r].uas
  BY StatsAnswer
<1>2. /\ rpc[r] = "stats" /\ mem' = mem /\ mem.total \in Nat
  BY DEF GetStats, Reading, recordVars, Inv, TypeOK, Statistics
<1>3. rpc'[r] = "recent"
  <2>1. serves[r] = "ui"
    BY <1>2 DEF Inv, LocalOK
  <2>2. rpc'[r] = After(r, "stats")
    BY DEF Inv, TypeOK, GetStats, Leave, Goto
  <2> QED
    BY <1>2, <2>1, <2>2, AfterFacts
<1>4. /\ SumOf(page[r].ips) <= mem.total /\ SumOf(page[r].uas) <= mem.total
      /\ Len(page[r].ips) <= Cardinality(KeysOf(mem.ips))
      /\ Len(page[r].uas) <= Cardinality(KeysOf(mem.uas))
  BY <1>2, Zenon DEF AddsUp
<1>5. page'[r].total <= mem'.total
  BY <1>1, <1>2
<1> QED
  BY <1>1, <1>3, <1>4, <1>5 DEF AddsUp

LEMMA GetRecentRequestsAddsUp ==
  ASSUME Inv, CountsOK, NEW r \in Readers, AddsUp(r), GetRecentRequests(r) PROVE AddsUp(r)'
<1>1. /\ page'[r].recent = Reversed(mem.recent)
      /\ page'[r].total = page[r].total
      /\ page'[r].uniqueIPs = page[r].uniqueIPs /\ page'[r].uniqueUAs = page[r].uniqueUAs
      /\ page'[r].ips = page[r].ips /\ page'[r].uas = page[r].uas
  BY RecentAnswer
<1>2. rpc[r] = "recent" /\ serves[r] = "ui"
  BY DEF GetRecentRequests, Reading, Inv, LocalOK
<1>3. rpc'[r] = "render"
  <2>1. rpc'[r] = After(r, "recent")
    BY DEF Inv, TypeOK, GetRecentRequests, Leave, Goto
  <2> QED
    BY <1>2, <2>1, AfterFacts
<1>4. /\ SumOf(page[r].ips) <= page[r].total /\ SumOf(page[r].uas) <= page[r].total
      /\ Len(page[r].ips) <= page[r].uniqueIPs /\ Len(page[r].uas) <= page[r].uniqueUAs
      /\ page[r].total <= mem.total
  BY <1>2, Zenon DEF AddsUp
<1>5. Len(page'[r].recent) >=
        Atomic!Least(RecentLimit, Atomic!Least(MaxRecent, page'[r].total))
  <2>1. /\ mem.recent \in Seq(Nat) /\ mem.total \in Nat /\ page[r].total \in Nat
    BY DEF Inv, TypeOK, Statistics, Views
  <2>2. Len(mem.recent) = Atomic!Least(MaxRecent, mem.total)
    BY DEF CountsOK
  <2>3. Len(Reversed(mem.recent)) = Atomic!Least(RecentLimit, Len(mem.recent))
    <3>1. Atomic!Least(RecentLimit, Len(mem.recent)) \in Nat
      BY <2>1, PageAssumption DEF Atomic!Least
    <3> QED
      BY <3>1 DEF Reversed
  <2> QED
    BY <1>1, <1>4, <2>1, <2>2, <2>3, PageAssumption, CapsAssumption DEF Atomic!Least
<1> QED
  BY <1>1, <1>3, <1>4, <1>5 DEF AddsUp

LEMMA NextAddsUp ==
  ASSUME Inv, CountsOK, \A r \in Readers : AddsUp(r), [Next]_vars, NEW x \in Readers
  PROVE  AddsUp(x)'
<1>1. CASE \E h \in Handlers : Write(h)
  <2>1. page'[x] = page[x] /\ rpc'[x] = rpc[x] /\ serves'[x] = serves[x]
    BY <1>1 DEF Write, Arrive, Lock, Record, readVars
  <2> QED
    BY <2>1, StandAddsUp
<1>2. CASE UNCHANGED vars
  <2>1. page'[x] = page[x] /\ rpc'[x] = rpc[x] /\ serves'[x] = serves[x]
    BY <1>2 DEF vars, readVars
  <2> QED
    BY <2>1, StandAddsUp
<1>3. ASSUME NEW r \in Readers, Open(r) \/ RLock(r) \/ Run(r) PROVE AddsUp(x)'
  <2>1. CASE r # x
    BY <1>3, <2>1, OthersStand, StandAddsUp
  <2>2. CASE r = x
    <3>1. CASE RLock(x) \/ Compare(x) \/ NextRow(x)
      <4>1. page'[x] = page[x] /\ rpc'[x] = rpc[x] /\ serves'[x] = serves[x]
        BY <3>1 DEF RLock, Compare, NextRow, readVars
      <4> QED
        BY <4>1, StandAddsUp
    <3>2. CASE Open(x)
      <4>1. rpc'[x] = "charts"
        BY <3>2, OpenCalls
      <4> QED
        BY <4>1 DEF AddsUp
    <3>3. CASE CopyIPs(x) \/ CopyUAs(x) \/ Render(x)
      <4>1. rpc'[x] \in {"sortIPs", "sortUAs", "idle"}
        BY <3>3 DEF Inv, TypeOK, CopyIPs, CopyUAs, Copy, Render, Goto
      <4> QED
        BY <4>1 DEF AddsUp
    <3>4. CASE ReturnCharts(x) \/ GetStats(x) \/ GetRecentRequests(x)
      BY <3>4, ReturnChartsAddsUp, GetStatsAddsUp, GetRecentRequestsAddsUp
    <3> QED
      BY <1>3, <2>2, <3>1, <3>2, <3>3, <3>4 DEF Run
  <2> QED
    BY <2>1, <2>2
<1> QED
  BY <1>1, <1>2, <1>3 DEF Next

-----------------------------------------------------------------------------
(* Deadlock *)

\* A handler or a reader at work waits if its next step needs others to move.
HandlerWaits(h) ==
  \/ hpc[h] = "lock" /\ writer # NoThread
  \/ hpc[h] = "record" /\ \E r \in Readers : holds[r] > 0

ReaderWaits(r) == r \in parked

\* File mode has no gridlock like the database's: as long as anybody is at work,
\* somebody at work waits for nobody, because no call of manager.go takes the
\* read lock again while it holds it.
NoDeadlock ==
  \/ (\A h \in Handlers : hpc[h] = "idle") /\ (\A r \in Readers : rpc[r] = "idle")
  \/ \E h \in Handlers : hpc[h] # "idle" /\ ~HandlerWaits(h)
  \/ \E r \in Readers : rpc[r] # "idle" /\ ~ReaderWaits(r)

LEMMA InitLocks == Init => LocksOK
  BY PageAssumption DEF Init, Mu!Init, LocksOK

LEMMA WriteLocks ==
  ASSUME Inv, LocksOK, NEW h \in Handlers, Write(h) PROVE LocksOK'
<1> USE DEF Inv, TypeOK, LocksOK
<1>1. CASE Arrive(h)
  BY <1>1, PageAssumption DEF Arrive, lockVars, readVars
<1>2. CASE Lock(h)
  BY <1>2, PageAssumption DEF Lock, Mu!Lock, readVars
<1>3. CASE Record(h)
  <2>1. /\ writer = h /\ writer' = NoThread /\ parked' = {} /\ rpc' = rpc
        /\ hpc' = [hpc EXCEPT ![h] = "idle"]
    BY <1>3 DEF Record, Mu!Exclusive, Mu!Unlock, readVars
  <2>2. \A r \in Readers : holds'[r] > 0 => r \in parked
    BY <1>3 DEF Record, Mu!Exclusive, Mu!Unlock
  <2>3. \A x \in Handlers : hpc'[x] # "record"
    BY <2>1
  <2> QED
    BY <2>1, <2>2, <2>3, PageAssumption
<1> QED
  BY <1>1, <1>2, <1>3 DEF Write

\* A call that returns holds no lock and was not parked.
LEMMA LeaveLocks ==
  ASSUME Inv, LocksOK, NEW r \in Readers, NEW step, holds[r] > 0, Leave(r, step),
         UNCHANGED recordVars
  PROVE  LocksOK'
<1>1. /\ holds' = [holds EXCEPT ![r] = 0] /\ writer' = writer /\ parked' = parked
      /\ rpc' = [rpc EXCEPT ![r] = step] /\ hpc' = hpc
  BY DEF Leave, Mu!RUnlockAll, Goto, recordVars
<1> QED
  BY <1>1 DEF Inv, TypeOK, LocksOK

LEMMA ReadLocks ==
  ASSUME Inv, LocksOK, NEW r \in Readers, Open(r) \/ RLock(r) \/ Run(r) PROVE LocksOK'
<1>1. CASE Open(r)
  <2>1. Then["ui"]["idle"] \in Calls /\ Then["data"]["idle"] \in Calls
    BY DEF Then, HandleUI, HandleChartData, Calls
  <2> QED
    BY <1>1, <2>1 DEF Inv, TypeOK, LocksOK, Open, Goto, lockVars, recordVars, Calls
<1>2. CASE RLock(r)
  <2>1. /\ rpc[r] \in Calls /\ holds[r] = 0 /\ r \notin parked
        /\ writer' = writer /\ hpc' = hpc /\ rpc' = rpc
    BY <1>2 DEF RLock, Mu!RLock, Mu!Shared, recordVars, readVars
  <2>2. CASE writer = NoThread
    <3>1. parked' = parked /\ holds' = [holds EXCEPT ![r] = @ + 1]
      BY <1>2, <2>2 DEF RLock, Mu!RLock
    <3> QED
      BY <2>1, <3>1 DEF Inv, TypeOK, LocksOK
  <2>3. CASE writer # NoThread
    <3>1. parked' = parked \cup {r} /\ holds' = holds
      BY <1>2, <2>3 DEF RLock, Mu!RLock
    <3> QED
      BY <2>1, <2>3, <3>1 DEF LocksOK
  <2> QED
    BY <2>2, <2>3
<1>3. CASE CopyIPs(r) \/ CopyUAs(r)
  <2>1. \E step \in {"sortIPs", "sortUAs"} : rpc' = [rpc EXCEPT ![r] = step]
    BY <1>3 DEF CopyIPs, CopyUAs, Copy, Goto
  <2>2. holds[r] > 0 /\ UNCHANGED <<lockVars, hpc>>
    BY <1>3 DEF CopyIPs, CopyUAs, Copy, Reading, Sorted, Sorting, Inv, SortOK, recordVars
  <2> QED
    BY <2>1, <2>2 DEF Inv, TypeOK, LocksOK, lockVars
<1>4. CASE Compare(r) \/ NextRow(r)
  BY <1>4 DEF LocksOK, Compare, NextRow, lockVars, recordVars
<1>5. CASE ReturnCharts(r) \/ GetStats(r) \/ GetRecentRequests(r)
  <2>1. holds[r] > 0
    BY <1>5 DEF ReturnCharts, Sorted, Sorting, GetStats, GetRecentRequests, Reading, Inv,
       SortOK
  <2> QED
    BY <1>5, <2>1, LeaveLocks DEF ReturnCharts, GetStats, GetRecentRequests
<1>6. CASE Render(r)
  BY <1>6 DEF Inv, TypeOK, LocksOK, Render, Goto, lockVars, recordVars, Calls
<1> QED
  BY <1>1, <1>2, <1>3, <1>4, <1>5, <1>6 DEF Run

LEMMA NextLocks == Inv /\ LocksOK /\ [Next]_vars => LocksOK'
<1>1. UNCHANGED vars /\ LocksOK => LocksOK'
  BY DEF vars, lockVars, recordVars, readVars, LocksOK
<1> QED
  BY <1>1, WriteLocks, ReadLocks DEF Next

\* The announced writer waits only for readers that hold the lock, and these
\* are past their RLock.
LEMMA LocksAvoidDeadlock == Inv /\ LocksOK => NoDeadlock
<1> SUFFICES ASSUME Inv, LocksOK PROVE NoDeadlock
  OBVIOUS
<1> USE DEF Inv, TypeOK, LocksOK
<1>1. CASE \E r \in Readers : rpc[r] # "idle" /\ r \notin parked
  BY <1>1 DEF NoDeadlock, ReaderWaits
<1>2. CASE \A r \in Readers : rpc[r] = "idle" \/ r \in parked
  <2>1. ASSUME NEW r \in Readers PROVE holds[r] = 0
    <3>1. ~(holds[r] > 0) /\ holds[r] \in Nat
      BY <1>2 DEF Calls
    <3> QED
      BY <3>1
  <2>2. CASE writer = NoThread
    BY <1>2, <2>1, <2>2 DEF NoDeadlock, HandlerWaits
  <2>3. CASE writer \in Handlers
    <3>1. hpc[writer] = "record"
      BY <2>3
    <3> QED
      BY <2>1, <2>3, <3>1 DEF NoDeadlock, HandlerWaits
  <2> QED
    BY <2>2, <2>3
<1> QED
  BY <1>1, <1>2

-----------------------------------------------------------------------------
(* The theorems *)

\* Every variable keeps its type, and the list of recent requests its limit.
THEOREM TypeCorrect == Spec => []TypeOK
<1>1. Inv => TypeOK
  BY DEF Inv
<1> QED
  BY <1>1, SpecInv, PTL

\* In file mode handlers and readers never wait for each other in a circle
\* (manager.go: RecordRequest and the three reads).
THEOREM NeverDeadlocked == Spec => []NoDeadlock
  BY SpecInv, InitLocks, NextLocks, LocksAvoidDeadlock, PTL DEF Spec

\* "Most recent first" up to concurrency: above each request that a page lists
\* there are fewer older ones than there are handlers.
THEOREM RecentOrderKept == Spec => []RecentNearlyOrdered
<1>1. Init => RecentNearlyOrdered
  <2> SUFFICES ASSUME Init PROVE RecentNearlyOrdered
    OBVIOUS
  <2>1. \A d \in Readers : page[d].recent = <<>>
    BY DEF Init, Atomic!NoView
  <2> QED
    BY <2>1 DEF RecentNearlyOrdered
<1> QED
  BY <1>1, InitOrder, NextOrder, NextShown, SpecInv, PTL DEF Spec

\* A page never shows bars that add up to more than its total, more bars than it
\* has unique keys, or fewer recent requests than its total calls for, although
\* its three calls see three states of the statistics.
THEOREM PagesAddUp == Spec => []PageAddsUp
<1>1. Inv /\ CountsOK /\ AnswersOK /\ PageAddsUp /\ [Next]_vars
        => CountsOK' /\ AnswersOK' /\ PageAddsUp'
  <2> SUFFICES ASSUME Inv, CountsOK, AnswersOK, PageAddsUp, [Next]_vars
               PROVE  CountsOK' /\ AnswersOK' /\ PageAddsUp'
    OBVIOUS
  <2>1. \A r \in Readers : AddsUp(r)
    BY AllAddUp
  <2>2. \A r \in Readers : AddsUp(r)'
    BY <2>1, NextAddsUp
  <2>3. AnswersOK' /\ PageAddsUp'
    BY <2>2, Zenon DEF AnswersOK, PageAddsUp, AddsUp
  <2> QED
    BY <2>3, StatisticsGrow
<1> QED
  BY <1>1, InitAddsUp, SpecInv, PTL DEF Spec

\* The sort and the locking implement the abstract reads: every call answers
\* from one state of the statistics, with the largest counts in order, and
\* nothing else changes what a reader has been answered.
THEOREM ReadsAtomic == Spec => ImplementsReads
<1>1. Init => Atomic!Init
  <2>1. Atomic!Statistics = Statistics
    BY Zenon DEF Atomic!Statistics, Statistics
  <2> QED
    BY <2>1, InitInv DEF Inv, TypeOK, Init, Atomic!Init
<1>2. ASSUME Inv, NEW h \in Handlers, Write(h)
      PROVE  [Atomic!Next]_(Atomic!readVars)
  <2>1. CASE Arrive(h) \/ Lock(h)
    BY <2>1 DEF Arrive, Lock, readVars, Atomic!readVars
  <2>2. CASE Record(h)
    <3>1. hreq[h] \in Requests /\ mem' = Recorded(mem, hreq[h]) /\ page' = page
      BY <1>2, <2>2 DEF Inv, LocalOK, Record, readVars
    <3>2. PICK i \in IPs, u \in UserAgents, ts \in 1 .. MaxRequests :
            hreq[h] = [ip |-> i, ua |-> u, ts |-> ts]
      BY <3>1 DEF Requests
    <3>3. Recorded(mem, hreq[h]) = Atomic!Recorded(mem, hreq[h])
      BY Zenon DEF Recorded, Counted, Appended, KeysOf, Cardinality, Atomic!Recorded,
         Atomic!Counted, Atomic!Appended, Atomic!KeysOf, Atomic!Cardinality
    <3>4. Atomic!Record([ip |-> i, ua |-> u, ts |-> ts])
      BY <3>1, <3>2, <3>3 DEF Atomic!Record
    <3> QED
      BY <3>4 DEF Atomic!Next
  <2> QED
    BY <1>2, <2>1, <2>2 DEF Write
<1>3. ASSUME Inv, NEW r \in Readers, Open(r) \/ RLock(r) \/ Run(r)
      PROVE  [Atomic!Next]_(Atomic!readVars)
  <2>1. CASE Open(r) \/ RLock(r) \/ CopyIPs(r) \/ Compare(r) \/ NextRow(r) \/ CopyUAs(r)
    BY <2>1 DEF Open, RLock, CopyIPs, Compare, NextRow, CopyUAs, Copy, recordVars, readVars,
       Atomic!readVars
  <2>2. CASE ReturnCharts(r)
    <3>1. PICK s \in Atomic!TopLists(mem.ips), u \in Atomic!TopLists(mem.uas) :
            top[r] = Atomic!Bars(mem.ips, s) /\ Cut(list[r]) = Atomic!Bars(mem.uas, u)
      BY <1>3, <2>2, ReturnChartsInv DEF IsTop
    <3>2. page' = [page EXCEPT ![r].ips = Atomic!Bars(mem.ips, s),
                               ![r].uas = Atomic!Bars(mem.uas, u)]
      BY <2>2, <3>1 DEF ReturnCharts
    <3>3. Atomic!ChartData(r)
      BY <2>2, <3>2 DEF ReturnCharts, recordVars, Atomic!ChartData
    <3> QED
      BY <3>3 DEF Atomic!Next
  <2>3. CASE GetStats(r)
    <3>1. Atomic!GetStats(r)
      BY <2>3, AtomicSame DEF GetStats, recordVars, Atomic!GetStats
    <3> QED
      BY <3>1 DEF Atomic!Next
  <2>4. CASE GetRecentRequests(r)
    <3>1. Reversed(mem.recent) = Atomic!Newest(mem.recent)
      BY <1>3, ReversedTyped DEF Inv, TypeOK, Statistics
    <3>2. Atomic!GetRecentRequests(r)
      BY <2>4, <3>1 DEF GetRecentRequests, recordVars, Atomic!GetRecentRequests
    <3> QED
      BY <3>2 DEF Atomic!Next
  <2>5. CASE Render(r)
    <3>1. Atomic!Clear(r)
      BY <2>5 DEF Render, recordVars, Atomic!Clear
    <3> QED
      BY <3>1 DEF Atomic!Next
  <2> QED
    BY <1>3, <2>1, <2>2, <2>3, <2>4, <2>5 DEF Run
<1>4. Inv /\ [Next]_vars => [Atomic!Next]_(Atomic!readVars)
  <2>1. UNCHANGED vars => UNCHANGED Atomic!readVars
    BY DEF vars, recordVars, readVars, Atomic!readVars
  <2> QED
    BY <1>2, <1>3, <2>1 DEF Next
<1> QED
  BY <1>1, <1>4, SpecInv, PTL DEF Spec, ImplementsReads, Atomic!Spec

=============================================================================
