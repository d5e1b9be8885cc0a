-------------------- MODULE SingleProcessRateLimitProofs --------------------
(***************************************************************************)
(* That the promise of a rate-limit backend bounds every window, and that  *)
(* the in-memory backend keeps that promise: for every set of keys, every  *)
(* limit and every window, any number of threads and any prune interval.   *)
(***************************************************************************)
EXTENDS SingleProcessRateLimit, FiniteSetTheorems, WellFoundedInduction, TLAPS

LEMMA KeyBounds ==
    ASSUME NEW k \in Keys
    PROVE  Limit[k] \in Nat \ {0} /\ Window[k] \in Nat \ {0}
  BY SingleProcessAssumption DEF SingleProcessAssumption

LEMMA StampsNat ==
    ASSUME NEW stamps \in Seq(Nat)
    PROVE  \A i \in 1 .. Len(stamps) : stamps[i] \in Nat
  OBVIOUS

-----------------------------------------------------------------------------
(* The promise                                                             *)

SpentOK == spent \in [Keys -> Seq(Int)] /\ Reading \in Nat

\* A spend at an instant the key's budget fits keeps any two spends that are
\* Limit apart a whole window apart: only the new one has to be looked at.
LEMMA SpendKeepsWithinBudget ==
    ASSUME SpentOK, Budget!WithinBudget, NEW key \in Keys, Reading' \in Nat,
           Budget!FitsAt(key, Reading), Budget!Spend(key)
    PROVE  SpentOK' /\ Budget!WithinBudget'
<1>at. PICK at \in Nat : at = Reading
  BY DEF SpentOK
<1>1. at \in Int /\ Limit[key] \in Nat \ {0}
  BY KeyBounds
<1>2. spent' = [spent EXCEPT ![key] = Append(spent[key], at)]
  BY <1>at DEF Budget!Spend
<1>3. SpentOK'
  BY <1>1, <1>2 DEF SpentOK
<1>4. ASSUME NEW k \in Keys, NEW i \in 1 .. Len(spent'[k]) - Limit[k]
      PROVE  spent'[k][i + Limit[k]] - spent'[k][i] >= Window[k]
  <2>0. Limit[k] \in Nat \ {0} /\ Window[k] \in Nat \ {0}
    BY KeyBounds
  <2>1. CASE k # key
    <3>1. spent'[k] = spent[k]
      BY <1>2, <2>1 DEF SpentOK
    <3> QED
      BY <3>1 DEF Budget!WithinBudget
  <2>2. CASE k = key
    <3>list. PICK list \in Seq(Int), limit \in Nat \ {0}, window \in Nat \ {0} :
                list = spent[k] /\ limit = Limit[k] /\ window = Window[k]
      BY <2>0, <2>2 DEF SpentOK
    <3>len. PICK len \in Nat : len = Len(list)
      OBVIOUS
    <3>1. /\ spent'[k] = Append(list, at) /\ Len(spent'[k]) = len + 1 /\ spent'[k][len + 1] = at
          /\ \A n \in 1 .. len : spent'[k][n] = list[n] /\ list[n] \in Int
      <4>1. PICK stamp \in Int : stamp = at
        BY <1>1
      <4>2. /\ Len(Append(list, stamp)) = Len(list) + 1 /\ Append(list, stamp)[Len(list) + 1] = stamp
            /\ \A n \in 1 .. Len(list) : Append(list, stamp)[n] = list[n] /\ list[n] \in Int
        OBVIOUS
      <4>3. spent'[k] = Append(list, at)
        BY <1>2, <2>2, <3>list DEF SpentOK
      <4> QED
        BY <3>len, <4>1, <4>2, <4>3
    <3>2. i \in 1 .. len + 1 - limit
      BY <3>list, <3>1
    <3>3. CASE i + limit <= len
      <4>1. i \in 1 .. len - limit /\ i \in 1 .. len /\ i + limit \in 1 .. len
        BY <3>2, <3>3
      <4>2. list[i + limit] - list[i] >= window
        BY <3>list, <3>len, <4>1 DEF Budget!WithinBudget
      <4> QED
        BY <3>list, <3>1, <4>1, <4>2
    <3>4. CASE i + limit > len
      <4>1. i = len + 1 - limit /\ i + limit = len + 1 /\ len >= limit /\ i \in 1 .. len
        BY <3>2, <3>4
      <4>2. list[i] <= at - window
        BY <1>at, <2>2, <3>list, <3>len, <4>1 DEF Budget!FitsAt
      <4>3. PICK oldest \in Int : oldest = list[i]
        BY <3>1, <4>1
      <4>4. at - oldest >= window
        BY <1>1, <4>2, <4>3
      <4> QED
        BY <3>list, <3>1, <4>1, <4>3, <4>4
    <3> QED
      BY <3>2, <3>3, <3>4
  <2> QED
    BY <2>1, <2>2
<1> QED
  BY <1>3, <1>4 DEF Budget!WithinBudget

\* However calls are allowed, denied, lost or repeated, no window of any key
\* holds more than its limit of spends (RateLimitBackend.is_allowed).
THEOREM SlidingWindow_WithinBudget == Budget!WindowSpec => []Budget!WithinBudget
<1>1. Budget!WindowInit => SpentOK /\ Budget!WithinBudget
  <2> SUFFICES ASSUME Budget!WindowInit PROVE SpentOK /\ Budget!WithinBudget
    OBVIOUS
  <2>1. \A k \in Keys : spent[k] = <<>> /\ Limit[k] \in Nat \ {0}
    BY KeyBounds DEF Budget!WindowInit
  <2>2. ASSUME NEW k \in Keys, NEW i \in 1 .. Len(spent[k]) - Limit[k]
        PROVE  FALSE
    <3>1. Len(spent[k]) = 0
      BY <2>1
    <3> QED
      BY <2>1, <3>1
  <2> QED
    BY <2>2 DEF Budget!WindowInit, SpentOK, Budget!WithinBudget
<1>2. SpentOK /\ Budget!WithinBudget /\ [Budget!WindowNext]_Budget!windowVars
        => SpentOK' /\ Budget!WithinBudget'
  <2> SUFFICES ASSUME SpentOK, Budget!WithinBudget, [Budget!WindowNext]_Budget!windowVars
               PROVE  SpentOK' /\ Budget!WithinBudget'
    OBVIOUS
  <2>0. Reading' \in Nat
    BY DEF SpentOK, Budget!WindowNext, Budget!Onward, Budget!windowVars
  <2>1. ASSUME NEW key \in Keys, Budget!Allow(key) \/ Budget!LoseAnswer(key)
        PROVE  SpentOK' /\ Budget!WithinBudget'
    BY <2>0, <2>1, SpendKeepsWithinBudget DEF Budget!Allow, Budget!LoseAnswer
  <2>2. CASE UNCHANGED spent
    BY <2>0, <2>2 DEF SpentOK, Budget!WithinBudget
  <2> QED
    BY <2>1, <2>2 DEF Budget!WindowNext, Budget!Decide, Budget!Deny, Budget!Unreachable, Budget!windowVars
<1> QED
  BY <1>1, <1>2, PTL DEF Budget!WindowSpec

-----------------------------------------------------------------------------
(* What a check keeps of a list                                            *)

LEMMA LastPlaces ==
    ASSUME NEW n \in Nat, NEW places \in SUBSET (1 .. n),
           \A i \in places, j \in 1 .. n : j >= i => j \in places
    PROVE  \E first \in 1 .. n + 1 : places = first .. n
<1>1. CASE places = {}
  <2>1. n + 1 \in 1 .. n + 1 /\ (n + 1) .. n = {}
    OBVIOUS
  <2> QED
    BY <1>1, <2>1
<1>2. CASE places # {}
  <2>1. PICK first \in places : \A j \in places : <<j, first>> \notin OpToRel(<, Nat)
    <3>1. places \subseteq Nat
      OBVIOUS
    <3> QED
      BY <1>2, <3>1, WFMin, NatLessThanWellFounded
  <2>2. \A j \in places : j >= first
    <3> SUFFICES ASSUME NEW j \in places, j < first
                 PROVE  FALSE
      OBVIOUS
    <3>0. j \in Nat /\ first \in Nat
      OBVIOUS
    <3>1. <<j, first>> \in OpToRel(<, Nat)
      BY ONLY <3>0, j < first DEF OpToRel
    <3> QED
      BY <2>1, <3>1
  <2>3. first \in 1 .. n /\ first \in 1 .. n + 1
    OBVIOUS
  <2>4. places \subseteq first .. n
    BY <2>2, <2>3
  <2>5. first .. n \subseteq places
    BY <2>3
  <2> QED
    BY <2>3, <2>4, <2>5
<1> QED
  BY <1>1, <1>2

\* list is what whole has from the place first on.
EndsFrom(list, whole, first) ==
    /\ Len(list) = Len(whole) + 1 - first
    /\ \A i \in 1 .. Len(list) : list[i] = whole[first + i - 1]

LEMMA AtLastPlaces ==
    ASSUME NEW list \in Seq(Nat), NEW first \in 1 .. Len(list) + 1
    PROVE  /\ AtPlaces(list, first .. Len(list)) \in Seq(Nat)
           /\ EndsFrom(AtPlaces(list, first .. Len(list)), list, first)
<1>n. PICK n \in Nat : n = Len(list)
  OBVIOUS
<1>1. Cardinality(first .. n) = n + 1 - first /\ n + 1 - first \in Nat
  <2>1. first \in Int /\ n \in Int
    BY <1>n
  <2>2. Cardinality(first .. n) = IF first > n THEN 0 ELSE n - first + 1
    BY <2>1, FS_Interval
  <2> QED
    BY <2>2, <1>n
<1>2. ASSUME NEW k \in 1 .. n + 1 - first
      PROVE  (CHOOSE i \in first .. n : Cardinality({j \in first .. n : j <= i}) = k) = first + k - 1
  <2>1. ASSUME NEW i \in first .. n
        PROVE  Cardinality({j \in first .. n : j <= i}) = i + 1 - first
    <3>1. {j \in first .. n : j <= i} = first .. i
      BY <1>n
    <3>2. first \in Int /\ i \in Int /\ i >= first
      BY <1>n
    <3>3. Cardinality(first .. i) = IF first > i THEN 0 ELSE i - first + 1
      BY <3>2, FS_Interval
    <3>4. Cardinality(first .. i) = i + 1 - first
      BY <3>2, <3>3
    <3> QED
      BY <3>1, <3>4
  <2>2. first + k - 1 \in first .. n
    BY <1>n
  <2>3. Cardinality({j \in first .. n : j <= first + k - 1}) = k
    <3>1. PICK i \in first .. n : i = first + k - 1
      BY <2>2
    <3>2. Cardinality({j \in first .. n : j <= i}) = i + 1 - first
      BY <2>1
    <3> QED
      BY <3>1, <3>2, <1>n
  <2>4. ASSUME NEW i \in first .. n, Cardinality({j \in first .. n : j <= i}) = k
        PROVE  i = first + k - 1
    BY <2>1, <2>4, <1>n
  <2> QED
    BY <2>2, <2>3, <2>4
<1>len. PICK len \in Nat : len = n + 1 - first
  BY <1>1
<1>all. PICK kept : kept = AtPlaces(list, first .. n)
  OBVIOUS
<1>3. DOMAIN kept = 1 .. len
  BY <1>1, <1>len, <1>all DEF AtPlaces
<1>4. ASSUME NEW k \in 1 .. len
      PROVE  kept[k] = list[first + k - 1] /\ kept[k] \in Nat
  <2>1. kept[k] = list[CHOOSE i \in first .. n : Cardinality({j \in first .. n : j <= i}) = k]
    BY <1>1, <1>len, <1>all DEF AtPlaces
  <2>2. first + k - 1 \in 1 .. n
    BY <1>n, <1>len
  <2>3. k \in 1 .. n + 1 - first
    BY <1>len
  <2>4. (CHOOSE i \in first .. n : Cardinality({j \in first .. n : j <= i}) = k) = first + k - 1
    BY <1>2, <2>3
  <2>5. kept[k] = list[first + k - 1]
    BY ONLY <2>1, <2>4
  <2> QED
    BY <1>n, <2>2, <2>5
<1>5. kept \in Seq(Nat) /\ Len(kept) = len
  <2>1. kept = [k \in 1 .. len |-> kept[k]]
    BY <1>1, <1>3, <1>len, <1>all DEF AtPlaces
  <2>2. kept \in [1 .. len -> Nat]
    BY <1>4, <2>1
  <2>3. kept \in Seq(Nat)
    BY <2>2
  <2> QED
    BY <1>3, <2>3
<1> QED
  BY <1>4, <1>5, <1>n, <1>len, <1>all DEF EndsFrom

-----------------------------------------------------------------------------
(* The in-memory backend                                                   *)

BackendTypeOK ==
    /\ clock \in 0 .. MaxClock
    /\ events \in [Keys -> Seq(Nat) \cup {NoEntry}]
    /\ nextPruneAt \in Nat
    /\ lock \in Threads \cup {NoThread}
    /\ asked \in [Threads -> Keys \cup {NoKey}]
    /\ now \in [Threads -> Nat]
    /\ spent \in [Keys -> Seq(Nat)]
    /\ lock # NoThread => asked[lock] \in Keys /\ now[lock] <= clock

SpentInOrder ==
    \A k \in Keys : \A i \in 1 .. Len(spent[k]) :
        /\ spent[k][i] <= Reading
        /\ \A j \in i .. Len(spent[k]) : spent[k][i] <= spent[k][j]

\* Every spend before the place first has left the key's window.
LeftBefore(k, first) == \A i \in 1 .. first - 1 : spent[k][i] <= Reading - Window[k]

Recorded(k) == IF events[k] = NoEntry THEN <<>> ELSE events[k]

\* What was forgotten of a key no longer counts, and what is held of it is the rest.
RecordOf(k) ==
    \E first \in 1 .. Len(spent[k]) + 1 :
        EndsFrom(Recorded(k), spent[k], first) /\ LeftBefore(k, first)

BackendInv == BackendTypeOK /\ SpentInOrder /\ \A k \in Keys : RecordOf(k)

\* A sweep takes a key only when nothing it spent counts any more.
LEMMA SweptIsOver ==
    ASSUME BackendInv, lock # NoThread, NEW k \in Swept(Reading)
    PROVE  k \in Keys /\ LeftBefore(k, Len(spent[k]) + 1)
<1>1. /\ k \in Keys /\ events[k] # NoEntry
      /\ events[k] = <<>> \/ Newest(k) + Window[k] <= Reading
  BY DEF Swept
<1>2. events[k] \in Seq(Nat) /\ spent[k] \in Seq(Nat) /\ Recorded(k) = events[k] /\ Reading \in Nat
  BY <1>1 DEF BackendInv, BackendTypeOK, Recorded, Reading
<1>3. PICK first \in 1 .. Len(spent[k]) + 1 :
         EndsFrom(events[k], spent[k], first) /\ LeftBefore(k, first)
  BY <1>1, <1>2 DEF BackendInv, RecordOf
<1>4. Window[k] \in Nat
  BY <1>1, KeyBounds
<1>5. CASE events[k] = <<>>
  <2>1. first = Len(spent[k]) + 1
    BY <1>2, <1>3, <1>5 DEF EndsFrom
  <2> QED
    BY <1>1, <1>3, <2>1
<1>6. CASE events[k] # <<>>
  <2>1. Len(events[k]) \in Nat \ {0} /\ Len(spent[k]) \in Nat \ {0}
        /\ first + Len(events[k]) - 1 = Len(spent[k])
    BY <1>2, <1>3, <1>6 DEF EndsFrom
  <2>2. Newest(k) = spent[k][Len(spent[k])]
    <3>1. Len(events[k]) \in 1 .. Len(events[k])
      BY <2>1
    <3>2. events[k][Len(events[k])] = spent[k][first + Len(events[k]) - 1]
      BY <1>3, <3>1 DEF EndsFrom
    <3> QED
      BY <2>1, <3>2 DEF Newest
  <2>3. spent[k][Len(spent[k])] <= Reading - Window[k]
    <3>1. PICK stamp \in Nat, window \in Nat : stamp = Newest(k) /\ window = Window[k]
      <4>1. \A n \in 1 .. Len(events[k]) : events[k][n] \in Nat
        BY <1>2, StampsNat
      <4>2. Len(events[k]) \in 1 .. Len(events[k])
        BY <2>1
      <4> QED
        BY <1>4, <4>1, <4>2 DEF Newest
    <3>2. stamp + window <= Reading
      BY <1>1, <1>6, <3>1
    <3>3. stamp <= Reading - window
      BY <1>2, <3>2
    <3> QED
      BY <2>2, <3>1, <3>3
  <2>4. ASSUME NEW i \in 1 .. Len(spent[k])
        PROVE  spent[k][i] <= Reading - Window[k]
    <3>1. spent[k][i] <= spent[k][Len(spent[k])]
      BY <1>1, <2>1 DEF BackendInv, SpentInOrder
    <3>2. \A j \in 1 .. Len(spent[k]) : spent[k][j] \in Nat
      BY <1>2, StampsNat
    <3> DEFINE last == Len(spent[k])
    <3>last. last \in 1 .. Len(spent[k])
      BY <2>1
    <3>nat. spent[k][i] \in Nat /\ spent[k][last] \in Nat /\ Reading \in Nat /\ Window[k] \in Nat
      BY <1>2, <1>4, <3>2, <3>last
    <3>3. PICK stamp \in Nat, newest \in Nat, before \in Nat, window \in Nat :
              /\ stamp = spent[k][i] /\ newest = spent[k][last]
              /\ before = Reading /\ window = Window[k]
      BY <3>nat, Zenon
    <3>4. stamp <= newest /\ newest <= before - window
      BY <2>3, <3>1, <3>3
    <3>5. stamp <= before - window
      BY <3>4
    <3> QED
      BY <3>3, <3>5
  <2> QED
    BY <1>1, <2>1, <2>4 DEF LeftBefore
<1> QED
  BY <1>5, <1>6

\* A check keeps of its key just the spends that count.
LEMMA TrimmedIsWindow ==
    ASSUME BackendInv, lock # NoThread, NEW key \in Keys
    PROVE  /\ Trimmed(key, Reading) \in Seq(Nat)
           /\ \E first \in 1 .. Len(spent[key]) + 1 :
                 /\ EndsFrom(Trimmed(key, Reading), spent[key], first) /\ LeftBefore(key, first)
                 /\ \A i \in first .. Len(spent[key]) : spent[key][i] > Reading - Window[key]
<1>1. Reading \in Nat /\ Window[key] \in Nat /\ spent[key] \in Seq(Nat)
  BY KeyBounds DEF BackendInv, BackendTypeOK, Reading
<1>kept. PICK kept : kept = Trimmed(key, Reading)
  OBVIOUS
<1>2. CASE events[key] = NoEntry \/ key \in Swept(Reading)
  <2>1. kept = <<>>
    BY <1>2, <1>kept DEF Trimmed
  <2>2. LeftBefore(key, Len(spent[key]) + 1)
    <3>1. CASE events[key] = NoEntry
      <4>1. PICK first \in 1 .. Len(spent[key]) + 1 :
               EndsFrom(<<>>, spent[key], first) /\ LeftBefore(key, first)
        BY <3>1 DEF BackendInv, RecordOf, Recorded
      <4>2. first = Len(spent[key]) + 1
        BY <1>1, <4>1 DEF EndsFrom
      <4> QED
        BY <4>1, <4>2
    <3>2. CASE key \in Swept(Reading)
      BY <3>2, SweptIsOver
    <3> QED
      BY <1>2, <3>1, <3>2
  <2>3. Len(spent[key]) + 1 \in 1 .. Len(spent[key]) + 1
    BY <1>1
  <2>4. EndsFrom(kept, spent[key], Len(spent[key]) + 1)
    BY <1>1, <2>1 DEF EndsFrom
  <2>5. \A i \in Len(spent[key]) + 1 .. Len(spent[key]) : FALSE
    BY <1>1
  <2> QED
    BY <1>kept, <2>1, <2>2, <2>3, <2>4, <2>5
<1>3. CASE events[key] # NoEntry /\ key \notin Swept(Reading)
  <2>list. PICK list \in Seq(Nat) : list = events[key]
    BY <1>3 DEF BackendInv, BackendTypeOK
  <2>places. PICK places \in SUBSET (1 .. Len(list)) :
                places = {i \in DOMAIN list : list[i] > Reading - Window[key]}
    <3>1. DOMAIN list = 1 .. Len(list)
      OBVIOUS
    <3> QED
      BY <3>1
  <2>1. kept = AtPlaces(list, places)
    BY <1>3, <1>kept, <2>list, <2>places DEF Trimmed
  <2>2. PICK before \in 1 .. Len(spent[key]) + 1 :
           EndsFrom(list, spent[key], before) /\ LeftBefore(key, before)
    BY <1>3, <2>list DEF BackendInv, RecordOf, Recorded
  <2>3. ASSUME NEW i \in places, NEW j \in 1 .. Len(list), j >= i
        PROVE  j \in places
    <3>1. /\ list[i] = spent[key][before + i - 1] /\ list[j] = spent[key][before + j - 1]
          /\ i \in 1 .. Len(list) /\ Len(list) = Len(spent[key]) + 1 - before
      BY <2>2, <2>3 DEF EndsFrom
    <3>2. /\ before + i - 1 \in 1 .. Len(spent[key])
          /\ before + j - 1 \in before + i - 1 .. Len(spent[key])
      BY <1>1, <2>3, <3>1
    <3>3. list[i] <= list[j]
      BY <3>1, <3>2 DEF BackendInv, SpentInOrder
    <3>4. \A n \in 1 .. Len(list) : list[n] \in Nat /\ n \in DOMAIN list
      OBVIOUS
    <3>5. list[i] > Reading - Window[key] /\ list[i] \in Nat /\ list[j] \in Nat
      BY <2>places, <3>1, <3>4
    <3>6. list[j] > Reading - Window[key]
      BY <1>1, <3>3, <3>5, SMTT(20)
    <3> QED
      BY <2>places, <3>4, <3>6
  <2>4. PICK first \in 1 .. Len(list) + 1 : places = first .. Len(list)
    <3>1. Len(list) \in Nat
      OBVIOUS
    <3> QED
      BY <2>3, <3>1, LastPlaces
  <2>5. kept \in Seq(Nat) /\ EndsFrom(kept, list, first)
    BY <2>1, <2>4, AtLastPlaces
  <2>6. Len(list) = Len(spent[key]) + 1 - before /\ Len(list) \in Nat /\ Len(spent[key]) \in Nat
    BY <1>1, <2>2 DEF EndsFrom
  <2>all. PICK all \in 1 .. Len(spent[key]) + 1 : all = before + first - 1
    BY <2>6
  <2>7. EndsFrom(kept, spent[key], all)
    <3>1. Len(kept) = Len(spent[key]) + 1 - all
      BY <2>5, <2>6, <2>all DEF EndsFrom
    <3>2. ASSUME NEW i \in 1 .. Len(kept)
          PROVE  kept[i] = spent[key][all + i - 1]
      <4>1. kept[i] = list[first + i - 1]
        BY <2>5 DEF EndsFrom
      <4>2. first + i - 1 \in 1 .. Len(list)
        BY <2>6, <2>all, <3>1
      <4>3. list[first + i - 1] = spent[key][before + (first + i - 1) - 1]
        BY <2>2, <4>2 DEF EndsFrom
      <4>4. before + (first + i - 1) - 1 = all + i - 1
        BY <2>all
      <4> QED
        BY <4>1, <4>3, <4>4
    <3> QED
      BY <3>1, <3>2 DEF EndsFrom
  <2>8. ASSUME NEW i \in before .. Len(spent[key])
        PROVE  /\ spent[key][i] = list[i - before + 1] /\ i - before + 1 \in 1 .. Len(list)
               /\ spent[key][i] > Reading - Window[key] <=> i >= all
    <3>1. i - before + 1 \in 1 .. Len(list) /\ before + (i - before + 1) - 1 = i
      BY <2>6
    <3>2. spent[key][i] = list[i - before + 1]
      BY <2>2, <3>1 DEF EndsFrom
    <3>3. i - before + 1 \in places <=> i >= all
      BY <2>4, <2>6, <2>all, <3>1
    <3>4. i - before + 1 \in places <=> list[i - before + 1] > Reading - Window[key]
      BY <2>places, <3>1
    <3> QED
      BY <3>1, <3>2, <3>3, <3>4
  <2>9. LeftBefore(key, all)
    <3> SUFFICES ASSUME NEW i \in 1 .. all - 1
                 PROVE  spent[key][i] <= Reading - Window[key]
      BY DEF LeftBefore
    <3>1. CASE i < before
      BY <2>2, <3>1 DEF LeftBefore
    <3>2. CASE i >= before
      <4>1. i \in before .. Len(spent[key]) /\ ~(i >= all) /\ i \in 1 .. Len(spent[key])
        BY <2>6, <2>all, <3>2
      <4>2. spent[key][i] \in Nat
        <5>1. \A n \in 1 .. Len(spent[key]) : spent[key][n] \in Nat
          BY <1>1, StampsNat
        <5> QED
          BY <4>1, <5>1
      <4>3. ~(spent[key][i] > Reading - Window[key])
        BY <2>8, <4>1
      <4>4. PICK stamp \in Nat, reading \in Nat, window \in Nat :
               stamp = spent[key][i] /\ reading = Reading /\ window = Window[key]
        BY <1>1, <4>2
      <4>5. ~(stamp > reading - window)
        BY <4>3, <4>4
      <4>6. stamp <= reading - window
        BY <4>5
      <4> QED
        BY <4>4, <4>6
    <3> QED
      BY <3>1, <3>2
  <2>10. \A i \in all .. Len(spent[key]) : spent[key][i] > Reading - Window[key]
    BY <2>6, <2>8, <2>all
  <2> QED
    BY <1>kept, <2>5, <2>7, <2>9, <2>10
<1> QED
  BY <1>2, <1>3

\* The step that answers: one check of the promise, with the instant its thread read.
LEMMA AnswerKeeps ==
    ASSUME BackendInv, NEW t \in Threads, Answer(t)
    PROVE  BackendInv' /\ [Budget!WindowNext]_Budget!windowVars
<1>key. PICK key : key = asked[t]
  OBVIOUS
<1>at. PICK at : at = now[t]
  OBVIOUS
<1>1. /\ lock = t /\ lock # NoThread /\ key \in Keys /\ at \in Nat /\ at <= clock /\ Reading = at
      /\ clock \in 0 .. MaxClock /\ MaxClock \in Nat
  BY <1>key, <1>at, SingleProcessAssumption
     DEF Answer, BackendInv, BackendTypeOK, Reading, SingleProcessAssumption
<1>2. Limit[key] \in Nat \ {0} /\ Window[key] \in Nat /\ spent[key] \in Seq(Nat)
  BY <1>1, KeyBounds DEF BackendInv, BackendTypeOK
<1>kept. PICK kept \in Seq(Nat) : kept = Trimmed(key, at)
  BY <1>1, TrimmedIsWindow
<1>3. PICK first \in 1 .. Len(spent[key]) + 1 :
         /\ EndsFrom(kept, spent[key], first) /\ LeftBefore(key, first)
         /\ \A i \in first .. Len(spent[key]) : spent[key][i] > at - Window[key]
  BY <1>1, <1>kept, TrimmedIsWindow
<1>4. PICK allowed \in BOOLEAN : allowed <=> Len(kept) < Limit[key]
  OBVIOUS
<1>5. /\ events' = [k \in Keys |->
             CASE k = key -> IF allowed THEN Append(kept, at) ELSE kept
               [] k # key /\ k \in Swept(at) -> NoEntry
               [] OTHER -> events[k]]
      /\ spent' = IF allowed THEN [spent EXCEPT ![key] = Append(spent[key], at)] ELSE spent
      /\ verdict' = [key |-> key, answer |-> IF allowed THEN "allowed" ELSE "denied"]
      /\ lock' = NoThread /\ asked' = [asked EXCEPT ![t] = NoKey] /\ now' = [now EXCEPT ![t] = 0]
      /\ UNCHANGED clock
  BY <1>key, <1>at, <1>kept, <1>4 DEF Answer
<1>len. PICK len \in Nat, rest \in Nat : len = Len(spent[key]) /\ rest = Len(kept) /\ rest = len + 1 - first
  BY <1>2, <1>3 DEF EndsFrom
<1>6. Reading' = clock /\ at <= clock
  BY <1>1, <1>5 DEF Reading
<1>most. PICK most \in Nat \ {0} : most = Limit[key]
  BY <1>2
<1>7. allowed <=> Budget!FitsAt(key, at)
  <2>1. CASE allowed
    <3>1. len >= most => len + 1 - most \in 1 .. first - 1
      <4>1. rest < most
        BY <1>4, <1>len, <1>most, <2>1
      <4> QED
        BY <1>len, <4>1
    <3> QED
      BY <1>1, <1>3, <1>len, <1>most, <2>1, <3>1 DEF Budget!FitsAt, LeftBefore
  <2>2. CASE ~allowed
    <3>1. rest >= most
      BY <1>4, <1>len, <1>most, <2>2
    <3>2. len >= most /\ len + 1 - most \in first .. len /\ len + 1 - most \in 1 .. len
      <4>1. len + 1 - first >= most /\ first \in Nat /\ first >= 1
        BY <1>len, <3>1
      <4> QED
        BY <4>1
    <3>3. PICK stamp \in Nat, window \in Nat : stamp = spent[key][len + 1 - most] /\ window = Window[key]
      <4>1. \A i \in 1 .. len : spent[key][i] \in Nat
        BY <1>2, <1>len, StampsNat
      <4> QED
        BY <1>2, <3>2, <4>1
    <3>4. stamp > at - window
      BY <1>3, <1>len, <3>2, <3>3
    <3>5. ~(stamp <= at - window)
      BY <1>1, <3>4
    <3> QED
      BY <1>len, <1>most, <2>2, <3>2, <3>3, <3>5 DEF Budget!FitsAt
  <2> QED
    BY <2>1, <2>2
<1>8. Budget!Onward
  <2>1. Reading \in Nat /\ Reading' \in Nat /\ Reading' >= Reading
    BY <1>1, <1>6
  <2> QED
    BY <2>1 DEF Budget!Onward
<1>9. [Budget!WindowNext]_Budget!windowVars
  <2>1. CASE allowed
    <3>1. Budget!Allow(key)
      BY <1>1, <1>5, <1>7, <2>1 DEF Budget!Allow, Budget!Spend, Budget!Told
    <3> QED
      BY <1>1, <1>8, <3>1 DEF Budget!WindowNext, Budget!Decide
  <2>2. CASE ~allowed
    <3>1. ~Budget!FitsAt(key, Reading - 0)
      BY <1>1, <1>7, <2>2
    <3>2. Budget!Deny(key)
      BY <1>5, <2>2, <3>1 DEF Budget!Deny, Budget!Told
    <3> QED
      BY <1>1, <1>8, <3>2 DEF Budget!WindowNext, Budget!Decide
  <2> QED
    BY <2>1, <2>2
<1>10. BackendTypeOK'
  <2>1. events' \in [Keys -> Seq(Nat) \cup {NoEntry}]
    BY <1>1, <1>5 DEF BackendInv, BackendTypeOK
  <2>2. spent' \in [Keys -> Seq(Nat)]
    BY <1>1, <1>2, <1>5 DEF BackendInv, BackendTypeOK
  <2>3. nextPruneAt' \in Nat
    <3>1. nextPruneAt' = NextPrune(at) /\ nextPruneAt \in Nat /\ PruneInterval \in Nat
      BY <1>at, SingleProcessAssumption
         DEF Answer, BackendInv, BackendTypeOK, SingleProcessAssumption
    <3> QED
      BY <1>1, <3>1 DEF NextPrune
  <2> QED
    BY <1>1, <1>5, <2>1, <2>2, <2>3 DEF BackendInv, BackendTypeOK
<1>11. ASSUME NEW k \in Keys \ {key}
       PROVE  spent'[k] = spent[k]
  BY <1>5 DEF BackendInv, BackendTypeOK
<1>12. spent'[key] = IF allowed THEN Append(spent[key], at) ELSE spent[key]
  BY <1>1, <1>5 DEF BackendInv, BackendTypeOK
<1>13. SpentInOrder'
  <2> SUFFICES ASSUME NEW k \in Keys, NEW i \in 1 .. Len(spent'[k])
               PROVE  /\ spent'[k][i] <= clock
                      /\ \A j \in i .. Len(spent'[k]) : spent'[k][i] <= spent'[k][j]
    BY <1>6 DEF SpentInOrder
  <2>1. ASSUME NEW m \in 1 .. Len(spent[k])
        PROVE  /\ spent[k][m] \in Nat /\ spent[k][m] <= at /\ spent[k][m] <= clock
               /\ \A j \in m .. Len(spent[k]) : spent[k][m] <= spent[k][j]
    <3>1. spent[k] \in Seq(Nat)
      BY DEF BackendInv, BackendTypeOK
    <3>2. spent[k][m] \in Nat
      BY <3>1
    <3>3. /\ spent[k][m] <= at
          /\ \A j \in m .. Len(spent[k]) : spent[k][m] <= spent[k][j]
      BY <1>1 DEF BackendInv, SpentInOrder
    <3> QED
      BY <1>1, <3>2, <3>3
  <2>2. CASE spent'[k] = spent[k]
    BY <2>1, <2>2
  <2>3. CASE k = key /\ allowed
    <3>1. /\ spent'[k] = Append(spent[k], at) /\ Len(spent'[k]) = len + 1
          /\ \A m \in 1 .. len : spent'[k][m] = spent[k][m]
          /\ spent'[k][len + 1] = at
      <4>1. PICK list \in Seq(Nat), stamp \in Nat : list = spent[key] /\ stamp = at
        BY <1>1, <1>2
      <4>2. /\ Len(Append(list, stamp)) = Len(list) + 1 /\ Append(list, stamp)[Len(list) + 1] = stamp
            /\ \A m \in 1 .. Len(list) : Append(list, stamp)[m] = list[m]
        OBVIOUS
      <4>3. spent'[k] = Append(list, stamp)
        BY <1>12, <2>3, <4>1
      <4> QED
        BY <1>len, <2>3, <4>1, <4>2, <4>3
    <3>2. \A m \in 1 .. len + 1 : spent'[k][m] <= at /\ at \in Nat
      BY <1>1, <1>len, <2>1, <2>3, <3>1
    <3>3. CASE i \in 1 .. len
      <4>1. ASSUME NEW j \in i .. len + 1
            PROVE  spent'[k][i] <= spent'[k][j]
        <5>1. CASE j = len + 1
          BY <3>1, <3>2, <3>3, <5>1
        <5>2. CASE j # len + 1
          <6>1. j \in i .. len /\ j \in 1 .. len
            BY <3>3, <5>2
          <6> QED
            BY <1>len, <2>1, <2>3, <3>1, <3>3, <6>1
        <5> QED
          BY <5>1, <5>2
      <4> QED
        BY <1>len, <2>1, <2>3, <3>1, <3>3, <4>1
    <3>4. CASE i = len + 1
      BY <1>1, <3>1, <3>4
    <3> QED
      BY <3>1, <3>3, <3>4
  <2> QED
    BY <1>11, <1>12, <2>2, <2>3
<1>14. ASSUME NEW k \in Keys, NEW m \in 1 .. Len(spent[k]) + 1, LeftBefore(k, m)
       PROVE  \A i \in 1 .. m - 1 : spent[k][i] <= clock - Window[k]
  <2> SUFFICES ASSUME NEW i \in 1 .. m - 1
               PROVE  spent[k][i] <= clock - Window[k]
    OBVIOUS
  <2>1. spent[k] \in Seq(Nat) /\ i \in 1 .. Len(spent[k]) /\ Window[k] \in Nat
    BY KeyBounds DEF BackendInv, BackendTypeOK
  <2>2. PICK stamp \in Nat, window \in Nat : stamp = spent[k][i] /\ window = Window[k]
    <3>1. \A n \in 1 .. Len(spent[k]) : spent[k][n] \in Nat
      BY <2>1, StampsNat
    <3>2. spent[k][i] \in Nat
      BY <2>1, <3>1
    <3> QED
      BY <2>1, <3>2
  <2>3. stamp <= at - window
    BY <1>1, <1>14, <2>2 DEF LeftBefore
  <2>4. stamp <= clock - window
    BY <1>1, <2>3
  <2> QED
    BY <2>2, <2>4
<1>15. ASSUME NEW k \in Keys
       PROVE  RecordOf(k)'
  <2>1. CASE k = key
    <3>grown. PICK grown \in Seq(Nat), longer \in Seq(Nat) :
                 grown = Append(kept, at) /\ longer = Append(spent[key], at)
      <4>1. PICK list \in Seq(Nat), stamp \in Nat : list = spent[key] /\ stamp = at
        BY <1>1, <1>2
      <4>2. Append(kept, stamp) \in Seq(Nat) /\ Append(list, stamp) \in Seq(Nat)
        OBVIOUS
      <4> QED
        BY <4>1, <4>2
    <3>1. Recorded(k)' = IF allowed THEN grown ELSE kept
      <4>1. events'[k] = IF allowed THEN grown ELSE kept
        BY <1>1, <1>5, <2>1, <3>grown
      <4>2. events'[k] \in Seq(Nat)
        BY <4>1
      <4>3. events'[k] # NoEntry
        BY <4>2, SingleProcessAssumption DEF SingleProcessAssumption
      <4> QED
        BY <4>1, <4>3 DEF Recorded
    <3>2. spent'[k] = IF allowed THEN longer ELSE spent[key]
      BY <1>12, <2>1, <3>grown
    <3>3. /\ Len(longer) = len + 1 /\ longer[len + 1] = at
          /\ \A i \in 1 .. len : longer[i] = spent[key][i]
      BY <1>1, <1>2, <1>len, <3>grown
    <3>4. /\ Len(grown) = rest + 1 /\ grown[rest + 1] = at
          /\ \A i \in 1 .. rest : grown[i] = kept[i]
      <4>1. PICK stamp \in Nat : stamp = at
        BY <1>1
      <4>2. /\ Len(Append(kept, stamp)) = Len(kept) + 1 /\ Append(kept, stamp)[Len(kept) + 1] = stamp
            /\ \A i \in 1 .. Len(kept) : Append(kept, stamp)[i] = kept[i]
        OBVIOUS
      <4> QED
        BY <1>len, <3>grown, <4>1, <4>2
    <3>5. first \in 1 .. len + 1 /\ first + (rest + 1) - 1 = len + 1
      BY <1>len
    <3>6. EndsFrom(Recorded(k)', spent'[k], first)
      <4>1. CASE ~allowed
        BY <1>3, <2>1, <3>1, <3>2, <4>1
      <4>2. CASE allowed
        <5>1. ASSUME NEW i \in 1 .. rest
              PROVE  grown[i] = longer[first + i - 1]
          <6>1. kept[i] = spent[key][first + i - 1] /\ first + i - 1 \in 1 .. len
            BY <1>3, <1>len DEF EndsFrom
          <6> QED
            BY <3>3, <3>4, <6>1
        <5>2. \A i \in 1 .. rest + 1 : i \in 1 .. rest \/ i = rest + 1
          OBVIOUS
        <5>3. grown[rest + 1] = longer[first + (rest + 1) - 1]
          BY <3>3, <3>4, <3>5
        <5>4. Len(grown) = Len(longer) + 1 - first
          BY <1>len, <3>3, <3>4
        <5>5. \A i \in 1 .. Len(grown) : grown[i] = longer[first + i - 1]
          BY ONLY <5>1, <5>2, <5>3, <3>4
        <5> QED
          BY <3>1, <3>2, <4>2, <5>4, <5>5 DEF EndsFrom
      <4> QED
        BY <4>1, <4>2
    <3>7. first \in 1 .. Len(spent'[k]) + 1
      <4>1. Len(spent'[k]) = len \/ Len(spent'[k]) = len + 1
        BY <1>len, <3>2, <3>3
      <4> QED
        BY <3>5, <4>1
    <3>8. LeftBefore(k, first)'
      <4>1. ASSUME NEW i \in 1 .. first - 1
            PROVE  spent'[k][i] = spent[k][i]
        <5>1. i \in 1 .. len
          BY <3>5
        <5> QED
          BY <2>1, <3>2, <3>3, <5>1
      <4> QED
        BY <1>3, <1>6, <1>14, <2>1, <4>1 DEF LeftBefore
    <3> QED
      BY <3>6, <3>7, <3>8 DEF RecordOf
  <2>2. CASE k # key /\ k \in Swept(at)
    <3>1. Recorded(k)' = <<>> /\ spent'[k] = spent[k] /\ spent[k] \in Seq(Nat)
      BY <1>5, <1>11, <2>2 DEF Recorded, BackendInv, BackendTypeOK
    <3>2. LeftBefore(k, Len(spent[k]) + 1)
      BY <1>1, <2>2, SweptIsOver
    <3>3. Len(spent[k]) + 1 \in 1 .. Len(spent[k]) + 1
      BY <3>1
    <3>4. EndsFrom(<<>>, spent[k], Len(spent[k]) + 1)
      BY <3>1 DEF EndsFrom
    <3>5. LeftBefore(k, Len(spent[k]) + 1)'
      BY <1>6, <1>14, <3>1, <3>2, <3>3 DEF LeftBefore
    <3> QED
      BY <3>1, <3>3, <3>4, <3>5 DEF RecordOf
  <2>3. CASE k # key /\ k \notin Swept(at)
    <3>1. Recorded(k)' = Recorded(k) /\ spent'[k] = spent[k]
      BY <1>5, <1>11, <2>3 DEF Recorded
    <3>2. PICK m \in 1 .. Len(spent[k]) + 1 : EndsFrom(Recorded(k), spent[k], m) /\ LeftBefore(k, m)
      BY DEF BackendInv, RecordOf
    <3>3. LeftBefore(k, m)'
      BY <1>6, <1>14, <3>1, <3>2 DEF LeftBefore
    <3> QED
      BY <3>1, <3>2, <3>3 DEF RecordOf
  <2> QED
    BY <2>1, <2>2, <2>3
<1> QED
  BY <1>9, <1>10, <1>13, <1>15 DEF BackendInv

LEMMA LeftStaysLeft ==
    ASSUME NEW stamp \in Nat, NEW window \in Nat, NEW before \in Nat, NEW after \in Nat,
           before <= after, stamp <= before - window
    PROVE  stamp <= after - window
  OBVIOUS

\* A step that answers nothing spends nothing and holds what was held; the
\* instant of decision does not go back.
LEMMA WaitingKeeps ==
    ASSUME BackendInv, BackendTypeOK', Reading <= Reading', UNCHANGED <<events, spent, verdict>>
    PROVE  BackendInv' /\ Budget!WindowNext
<1>1. Reading \in Nat /\ Reading' \in Nat
  BY DEF BackendInv, BackendTypeOK, Reading
<1>2. ASSUME NEW k \in Keys, NEW i \in 1 .. Len(spent[k])
      PROVE  spent[k][i] \in Nat
  <2>1. spent[k] \in Seq(Nat)
    BY DEF BackendInv, BackendTypeOK
  <2> QED
    BY <2>1, StampsNat
<1>3. PICK before \in Nat, after \in Nat : before = Reading /\ after = Reading' /\ before <= after
  BY <1>1
<1>4. SpentInOrder'
  <2>1. ASSUME NEW k \in Keys, NEW i \in 1 .. Len(spent[k])
        PROVE  spent[k][i] <= after
    <3>1. PICK stamp \in Nat : stamp = spent[k][i]
      BY <1>2
    <3>2. stamp <= before
      BY <1>3, <3>1 DEF BackendInv, SpentInOrder
    <3> QED
      BY <1>3, <3>1, <3>2
  <2> QED
    BY <1>3, <2>1 DEF BackendInv, SpentInOrder
<1>5. ASSUME NEW k \in Keys
      PROVE  RecordOf(k)'
  <2>1. PICK first \in 1 .. Len(spent[k]) + 1 :
           EndsFrom(Recorded(k), spent[k], first) /\ LeftBefore(k, first)
    BY DEF BackendInv, RecordOf
  <2>2. ASSUME NEW i \in 1 .. first - 1
        PROVE  spent[k][i] <= after - Window[k]
    <3>0. spent[k] \in Seq(Nat) /\ Window[k] \in Nat
      BY KeyBounds DEF BackendInv, BackendTypeOK
    <3>1. i \in 1 .. Len(spent[k])
      BY <3>0
    <3>2. PICK stamp \in Nat, window \in Nat : stamp = spent[k][i] /\ window = Window[k]
      BY <1>2, <3>0, <3>1
    <3>3. stamp <= before - window
      BY <1>3, <2>1, <3>2 DEF LeftBefore
    <3>4. stamp <= after - window
      BY <1>3, <3>2, <3>3, LeftStaysLeft, Zenon
    <3> QED
      BY <3>2, <3>4
  <2>3. LeftBefore(k, first)'
    BY <1>3, <2>2 DEF LeftBefore
  <2> QED
    BY <2>1, <2>3 DEF RecordOf, Recorded
<1>6. Budget!WindowNext
  BY <1>1 DEF Budget!WindowNext, Budget!Onward
<1> QED
  BY <1>4, <1>5, <1>6 DEF BackendInv

LEMMA BackendInitInv ==
    ASSUME Init
    PROVE  BackendInv /\ Budget!WindowInit
<1>0. MaxClock \in Nat /\ NoThread \notin Threads
  BY SingleProcessAssumption DEF SingleProcessAssumption
<1>1. BackendTypeOK
  BY <1>0 DEF Init, BackendTypeOK
<1>2. ASSUME NEW k \in Keys
      PROVE  spent[k] = <<>> /\ Recorded(k) = <<>> /\ Len(spent[k]) = 0
  BY DEF Init, Recorded
<1>3. SpentInOrder
  BY <1>2 DEF SpentInOrder
<1>4. ASSUME NEW k \in Keys
      PROVE  RecordOf(k)
  <2>1. 1 \in 1 .. Len(spent[k]) + 1 /\ EndsFrom(Recorded(k), spent[k], 1)
    BY <1>2 DEF EndsFrom
  <2>2. LeftBefore(k, 1)
    BY DEF LeftBefore
  <2> QED
    BY <2>1, <2>2 DEF RecordOf
<1> QED
  BY <1>1, <1>3, <1>4 DEF BackendInv, Init, Budget!WindowInit, Reading

LEMMA BackendNext ==
    ASSUME BackendInv, [Next]_vars
    PROVE  BackendInv' /\ [Budget!WindowNext]_Budget!windowVars
<1>0. MaxClock \in Nat /\ NoThread \notin Threads
  BY SingleProcessAssumption DEF SingleProcessAssumption
<1>1. ASSUME NEW t \in Threads, Call(t)
      PROVE  BackendInv' /\ Budget!WindowNext
  <2>1. /\ clock' = clock /\ events' = events /\ lock' = lock /\ now' = now /\ spent' = spent
        /\ nextPruneAt' = nextPruneAt
        /\ verdict' = verdict
    BY <1>1 DEF Call
  <2>2. PICK key \in Keys : asked[t] = NoKey /\ asked' = [asked EXCEPT ![t] = key]
    BY <1>1 DEF Call
  <2>3. BackendTypeOK'
    BY <2>1, <2>2 DEF BackendInv, BackendTypeOK
  <2>4. Reading' = Reading
    BY <2>1 DEF Reading
  <2>5. Reading <= Reading'
    BY <2>4 DEF BackendInv, BackendTypeOK, Reading
  <2> QED
    BY <2>1, <2>3, <2>5, WaitingKeeps
<1>2. ASSUME NEW t \in Threads, Acquire(t)
      PROVE  BackendInv' /\ Budget!WindowNext
  <2>1. /\ asked[t] # NoKey /\ lock = NoThread /\ lock' = t /\ now' = [now EXCEPT ![t] = clock]
        /\ clock' = clock /\ events' = events /\ asked' = asked /\ spent' = spent /\ verdict' = verdict
        /\ nextPruneAt' = nextPruneAt
    BY <1>2 DEF Acquire
  <2>2. now'[t] = clock /\ asked[t] \in Keys /\ clock \in Nat
    BY <2>1 DEF BackendInv, BackendTypeOK
  <2>3. BackendTypeOK'
    BY <2>1, <2>2 DEF BackendInv, BackendTypeOK
  <2>4. Reading' = Reading /\ Reading = clock
    BY <1>0, <2>1, <2>2 DEF Reading
  <2>5. Reading <= Reading'
    BY <2>2, <2>4
  <2> QED
    BY <2>1, <2>3, <2>5, WaitingKeeps
<1>3. ASSUME Tick
      PROVE  BackendInv' /\ Budget!WindowNext
  <2>1. /\ clock < MaxClock /\ clock' = clock + 1 /\ events' = events /\ lock' = lock
        /\ asked' = asked /\ now' = now /\ spent' = spent /\ verdict' = verdict
        /\ nextPruneAt' = nextPruneAt
    BY <1>3 DEF Tick
  <2>2. BackendTypeOK'
    BY <1>0, <2>1 DEF BackendInv, BackendTypeOK
  <2>3. Reading <= Reading'
    BY <1>0, <2>1 DEF BackendInv, BackendTypeOK, Reading
  <2> QED
    BY <2>1, <2>2, <2>3, WaitingKeeps
<1>4. ASSUME UNCHANGED vars
      PROVE  BackendInv' /\ Budget!WindowNext
  <2>1. /\ clock' = clock /\ events' = events /\ lock' = lock /\ now' = now /\ spent' = spent
        /\ nextPruneAt' = nextPruneAt
        /\ verdict' = verdict /\ asked' = asked
    BY <1>4 DEF vars
  <2>2. BackendTypeOK'
    BY <2>1 DEF BackendInv, BackendTypeOK
  <2>3. Reading <= Reading'
    BY <2>1 DEF BackendInv, BackendTypeOK, Reading
  <2> QED
    BY <2>1, <2>2, <2>3, WaitingKeeps
<1> QED
  BY <1>1, <1>2, <1>3, <1>4, AnswerKeeps DEF Next

THEOREM SingleProcess_Inv == Spec => []BackendInv
<1>1. Init => BackendInv
  BY BackendInitInv
<1>2. BackendInv /\ [Next]_vars => BackendInv'
  BY BackendNext
<1> QED
  BY <1>1, <1>2, PTL DEF Spec

\* Trimming the list of a key and sweeping whole keys forget nothing that still
\* counts and keep nothing that no longer does: with any number of threads waiting
\* for the lock, is_allowed allows just when a backend that remembers every event
\* for ever allows at the reading made under the lock, and denies otherwise.
THEOREM SingleProcess_KeepsBudget == Spec => KeepsBudget
<1>1. Init => Budget!WindowInit
  BY BackendInitInv
<1>2. BackendInv /\ [Next]_vars => [Budget!WindowNext]_Budget!windowVars
  BY BackendNext
<1>3. Spec => []BackendInv
  BY SingleProcess_Inv
<1> QED
  BY <1>1, <1>2, <1>3, PTL DEF Spec, KeepsBudget, Budget!WindowSpec

\* Of the in-memory backend itself: no window holds more of a key's allowed
\* checks than its limit.
THEOREM SingleProcess_WithinBudget == Spec => []Budget!WithinBudget
<1>1. Budget!WindowSpec => []Budget!WithinBudget
  BY SlidingWindow_WithinBudget
<1>2. Spec => Budget!WindowSpec
  BY SingleProcess_KeepsBudget DEF KeepsBudget
<1> QED
  BY <1>1, <1>2

-----------------------------------------------------------------------------
(* What a sweep leaves                                                     *)

\* The check that sweeps leaves of the other keys only those whose newest event
\* is still inside the window: what addresses no longer active cost in memory goes
\* with the next sweep.
THEOREM SingleProcess_SweepLeavesActive == Spec => SweepLeavesActive
<1>1. ASSUME BackendInv, [Next]_vars, NEW t \in Threads, lock = t, lock' # t, now[t] >= nextPruneAt,
             NEW k \in Keys \ {asked[t]}, events'[k] # NoEntry
      PROVE  \E i \in DOMAIN events'[k] : events'[k][i] > now[t] - Window[k]
  <2>0. NoThread \notin Threads
    BY SingleProcessAssumption DEF SingleProcessAssumption
  <2>1. Answer(t)
    BY <1>1, <2>0 DEF Next, vars, Call, Acquire, Answer, Tick
  <2>2. events'[k] = IF k \in Swept(now[t]) THEN NoEntry ELSE events[k]
    BY <1>1, <2>1 DEF Answer
  <2>3. events'[k] = events[k] /\ k \notin Swept(now[t])
    BY <1>1, <2>2
  <2>at. PICK at \in Nat, window \in Nat : at = now[t] /\ window = Window[k]
    BY <1>1, KeyBounds DEF BackendInv, BackendTypeOK
  <2>list. PICK list \in Seq(Nat) : list = events[k]
    BY <1>1, <2>3 DEF BackendInv, BackendTypeOK
  <2>4. list # <<>> /\ ~(list[Len(list)] + window <= at)
    <3>1. nextPruneAt > at \/ (list # <<>> /\ ~(list[Len(list)] + window <= at))
      BY <1>1, <2>3, <2>at, <2>list DEF Swept, Newest
    <3> QED
      BY <1>1, <2>at, <3>1 DEF BackendInv, BackendTypeOK
  <2>5. Len(list) \in DOMAIN list /\ list[Len(list)] \in Nat
    BY <2>4
  <2>6. list[Len(list)] > at - window
    BY <2>4, <2>5
  <2> QED
    BY <2>3, <2>5, <2>6, <2>at, <2>list
<1>2. BackendInv /\ [Next]_vars =>
         [\A t \in Threads :
            lock = t /\ lock' # t /\ now[t] >= nextPruneAt =>
                \A k \in Keys \ {asked[t]} : events'[k] # NoEntry =>
                    \E i \in DOMAIN events'[k] : events'[k][i] > now[t] - Window[k]]_vars
  BY <1>1
<1> QED
  BY <1>2, SingleProcess_Inv, PTL DEF Spec, SweepLeavesActive

=============================================================================
