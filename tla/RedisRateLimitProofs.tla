------------------------ MODULE RedisRateLimitProofs ------------------------
(***************************************************************************)
(* That the Redis backend keeps the promise of the port in true time: for  *)
(* every set of keys, every limit and window, however long the server runs *)
(* and however far its clock is set back.                                  *)
(***************************************************************************)
EXTENDS RedisRateLimit, FiniteSetTheorems, TLAPS

RedisTypeOK ==
    /\ time \in 0 .. MaxClock
    /\ setBack \in 0 .. time
    /\ sortedSet \in [Keys -> SUBSET [member : Nat, score : Nat]]
    /\ expiresAt \in [Keys -> Nat]
    /\ spent \in [Keys -> Seq(Nat)]

\* Checks are counted in the order of true time.
SpentInOrder(k) ==
    \A i \in 1 .. Len(spent[k]) :
        /\ spent[k][i] <= time
        /\ \A j \in i .. Len(spent[k]) : spent[k][i] <= spent[k][j]

\* Each member is a counted check of its own.  Its score is what the server's clock
\* showed, behind true time by no more than that clock is set back by now.
MembersOK(k) ==
    /\ \A m \in sortedSet[k] :
          /\ m.member \in 1 .. Len(spent[k])
          /\ m.score <= spent[k][m.member] /\ spent[k][m.member] <= m.score + setBack
    /\ \A m, n \in sortedSet[k] : m.member = n.member => m = n

\* What the server has forgotten no longer counts.
Remembered(k) ==
    \A i \in 1 .. Len(spent[k]) :
        spent[k][i] <= time - Window[k] \/ \E m \in sortedSet[k] : m.member = i

\* A key is not due to be forgotten while its last check counts.
ExpiryOK(k) ==
    \A i \in 1 .. Len(spent[k]) : spent[k][i] + Window[k] <= expiresAt[k] + setBack

RedisInv ==
    /\ RedisTypeOK
    /\ \A k \in Keys : SpentInOrder(k) /\ MembersOK(k) /\ Remembered(k) /\ ExpiryOK(k)

LEMMA KeyBounds ==
    ASSUME NEW k \in Keys
    PROVE  Limit[k] \in Nat \ {0} /\ Window[k] \in Nat \ {0}
  BY RedisAssumption DEF RedisAssumption

LEMMA SpentNat ==
    ASSUME RedisInv, NEW k \in Keys
    PROVE  /\ spent[k] \in Seq(Nat) /\ Len(spent[k]) \in Nat
           /\ \A i \in 1 .. Len(spent[k]) : spent[k][i] \in Nat
<1>1. spent[k] \in Seq(Nat)
  BY DEF RedisInv, RedisTypeOK
<1> QED
  BY <1>1

\* Trimming keeps every check that counts, and the kept are finitely many.
LEMMA TrimmedHasWindow ==
    ASSUME RedisInv, NEW key \in Keys
    PROVE  /\ IsFiniteSet(Trimmed(key)) /\ Cardinality(Trimmed(key)) \in Nat
           /\ \A i \in 1 .. Len(spent[key]) :
                 spent[key][i] > time - Window[key] => \E m \in Trimmed(key) : m.member = i
           /\ \A m \in Trimmed(key) : spent[key][m.member] > time - setBack - Window[key]
<1>1. /\ time \in Nat /\ setBack \in Nat /\ Window[key] \in Nat /\ clock = time - setBack
      /\ sortedSet[key] \in SUBSET [member : Nat, score : Nat] /\ Trimmed(key) \subseteq sortedSet[key]
  BY KeyBounds, RedisAssumption DEF RedisInv, RedisTypeOK, RedisAssumption, clock, Trimmed
<1>2. /\ spent[key] \in Seq(Nat) /\ Len(spent[key]) \in Nat
      /\ \A i \in 1 .. Len(spent[key]) : spent[key][i] \in Nat
  BY SpentNat
<1>3. IsFiniteSet(Trimmed(key))
  <2> DEFINE number == [m \in Trimmed(key) |-> m.member]
  <2>1. number \in Injection(Trimmed(key), 1 .. Len(spent[key]))
    BY <1>1 DEF RedisInv, MembersOK, Injection, IsInjective
  <2>2. IsFiniteSet(1 .. Len(spent[key]))
    BY <1>2, FS_Interval
  <2> QED
    BY <2>1, <2>2, FS_Injection
<1>4. ASSUME NEW i \in 1 .. Len(spent[key]), spent[key][i] > time - Window[key]
      PROVE  \E m \in Trimmed(key) : m.member = i
  <2>1. PICK stamp \in Nat, window \in Nat : stamp = spent[key][i] /\ window = Window[key]
    BY <1>1, <1>2
  <2>2. ~(stamp <= time - window)
    BY <1>1, <1>4, <2>1
  <2>3. PICK m \in sortedSet[key] : m.member = i
    BY <2>1, <2>2 DEF RedisInv, Remembered
  <2>4. PICK score \in Nat : score = m.score /\ stamp <= score + setBack
    BY <1>1, <2>1, <2>3 DEF RedisInv, MembersOK
  <2>5. ~(score <= clock - window)
    BY <1>1, <2>2, <2>4
  <2>6. m \in Trimmed(key)
    BY <2>1, <2>4, <2>5 DEF Trimmed
  <2> QED
    BY <2>3, <2>6
<1>5. ASSUME NEW m \in Trimmed(key)
      PROVE  spent[key][m.member] > time - setBack - Window[key]
  <2>1. m.member \in 1 .. Len(spent[key]) /\ m.score <= spent[key][m.member]
    BY <1>1 DEF RedisInv, MembersOK
  <2>2. PICK stamp \in Nat, window \in Nat, score \in Nat :
           stamp = spent[key][m.member] /\ window = Window[key] /\ score = m.score
    BY <1>1, <1>2, <2>1
  <2>3. ~(score <= time - setBack - window)
    BY <1>1, <2>2 DEF Trimmed
  <2> QED
    BY <1>1, <2>1, <2>2, <2>3
<1> QED
  BY <1>3, <1>4, <1>5, FS_CardinalityType

\* A check is counted only where the limit-th last one has left the window.
LEMMA CountedFits ==
    ASSUME RedisInv, NEW key \in Keys, Cardinality(Trimmed(key)) < Limit[key]
    PROVE  Budget!FitsAt(key, time)
<1>len. PICK len \in Nat, limit \in Nat \ {0} : len = Len(spent[key]) /\ limit = Limit[key]
  BY SpentNat, KeyBounds
<1> SUFFICES ASSUME len >= limit, ~(spent[key][len + 1 - limit] <= time - Window[key])
             PROVE  FALSE
  BY <1>len DEF Budget!FitsAt
<1>1. \A i \in 1 .. len : spent[key][i] \in Nat
  BY <1>len, SpentNat
<1>2. time \in Nat /\ Window[key] \in Nat /\ len + 1 - limit \in 1 .. len
  BY <1>len, KeyBounds, RedisAssumption DEF RedisInv, RedisTypeOK, RedisAssumption
<1>3. ASSUME NEW i \in len + 1 - limit .. len
      PROVE  \E m \in Trimmed(key) : m.member = i
  <2>1. PICK first \in Nat, stamp \in Nat, window \in Nat :
           first = spent[key][len + 1 - limit] /\ stamp = spent[key][i] /\ window = Window[key]
    BY <1>1, <1>2
  <2>2. first <= stamp
    BY <1>len, <1>2, <2>1 DEF RedisInv, SpentInOrder
  <2>3. stamp > time - window
    BY <1>2, <2>1, <2>2
  <2> QED
    BY <1>len, <1>2, <2>1, <2>3, TrimmedHasWindow
<1> DEFINE held == [i \in len + 1 - limit .. len |-> CHOOSE m \in Trimmed(key) : m.member = i]
<1>4. held \in Injection(len + 1 - limit .. len, Trimmed(key))
  <2>1. \A i \in len + 1 - limit .. len : held[i] \in Trimmed(key) /\ held[i].member = i
    BY <1>3
  <2> HIDE DEF held
  <2>2. held \in [len + 1 - limit .. len -> Trimmed(key)]
    BY <2>1 DEF held
  <2> QED
    BY <2>1, <2>2 DEF Injection, IsInjective
<1>5. Cardinality(len + 1 - limit .. len) <= Cardinality(Trimmed(key))
  <2> HIDE DEF held
  <2> QED
    BY <1>4, TrimmedHasWindow, FS_Injection
<1>6. Cardinality(len + 1 - limit .. len) = limit
  <2>1. len + 1 - limit \in Int /\ len \in Int
    OBVIOUS
  <2>2. Cardinality(len + 1 - limit .. len) =
           IF len + 1 - limit > len THEN 0 ELSE len - (len + 1 - limit) + 1
    BY <2>1, FS_Interval
  <2> QED
    BY <1>2, <2>2
<1>7. Cardinality(Trimmed(key)) \in Nat
  BY TrimmedHasWindow
<1> QED
  BY <1>5, <1>6, <1>7, <1>len

\* A check is denied only where one more would not fit by the server's clock.
LEMMA DeniedFull ==
    ASSUME RedisInv, NEW key \in Keys, ~(Cardinality(Trimmed(key)) < Limit[key])
    PROVE  ~Budget!FitsAt(key, time - setBack)
<1>len. PICK len \in Nat, limit \in Nat \ {0} : len = Len(spent[key]) /\ limit = Limit[key]
  BY SpentNat, KeyBounds
<1>0. /\ IsFiniteSet(Trimmed(key)) /\ Cardinality(Trimmed(key)) \in Nat
      /\ Cardinality(Trimmed(key)) >= limit
  BY <1>len, TrimmedHasWindow
<1>1. \A i \in 1 .. len : spent[key][i] \in Nat
  BY <1>len, SpentNat
<1>2. time \in Nat /\ setBack \in Nat /\ Window[key] \in Nat /\ Trimmed(key) \subseteq sortedSet[key]
  BY KeyBounds, RedisAssumption DEF RedisInv, RedisTypeOK, RedisAssumption, Trimmed
<1> DEFINE number == [m \in Trimmed(key) |-> m.member]
<1>3. ASSUME NEW low \in 1 .. len + 1, \A m \in Trimmed(key) : m.member >= low
      PROVE  limit <= len + 1 - low
  <2>1. number \in Injection(Trimmed(key), low .. len)
    <3>1. ASSUME NEW m \in Trimmed(key)
          PROVE  m.member \in low .. len
      <4>1. m.member \in 1 .. len /\ m.member >= low
        BY <1>len, <1>2, <1>3 DEF RedisInv, MembersOK
      <4> QED
        BY <4>1
    <3>2. \A m, n \in Trimmed(key) : m.member = n.member => m = n
      BY <1>2 DEF RedisInv, MembersOK
    <3> QED
      BY <3>1, <3>2 DEF Injection, IsInjective
  <2>2. low \in Int /\ len \in Int
    OBVIOUS
  <2>3. IsFiniteSet(low .. len) /\ Cardinality(low .. len) = len + 1 - low
    <3>1. IsFiniteSet(low .. len) /\ Cardinality(low .. len) = IF low > len THEN 0 ELSE len - low + 1
      BY <2>2, FS_Interval
    <3> QED
      BY <3>1
  <2>4. Cardinality(Trimmed(key)) <= Cardinality(low .. len)
    <3> HIDE DEF number
    <3> QED
      BY <2>1, <2>3, FS_Injection
  <2> QED
    BY <1>0, <2>3, <2>4
<1>4. len >= limit
  <2>1. \A m \in Trimmed(key) : m.member >= 1
    BY <1>len, <1>2 DEF RedisInv, MembersOK
  <2>2. limit <= len + 1 - 1
    BY <1>3, <2>1
  <2> QED
    BY <2>2
<1> SUFFICES ASSUME spent[key][len + 1 - limit] <= time - setBack - Window[key]
             PROVE  FALSE
  BY <1>len, <1>4 DEF Budget!FitsAt
<1>5. ASSUME NEW m \in Trimmed(key)
      PROVE  m.member >= len + 2 - limit
  <2>1. m.member \in 1 .. len /\ spent[key][m.member] > time - setBack - Window[key]
    BY <1>len, <1>2, TrimmedHasWindow DEF RedisInv, MembersOK
  <2> SUFFICES ASSUME m.member <= len + 1 - limit
               PROVE  FALSE
    BY <2>1
  <2>2. len + 1 - limit \in m.member .. len /\ len + 1 - limit \in 1 .. len
    BY <1>4, <2>1
  <2>3. PICK stamp \in Nat, last \in Nat, window \in Nat :
           stamp = spent[key][m.member] /\ last = spent[key][len + 1 - limit] /\ window = Window[key]
    BY <1>1, <1>2, <2>1, <2>2
  <2>4. stamp <= last
    BY <1>len, <2>1, <2>2, <2>3 DEF RedisInv, SpentInOrder
  <2> QED
    BY <1>2, <2>1, <2>3, <2>4
<1>6. len + 2 - limit \in 1 .. len + 1
  BY <1>4
<1>7. limit <= len + 1 - (len + 2 - limit)
  BY <1>3, <1>5, <1>6
<1> QED
  BY <1>7

\* A step that counts no check keeps what is known of a key whose set it leaves
\* alone: true time only goes on, and the clock is only ever set back.
LEMMA WaitingKeeps ==
    ASSUME RedisInv, NEW k \in Keys, RedisTypeOK', time <= time', setBack <= setBack',
           spent'[k] = spent[k], sortedSet'[k] = sortedSet[k], expiresAt'[k] = expiresAt[k]
    PROVE  SpentInOrder(k)' /\ MembersOK(k)' /\ Remembered(k)' /\ ExpiryOK(k)'
<1>1. PICK window \in Nat : window = Window[k]
  BY KeyBounds
<1>2. /\ time \in Nat /\ time' \in Nat /\ setBack \in Nat /\ setBack' \in Nat /\ expiresAt[k] \in Nat
      /\ sortedSet[k] \in SUBSET [member : Nat, score : Nat]
  BY RedisAssumption DEF RedisInv, RedisTypeOK, RedisAssumption
<1>3. \A i \in 1 .. Len(spent[k]) : spent[k][i] \in Nat
  BY SpentNat
<1>4. SpentInOrder(k)'
  <2>1. ASSUME NEW i \in 1 .. Len(spent[k])
        PROVE  spent[k][i] <= time'
    <3>1. spent[k][i] \in Nat /\ spent[k][i] <= time
      BY <1>3 DEF RedisInv, SpentInOrder
    <3> QED
      BY <1>2, <3>1
  <2> QED
    BY <2>1 DEF RedisInv, SpentInOrder
<1>5. MembersOK(k)'
  <2>1. ASSUME NEW m \in sortedSet[k]
        PROVE  spent[k][m.member] <= m.score + setBack'
    <3>1. /\ m.member \in 1 .. Len(spent[k]) /\ spent[k][m.member] <= m.score + setBack
      BY DEF RedisInv, MembersOK
    <3>2. PICK stamp \in Nat, score \in Nat : stamp = spent[k][m.member] /\ score = m.score
      BY <1>2, <1>3, <3>1
    <3> QED
      BY <1>2, <3>1, <3>2
  <2> QED
    BY <2>1 DEF RedisInv, MembersOK
<1>6. Remembered(k)'
  <2> SUFFICES ASSUME NEW i \in 1 .. Len(spent[k]), spent[k][i] <= time - window
               PROVE  spent[k][i] <= time' - window
    BY <1>1 DEF RedisInv, Remembered
  <2>1. PICK stamp \in Nat : stamp = spent[k][i]
    BY <1>3
  <2> QED
    BY <1>2, <2>1
<1>7. ExpiryOK(k)'
  <2> SUFFICES ASSUME NEW i \in 1 .. Len(spent[k])
               PROVE  spent[k][i] + window <= expiresAt[k] + setBack'
    BY <1>1 DEF ExpiryOK
  <2>1. PICK stamp \in Nat : stamp = spent[k][i]
    BY <1>3
  <2>2. PICK expires \in Nat, before \in Nat, after \in Nat :
           expires = expiresAt[k] /\ before = setBack /\ after = setBack' /\ before <= after
    BY <1>2
  <2>3. stamp + window <= expires + before
    BY <1>1, <2>1, <2>2 DEF RedisInv, ExpiryOK
  <2>4. stamp + window <= expires + after
    BY <2>2, <2>3
  <2> QED
    BY <2>1, <2>2, <2>4
<1> QED
  BY <1>4, <1>5, <1>6, <1>7

\* What the server forgets of a key no longer counts.
LEMMA ForgottenIsOver ==
    ASSUME RedisInv, NEW key \in Keys, NEW i \in 1 .. Len(spent[key]), clock >= expiresAt[key]
    PROVE  spent[key][i] <= time - Window[key]
<1>1. /\ time \in Nat /\ setBack \in Nat /\ expiresAt[key] \in Nat /\ clock = time - setBack
      /\ Window[key] \in Nat
  BY KeyBounds, RedisAssumption DEF RedisInv, RedisTypeOK, RedisAssumption, clock
<1>2. PICK stamp \in Nat, window \in Nat : stamp = spent[key][i] /\ window = Window[key]
  BY <1>1, SpentNat
<1>3. PICK expires \in Nat : expires = expiresAt[key] /\ time - setBack >= expires
  BY <1>1
<1>4. stamp + window <= expires + setBack
  BY <1>2, <1>3 DEF RedisInv, ExpiryOK
<1>5. stamp <= time - window
  BY <1>1, <1>3, <1>4
<1> QED
  BY <1>2, <1>5

LEMMA ExpireKeeps ==
    ASSUME RedisInv, NEW key \in Keys, Expire(key)
    PROVE  RedisInv'
<1>1. /\ clock >= expiresAt[key] /\ sortedSet' = [sortedSet EXCEPT ![key] = {}]
      /\ time' = time /\ setBack' = setBack /\ expiresAt' = expiresAt /\ spent' = spent
  BY DEF Expire
<1>2. RedisTypeOK'
  BY <1>1 DEF RedisInv, RedisTypeOK
<1>3. time <= time' /\ setBack <= setBack'
  BY <1>1, RedisAssumption DEF RedisInv, RedisTypeOK, RedisAssumption
<1>4. ASSUME NEW k \in Keys
      PROVE  SpentInOrder(k)' /\ MembersOK(k)' /\ Remembered(k)' /\ ExpiryOK(k)'
  <2>1. CASE k # key
    <3>1. sortedSet'[k] = sortedSet[k]
      BY <1>1, <2>1 DEF RedisInv, RedisTypeOK
    <3> QED
      BY <1>1, <1>2, <1>3, <3>1, WaitingKeeps
  <2>2. CASE k = key
    <3>1. sortedSet'[k] = {}
      BY <1>1, <2>2 DEF RedisInv, RedisTypeOK
    <3>2. SpentInOrder(k)' /\ ExpiryOK(k)'
      BY <1>1 DEF RedisInv, SpentInOrder, ExpiryOK
    <3>3. MembersOK(k)'
      BY <3>1 DEF MembersOK
    <3>4. Remembered(k)'
      BY <1>1, <2>2, ForgottenIsOver DEF Remembered
    <3> QED
      BY <3>2, <3>3, <3>4
  <2> QED
    BY <2>1, <2>2
<1> QED
  BY <1>2, <1>4 DEF RedisInv

\* The script keeps what is known of the key it was run for.
LEMMA ScriptKeeps ==
    ASSUME RedisInv, NEW key \in Keys, NEW counts \in BOOLEAN, Script(key, counts),
           time' = time, setBack' = setBack
    PROVE  RedisInv'
<1>1. /\ counts = (Cardinality(Trimmed(key)) < Limit[key])
      /\ sortedSet' = [sortedSet EXCEPT ![key] =
                          IF counts THEN Trimmed(key) \cup {Added(key)} ELSE Trimmed(key)]
      /\ expiresAt' = [expiresAt EXCEPT ![key] = IF counts THEN clock + Window[key] ELSE expiresAt[key]]
      /\ spent' = IF counts THEN [spent EXCEPT ![key] = Append(spent[key], time)] ELSE spent
  BY DEF Script
<1>2. PICK window \in Nat : window = Window[key]
  BY KeyBounds
<1>3. /\ time \in Nat /\ setBack \in Nat /\ setBack <= time /\ clock \in Nat
      /\ clock = time - setBack /\ sortedSet[key] \in SUBSET [member : Nat, score : Nat]
      /\ Trimmed(key) \subseteq sortedSet[key]
  BY RedisAssumption DEF RedisInv, RedisTypeOK, RedisAssumption, clock, Trimmed
<1>4. /\ spent[key] \in Seq(Nat) /\ \A i \in 1 .. Len(spent[key]) : spent[key][i] \in Nat
  BY SpentNat
<1>len. PICK len \in Nat : len = Len(spent[key])
  BY SpentNat
<1>longer. PICK longer \in Seq(Nat) :
    /\ longer = Append(spent[key], time) /\ Len(longer) = len + 1 /\ longer[len + 1] = time
    /\ \A i \in 1 .. len : longer[i] = spent[key][i]
  <2>1. PICK list \in Seq(Nat), stamp \in Nat : list = spent[key] /\ stamp = time
    BY <1>3, <1>4
  <2>2. /\ Append(list, stamp) \in Seq(Nat) /\ Len(Append(list, stamp)) = Len(list) + 1
        /\ Append(list, stamp)[Len(list) + 1] = stamp
        /\ \A i \in 1 .. Len(list) : Append(list, stamp)[i] = list[i]
    OBVIOUS
  <2> QED
    BY <1>len, <2>1, <2>2
<1>added. PICK added \in [member : Nat, score : Nat] :
    added = Added(key) /\ added.member = len + 1 /\ added.score = clock
  <2>1. Added(key) = [member |-> len + 1, score |-> clock]
    BY <1>len DEF Added
  <2>2. PICK score \in Nat : score = clock
    BY <1>3
  <2> QED
    BY <2>1, <2>2
<1>5. RedisTypeOK'
  <2>1. sortedSet' \in [Keys -> SUBSET [member : Nat, score : Nat]]
    <3>1. Trimmed(key) \cup {Added(key)} \in SUBSET [member : Nat, score : Nat]
          /\ Trimmed(key) \in SUBSET [member : Nat, score : Nat]
      BY <1>3, <1>added
    <3> QED
      BY <1>1, <3>1 DEF RedisInv, RedisTypeOK
  <2>2. expiresAt' \in [Keys -> Nat]
    <3>1. clock + Window[key] \in Nat
      BY <1>2, <1>3
    <3> QED
      BY <1>1, <3>1 DEF RedisInv, RedisTypeOK
  <2>3. spent' \in [Keys -> Seq(Nat)]
    BY <1>1, <1>longer DEF RedisInv, RedisTypeOK
  <2> QED
    BY <2>1, <2>2, <2>3 DEF RedisInv, RedisTypeOK
<1>6. ASSUME NEW k \in Keys \ {key}
      PROVE  SpentInOrder(k)' /\ MembersOK(k)' /\ Remembered(k)' /\ ExpiryOK(k)'
  <2>1. spent'[k] = spent[k] /\ sortedSet'[k] = sortedSet[k] /\ expiresAt'[k] = expiresAt[k]
    BY <1>1 DEF RedisInv, RedisTypeOK
  <2>2. time <= time' /\ setBack <= setBack'
    BY <1>3
  <2> QED
    BY <1>5, <2>1, <2>2, WaitingKeeps
<1>7. ASSUME NEW i \in 1 .. len
      PROVE  spent[key][i] <= time - window \/ \E m \in Trimmed(key) : m.member = i
  <2>1. PICK stamp \in Nat : stamp = spent[key][i]
    BY <1>4, <1>len
  <2>2. stamp <= time - window \/ stamp > time - window
    BY <1>3
  <2> QED
    BY <1>2, <1>len, <2>1, <2>2, TrimmedHasWindow
<1>8. CASE ~counts
  <2>1. spent' = spent /\ expiresAt'[key] = expiresAt[key] /\ sortedSet'[key] = Trimmed(key)
    BY <1>1, <1>8 DEF RedisInv, RedisTypeOK
  <2>2. SpentInOrder(key)' /\ ExpiryOK(key)'
    BY <2>1 DEF RedisInv, SpentInOrder, ExpiryOK
  <2>3. MembersOK(key)'
    BY <1>3, <2>1 DEF RedisInv, MembersOK
  <2>4. Remembered(key)'
    BY <1>2, <1>7, <1>len, <2>1 DEF Remembered
  <2> QED
    BY <1>5, <1>6, <2>2, <2>3, <2>4 DEF RedisInv
<1>9. CASE counts
  <2>1. /\ spent'[key] = longer /\ expiresAt'[key] = clock + window
        /\ sortedSet'[key] = Trimmed(key) \cup {added}
    BY <1>1, <1>2, <1>9, <1>longer, <1>added DEF RedisInv, RedisTypeOK
  <2>2. ASSUME NEW i \in 1 .. len + 1
        PROVE  longer[i] \in Nat /\ longer[i] <= time /\ (i = len + 1 \/ i \in 1 .. len)
    <3>1. CASE i = len + 1
      BY <1>3, <1>longer, <3>1
    <3>2. CASE i # len + 1
      <4>1. i \in 1 .. len
        BY <3>2
      <4> QED
        BY <1>4, <1>len, <1>longer, <4>1 DEF RedisInv, SpentInOrder
    <3> QED
      BY <3>1, <3>2
  <2>3. SpentInOrder(key)'
    <3> SUFFICES ASSUME NEW i \in 1 .. len + 1, NEW j \in i .. len + 1
                 PROVE  longer[i] <= longer[j]
      BY <1>longer, <2>1, <2>2 DEF SpentInOrder
    <3>1. CASE j = len + 1
      BY <1>longer, <2>2, <3>1
    <3>2. CASE j # len + 1
      <4>1. i \in 1 .. len /\ j \in i .. len /\ j \in 1 .. len
        BY <3>2
      <4> QED
        BY <1>len, <1>longer, <4>1 DEF RedisInv, SpentInOrder
    <3> QED
      BY <3>1, <3>2
  <2>4. ASSUME NEW m \in Trimmed(key)
        PROVE  /\ m.member \in 1 .. len /\ m.member # len + 1
               /\ m.score <= longer[m.member] /\ longer[m.member] <= m.score + setBack
    <3>1. /\ m.member \in 1 .. len
          /\ m.score <= spent[key][m.member] /\ spent[key][m.member] <= m.score + setBack
      BY <1>3, <1>len DEF RedisInv, MembersOK
    <3> QED
      BY <1>longer, <3>1
  <2>5. added.score <= time /\ time <= added.score + setBack
    BY <1>3, <1>added
  <2>6. MembersOK(key)'
    <3>1. ASSUME NEW m \in Trimmed(key) \cup {added}
          PROVE  /\ m.member \in 1 .. len + 1
                 /\ m.score <= longer[m.member] /\ longer[m.member] <= m.score + setBack
      <4>1. CASE m = added
        <5>1. len + 1 \in 1 .. len + 1
          OBVIOUS
        <5> QED
          BY <1>added, <1>longer, <2>5, <4>1, <5>1
      <4>2. CASE m # added
        BY <2>4, <4>2
      <4> QED
        BY <4>1, <4>2
    <3>2. \A m, n \in Trimmed(key) \cup {added} : m.member = n.member => m = n
      <4>1. \A m, n \in Trimmed(key) : m.member = n.member => m = n
        BY <1>3 DEF RedisInv, MembersOK
      <4> QED
        BY <1>added, <2>4, <4>1
    <3> QED
      BY <1>longer, <2>1, <3>1, <3>2 DEF MembersOK
  <2>7. Remembered(key)'
    <3> SUFFICES ASSUME NEW i \in 1 .. len + 1
                 PROVE  longer[i] <= time - window \/ \E m \in Trimmed(key) \cup {added} : m.member = i
      BY <1>2, <1>longer, <2>1 DEF Remembered
    <3>1. CASE i = len + 1
      BY <1>added, <3>1
    <3>2. CASE i \in 1 .. len
      BY <1>7, <1>longer, <3>2
    <3> QED
      BY <2>2, <3>1, <3>2
  <2>8. ExpiryOK(key)'
    <3> SUFFICES ASSUME NEW i \in 1 .. len + 1
                 PROVE  longer[i] + window <= clock + window + setBack
      BY <1>2, <1>longer, <2>1 DEF ExpiryOK
    <3>1. PICK stamp \in Nat : stamp = longer[i] /\ stamp <= time
      BY <2>2
    <3> QED
      BY <1>3, <3>1
  <2> QED
    BY <1>5, <1>6, <2>3, <2>6, <2>7, <2>8 DEF RedisInv
<1> QED
  BY <1>8, <1>9

\* True time goes on and the clock is only ever set back.
LEMMA TimeOnward ==
    ASSUME RedisInv, RedisTypeOK', time <= time', setBack <= setBack'
    PROVE  Budget!Onward
<1>1. time' \in Nat /\ setBack' \in Nat /\ time \in Nat /\ setBack \in Nat
  BY RedisAssumption DEF RedisInv, RedisTypeOK, RedisAssumption
<1> QED
  BY <1>1 DEF Budget!Onward

\* A check is one step of the promise, by true time: whether its answer arrives
\* or is lost.
LEMMA CheckImplements ==
    ASSUME RedisInv, NEW key \in Keys, Check(key)
    PROVE  RedisInv' /\ Budget!WindowNext
<1>1. PICK counts \in BOOLEAN :
         /\ Script(key, counts)
         /\ verdict' \in {[key |-> key, answer |-> IF counts THEN "allowed" ELSE "denied"],
                         [key |-> NoKey, answer |-> "unavailable"]}
         /\ time' = time /\ setBack' = setBack
  BY DEF Check
<1>2. RedisInv'
  BY <1>1, ScriptKeeps
<1>3. Budget!Onward
  <2>1. time \in Nat /\ setBack \in Nat
    BY RedisAssumption DEF RedisInv, RedisTypeOK, RedisAssumption
  <2>2. RedisTypeOK' /\ time <= time' /\ setBack <= setBack'
    BY <1>1, <1>2, <2>1 DEF RedisInv
  <2> QED
    BY <2>2, TimeOnward
<1>4. CASE counts
  <2>1. Budget!FitsAt(key, time) /\ Budget!Spend(key)
    BY <1>1, <1>4, CountedFits DEF Script, Budget!Spend
  <2>2. CASE verdict' = [key |-> key, answer |-> "allowed"]
    <3>1. Budget!Allow(key)
      BY <2>1, <2>2 DEF Budget!Allow, Budget!Told
    <3> QED
      BY <1>2, <1>3, <3>1 DEF Budget!WindowNext, Budget!Decide
  <2>3. CASE verdict' = [key |-> NoKey, answer |-> "unavailable"]
    <3>1. Budget!LoseAnswer(key)
      BY <2>1, <2>3 DEF Budget!LoseAnswer, Budget!Told
    <3> QED
      BY <1>2, <1>3, <3>1 DEF Budget!WindowNext, Budget!Decide
  <2> QED
    BY <1>1, <1>4, <2>2, <2>3
<1>5. CASE ~counts
  <2>1. spent' = spent /\ ~(Cardinality(Trimmed(key)) < Limit[key])
    BY <1>1, <1>5 DEF Script
  <2>2. CASE verdict' = [key |-> key, answer |-> "denied"]
    <3>1. ~Budget!FitsAt(key, time - setBack)
      BY <2>1, DeniedFull
    <3>2. Budget!Deny(key)
      BY <2>1, <2>2, <3>1 DEF Budget!Deny, Budget!Told
    <3> QED
      BY <1>2, <1>3, <3>2 DEF Budget!WindowNext, Budget!Decide
  <2>3. CASE verdict' = [key |-> NoKey, answer |-> "unavailable"]
    <3>1. Budget!Unreachable
      BY <2>1, <2>3 DEF Budget!Unreachable, Budget!Told
    <3> QED
      BY <1>2, <1>3, <3>1 DEF Budget!WindowNext, Budget!Decide
  <2> QED
    BY <1>1, <1>5, <2>2, <2>3
<1> QED
  BY <1>4, <1>5

LEMMA RedisInit ==
    ASSUME Init
    PROVE  RedisInv /\ Budget!WindowInit
<1>1. MaxClock \in Nat
  BY RedisAssumption DEF RedisAssumption
<1>2. RedisTypeOK
  BY <1>1 DEF Init, RedisTypeOK
<1>3. ASSUME NEW k \in Keys
      PROVE  SpentInOrder(k) /\ MembersOK(k) /\ Remembered(k) /\ ExpiryOK(k)
  <2>1. spent[k] = <<>> /\ sortedSet[k] = {} /\ Len(spent[k]) = 0
    BY DEF Init
  <2> QED
    BY <2>1 DEF SpentInOrder, MembersOK, Remembered, ExpiryOK
<1>4. Budget!WindowInit
  BY DEF Init, Budget!WindowInit
<1> QED
  BY <1>2, <1>3, <1>4 DEF RedisInv

LEMMA RedisNext ==
    ASSUME RedisInv, [Next]_vars
    PROVE  RedisInv' /\ [Budget!WindowNext]_Budget!windowVars
<1>0. MaxClock \in Nat /\ time \in Nat /\ setBack \in Nat /\ setBack <= time
  BY RedisAssumption DEF RedisInv, RedisTypeOK, RedisAssumption
<1>1. ASSUME NEW key \in Keys, Expire(key)
      PROVE  RedisInv' /\ UNCHANGED Budget!windowVars
  <2>1. UNCHANGED <<time, setBack, spent, verdict>>
    BY <1>1 DEF Expire
  <2> QED
    BY <1>1, <2>1, ExpireKeeps DEF Budget!windowVars
<1>2. ASSUME RedisTypeOK', time <= time', setBack <= setBack',
             UNCHANGED <<sortedSet, expiresAt, spent>>
      PROVE  RedisInv' /\ Budget!Onward
  BY <1>2, WaitingKeeps, TimeOnward DEF RedisInv
<1>3. ASSUME Unreachable
      PROVE  RedisInv' /\ Budget!WindowNext
  <2>1. /\ time' = time /\ setBack' = setBack /\ sortedSet' = sortedSet /\ expiresAt' = expiresAt
        /\ spent' = spent /\ verdict' = [key |-> NoKey, answer |-> "unavailable"]
    BY <1>3 DEF Unreachable
  <2>2. RedisInv' /\ Budget!Onward
    BY <1>0, <1>2, <2>1 DEF RedisInv, RedisTypeOK
  <2>3. Budget!Unreachable
    BY <2>1 DEF Budget!Unreachable, Budget!Told
  <2> QED
    BY <2>2, <2>3 DEF Budget!WindowNext, Budget!Decide
<1>4. ASSUME Tick
      PROVE  RedisInv' /\ Budget!WindowNext
  <2>1. /\ time < MaxClock /\ time' = time + 1 /\ setBack' = setBack /\ sortedSet' = sortedSet
        /\ expiresAt' = expiresAt /\ spent' = spent /\ verdict' = verdict
    BY <1>4 DEF Tick
  <2>2. RedisInv' /\ Budget!Onward
    BY <1>0, <1>2, <2>1 DEF RedisInv, RedisTypeOK
  <2> QED
    BY <2>1, <2>2 DEF Budget!WindowNext
<1>5. ASSUME SetClockBack
      PROVE  RedisInv' /\ Budget!WindowNext
  <2>1. /\ clock > 0 /\ setBack' = setBack + 1 /\ time' = time /\ sortedSet' = sortedSet
        /\ expiresAt' = expiresAt /\ spent' = spent /\ verdict' = verdict
    BY <1>5 DEF SetClockBack
  <2>2. setBack' \in 0 .. time
    BY <1>0, <2>1 DEF clock
  <2>3. RedisInv' /\ Budget!Onward
    BY <1>0, <1>2, <2>1, <2>2 DEF RedisInv, RedisTypeOK
  <2> QED
    BY <2>1, <2>3 DEF Budget!WindowNext
<1>6. ASSUME UNCHANGED vars
      PROVE  RedisInv' /\ UNCHANGED Budget!windowVars
  <2>1. /\ time' = time /\ setBack' = setBack /\ sortedSet' = sortedSet /\ expiresAt' = expiresAt
        /\ spent' = spent /\ verdict' = verdict
    BY <1>6 DEF vars
  <2>2. RedisInv'
    BY <1>0, <1>2, <2>1 DEF RedisInv, RedisTypeOK
  <2> QED
    BY <2>1, <2>2 DEF Budget!windowVars
<1> QED
  BY <1>1, <1>3, <1>4, <1>5, <1>6, CheckImplements DEF Next

\* Whatever the server forgets, whichever answers get lost and however far its
\* clock is set back, every check that was counted fitted its budget in true
\* time, and every denial was due, late by no more than the clock was set back
\* (_LUA_SLIDING_WINDOW).
THEOREM Redis_KeepsBudget == Spec => KeepsBudget
<1>1. Init => RedisInv /\ Budget!WindowInit
  BY RedisInit
<1>2. RedisInv /\ [Next]_vars => RedisInv' /\ [Budget!WindowNext]_Budget!windowVars
  BY RedisNext
<1>3. Spec => []RedisInv
  BY <1>1, <1>2, PTL DEF Spec
<1> QED
  BY <1>1, <1>2, <1>3, PTL DEF Spec, KeepsBudget, Budget!WindowSpec

=============================================================================
