------------------------- MODULE PendingLoginProofs -------------------------
(***************************************************************************)
(* The pending-login cookies of one browser, for any number of requests it *)
(* has open and of logins it begins, whatever answers are lost or late:    *)
(* the jar stays bounded, the latest logins can still be completed, and a  *)
(* login that was answered is not held again.                              *)
(***************************************************************************)
EXTENDS PendingLogin, FiniteSetTheorems, TLAPS

-----------------------------------------------------------------------------
(* The requests of the browser                                             *)

\* The answer of a start, which has not arrived.
Redirecting(r) == stage[r] = "answered" /\ outcome[r] = "redirected"

TypeOK ==
    /\ time \in Nat /\ issuedAt \in [Logins -> Nat] /\ \A l \in begun : issuedAt[l] <= time
    /\ begun \subseteq Logins /\ genuine \subseteq begun /\ sentTo \subseteq begun
    /\ delivered \subseteq sentTo /\ jar \subseteq sentTo
    /\ stage \in [Slots -> {"free", "start", "callback", "answered"}]
    /\ login \in [Slots -> Logins \cup {NoLogin}]
    /\ carried \in [Slots -> SUBSET sentTo] /\ cleared \in [Slots -> SUBSET sentTo]
    /\ outcome \in [Slots -> Outcomes]

\* A login is the one its start began until the browser is sent to the issuer
\* with it, and only then does a callback name it.
RequestOf(r) ==
    /\ stage[r] = "callback" => login[r] \in sentTo
    /\ stage[r] = "answered" /\ ~Redirecting(r) => login[r] \in sentTo /\ cleared[r] = {login[r]}
    /\ Redirecting(r) =>
          /\ login[r] \in begun \ sentTo
          /\ \A other \in Slots \ {r} : Redirecting(other) => login[other] # login[r]

RequestInv == \A r \in Slots : RequestOf(r)

\* The logins that are at least as young as l.
Younger(l) == {m \in begun \ {l} : issuedAt[m] >= issuedAt[l]}

\* What a start's answer will clear is old.
EvictedOf(r) ==
    Redirecting(r) =>
        \A l \in cleared[r] \cap genuine : Cardinality(Younger(l)) >= MaxPending

EvictedInv == \A r \in Slots : EvictedOf(r)

PendingInv == TypeOK /\ RequestInv /\ EvictedInv
PendingKept == PendingInv /\ DeliveredNotHeld /\ LatestLoginsKept

\* A step of one request leaves the others as they were.
OtherSlots(r) ==
    \A p \in Slots \ {r} :
        /\ stage'[p] = stage[p] /\ login'[p] = login[p] /\ carried'[p] = carried[p]
        /\ cleared'[p] = cleared[p] /\ outcome'[p] = outcome[p]

\* Logins are only added, as they were begun; a new key makes none genuine again.
LoginsGrow ==
    /\ begun \subseteq begun' /\ sentTo \subseteq sentTo'
    /\ \A l \in begun : issuedAt'[l] = issuedAt[l]
    /\ genuine' \cap begun \subseteq genuine

LEMMA YoungerGrows ==
    ASSUME TypeOK, TypeOK', LoginsGrow, NEW l \in begun, Cardinality(Younger(l)) >= MaxPending
    PROVE  Cardinality(Younger(l)') >= MaxPending
<1>1. Younger(l) \subseteq Younger(l)'
  BY DEF Younger, LoginsGrow
<1>2. IsFiniteSet(Younger(l)) /\ IsFiniteSet(Younger(l)')
  BY FS_Subset, PendingLoginAssumption DEF Younger, TypeOK, PendingLoginAssumption
<1>3. Cardinality(Younger(l)) \in Nat /\ Cardinality(Younger(l)') \in Nat
  BY <1>2, FS_CardinalityType
<1>4. Cardinality(Younger(l)) <= Cardinality(Younger(l)')
  BY <1>1, <1>2, FS_Subset
<1> QED
  BY <1>3, <1>4, PendingLoginAssumption DEF PendingLoginAssumption

\* A step of the request of r, with what the step itself has to show of it.
LEMMA SlotKeeps ==
    ASSUME PendingInv, TypeOK', NEW r \in Slots, OtherSlots(r), LoginsGrow,
           \A p \in Slots \ {r} : Redirecting(p) =>
               login[p] \notin sentTo' /\ (Redirecting(r)' => login'[r] # login[p]),
           stage'[r] = "callback" => login'[r] \in sentTo',
           stage'[r] = "answered" /\ ~Redirecting(r)' =>
               login'[r] \in sentTo' /\ cleared'[r] = {login'[r]},
           Redirecting(r)' => login'[r] \in begun' \ sentTo',
           EvictedOf(r)'
    PROVE  PendingInv'
<1>1. ASSUME NEW p \in Slots \ {r}
      PROVE  RequestOf(p)' /\ EvictedOf(p)'
  <2>1. /\ stage'[p] = stage[p] /\ login'[p] = login[p] /\ cleared'[p] = cleared[p]
        /\ Redirecting(p)' <=> Redirecting(p)
    BY DEF OtherSlots, Redirecting
  <2>2. \A other \in Slots \ {p} : Redirecting(p) /\ Redirecting(other)' => login'[other] # login[p]
    <3> SUFFICES ASSUME NEW other \in Slots \ {p}, Redirecting(p), Redirecting(other)'
                 PROVE  login'[other] # login[p]
      OBVIOUS
    <3>1. CASE other = r
      BY <3>1
    <3>2. CASE other # r
      BY <3>2 DEF OtherSlots, PendingInv, RequestInv, RequestOf, Redirecting
    <3> QED
      BY <3>1, <3>2
  <2>3. RequestOf(p)'
    BY <2>1, <2>2 DEF PendingInv, RequestInv, RequestOf, LoginsGrow
  <2>4. EvictedOf(p)'
    <3> SUFFICES ASSUME Redirecting(p), NEW l \in cleared[p], l \in genuine'
                 PROVE  Cardinality(Younger(l)') >= MaxPending
      BY <2>1 DEF EvictedOf
    <3>1. l \in begun /\ l \in genuine
      BY DEF PendingInv, TypeOK, LoginsGrow
    <3> QED
      BY <3>1, YoungerGrows DEF PendingInv, EvictedInv, EvictedOf
  <2> QED
    BY <2>3, <2>4
<1>2. RequestOf(r)'
  <2>1. \A other \in Slots \ {r} : Redirecting(r)' /\ Redirecting(other)' => login'[other] # login'[r]
    BY DEF OtherSlots, Redirecting
  <2> QED
    BY <2>1 DEF RequestOf
<1> QED
  BY <1>1, <1>2 DEF PendingInv, RequestInv, EvictedInv

\* A login that leaves the jar was delivered, has expired, or is old.
LEMMA LatestKept ==
    ASSUME PendingInv, TypeOK', LatestLoginsKept, LoginsGrow, time <= time',
           \A l \in (jar \cup delivered) \cap genuine :
               \/ l \in jar' \cup delivered'
               \/ time' - issuedAt[l] >= MaxAge
               \/ Cardinality(Younger(l)) >= MaxPending,
           sentTo' \ sentTo \subseteq jar'
    PROVE  LatestLoginsKept'
<1> SUFFICES ASSUME NEW l \in sentTo', l \in genuine'
             PROVE  \/ l \in jar' \cup delivered'
                    \/ time' - issuedAt'[l] >= MaxAge
                    \/ Cardinality(Younger(l)') >= MaxPending
  BY DEF LatestLoginsKept, Younger
<1>1. CASE l \notin sentTo
  BY <1>1
<1>2. CASE l \in sentTo
  <2>1. l \in begun /\ l \in genuine /\ issuedAt'[l] = issuedAt[l] /\ issuedAt[l] \in Nat
    BY <1>2 DEF PendingInv, TypeOK, LoginsGrow
  <2>2. \/ l \in jar \cup delivered
        \/ time - issuedAt[l] >= MaxAge
        \/ Cardinality(Younger(l)) >= MaxPending
    BY <1>2, <2>1 DEF LatestLoginsKept, Younger
  <2>3. time - issuedAt[l] >= MaxAge => time' - issuedAt[l] >= MaxAge
    BY <2>1, PendingLoginAssumption DEF PendingInv, TypeOK, PendingLoginAssumption
  <2>4. Cardinality(Younger(l)) >= MaxPending => Cardinality(Younger(l)') >= MaxPending
    BY <2>1, YoungerGrows DEF PendingInv
  <2> QED
    BY <2>1, <2>2, <2>3, <2>4
<1> QED
  BY <1>1, <1>2

-----------------------------------------------------------------------------
(* Its steps                                                               *)

LEMMA SendKeeps ==
    ASSUME PendingKept, NEW r \in Slots, NEW kind \in {"start", "callback"},
           NEW l \in Logins \cup {NoLogin}, NEW cookies \in SUBSET jar, Send(r, kind, l, cookies),
           kind = "callback" => l \in sentTo
    PROVE  PendingKept'
<1> USE DEF PendingKept
<1>1. /\ stage' = [stage EXCEPT ![r] = kind] /\ login' = [login EXCEPT ![r] = l]
      /\ carried' = [carried EXCEPT ![r] = cookies]
      /\ UNCHANGED <<time, issuedAt, begun, sentTo, genuine, delivered, jar, cleared, outcome>>
  BY DEF Send, logins
<1>2. TypeOK'
  BY <1>1 DEF PendingInv, TypeOK
<1>3. OtherSlots(r) /\ stage'[r] = kind /\ login'[r] = l /\ ~Redirecting(r)'
  BY <1>1 DEF PendingInv, TypeOK, OtherSlots, Redirecting
<1>4. LoginsGrow /\ EvictedOf(r)'
  BY <1>1, <1>3 DEF LoginsGrow, EvictedOf
<1>5. \A p \in Slots \ {r} : Redirecting(p) => login[p] \notin sentTo'
  BY <1>1 DEF PendingInv, RequestInv, RequestOf
<1>6. PendingInv'
  BY <1>1, <1>2, <1>3, <1>4, <1>5, SlotKeeps
<1>7. LatestLoginsKept' /\ DeliveredNotHeld'
  BY <1>1 DEF LatestLoginsKept, DeliveredNotHeld
<1> QED
  BY <1>6, <1>7

\* What a start clears leaves it MaxPending - 1, none of them older.
LEMMA EvictableLeaves ==
    ASSUME NEW held, IsFiniteSet(held), NEW evicted \in Evictable(held)
    PROVE  /\ evicted \subseteq held
           /\ Cardinality(held \ evicted) <= MaxPending - 1
           /\ evicted # {} => Cardinality(held \ evicted) = MaxPending - 1
           /\ \A gone \in evicted, kept \in held \ evicted : Rank(gone) <= Rank(kept)
<1>1. /\ evicted \subseteq held
      /\ Cardinality(evicted) =
             IF Cardinality(held) >= MaxPending THEN Cardinality(held) + 1 - MaxPending ELSE 0
      /\ \A gone \in evicted, kept \in held \ evicted : Rank(gone) <= Rank(kept)
  BY DEF Evictable
<1>2. MaxPending \in Nat \ {0} /\ Cardinality(held) \in Nat
  BY PendingLoginAssumption, FS_CardinalityType DEF PendingLoginAssumption
<1>3. IsFiniteSet(evicted) /\ Cardinality(evicted) \in Nat /\ held \cap evicted = evicted
  BY <1>1, FS_Subset, FS_CardinalityType
<1>4. Cardinality(held \ evicted) = Cardinality(held) - Cardinality(evicted)
  BY <1>3, FS_Difference
<1>5. evicted # {} => Cardinality(evicted) # 0
  BY <1>3, FS_EmptySet
<1> QED
  BY <1>1, <1>2, <1>3, <1>4, <1>5

LEMMA ServeStartKeeps ==
    ASSUME PendingKept, NEW r \in Slots, ServeStart(r)
    PROVE  PendingKept'
<1> USE DEF PendingKept
<1>1. /\ stage[r] = "start" /\ stage' = [stage EXCEPT ![r] = "answered"]
      /\ outcome' = [outcome EXCEPT ![r] = "redirected"] /\ carried' = [carried EXCEPT ![r] = {}]
      /\ UNCHANGED <<time, sentTo, delivered, jar>>
  BY DEF ServeStart
<1>2. PICK new \in Logins \ begun :
          /\ begun' = begun \cup {new} /\ genuine' = genuine \cup {new}
          /\ issuedAt' = [issuedAt EXCEPT ![new] = time]
          /\ login' = [login EXCEPT ![r] = new]
  BY DEF ServeStart
<1>3. PICK evicted \in Evictable(carried[r]) : cleared' = [cleared EXCEPT ![r] = evicted]
  BY DEF ServeStart
<1>4. carried[r] \subseteq begun /\ carried[r] \subseteq sentTo /\ IsFiniteSet(carried[r])
  BY FS_Subset, PendingLoginAssumption DEF PendingInv, TypeOK, PendingLoginAssumption
<1>5. /\ evicted \subseteq carried[r]
      /\ evicted # {} => Cardinality(carried[r] \ evicted) = MaxPending - 1
      /\ \A gone \in evicted, kept \in carried[r] \ evicted : Rank(gone) <= Rank(kept)
  BY <1>4, EvictableLeaves
<1>6. TypeOK'
  <2>1. \A l \in begun' : issuedAt'[l] <= time'
    BY <1>1, <1>2 DEF PendingInv, TypeOK
  <2>2. cleared' \in [Slots -> SUBSET sentTo'] /\ carried' \in [Slots -> SUBSET sentTo']
    BY <1>1, <1>3, <1>4, <1>5 DEF PendingInv, TypeOK
  <2> QED
    BY <1>1, <1>2, <2>1, <2>2 DEF PendingInv, TypeOK, Outcomes
<1>7. /\ OtherSlots(r) /\ stage'[r] = "answered" /\ login'[r] = new /\ cleared'[r] = evicted
      /\ Redirecting(r)'
  BY <1>1, <1>2, <1>3 DEF PendingInv, TypeOK, OtherSlots, Redirecting
<1>8. LoginsGrow
  BY <1>1, <1>2 DEF PendingInv, TypeOK, LoginsGrow
<1>9. \A p \in Slots \ {r} : Redirecting(p) => login[p] \notin sentTo' /\ new # login[p]
  BY <1>1, <1>2 DEF PendingInv, RequestInv, RequestOf
<1>10. EvictedOf(r)'
  <2> SUFFICES ASSUME NEW l \in evicted, l \in genuine'
               PROVE  Cardinality(Younger(l)') >= MaxPending
    BY <1>7 DEF EvictedOf
  <2>1. l \in begun /\ l \in genuine /\ l # new /\ issuedAt[l] \in Nat
    BY <1>2, <1>4, <1>5 DEF PendingInv, TypeOK
  <2>2. ASSUME NEW kept \in carried[r] \ evicted
        PROVE  issuedAt[kept] >= issuedAt[l]
    <3>1. Rank(l) <= Rank(kept)
      BY <1>5, <2>2
    <3>2. Rank(l) = issuedAt[l]
      BY <2>1 DEF Rank
    <3>3. issuedAt[kept] \in Nat /\ (kept \in genuine \/ Rank(kept) = -1)
      BY <1>4, <2>2 DEF PendingInv, TypeOK, Rank, Unranked
    <3>4. kept \in genuine
      BY <2>1, <3>1, <3>2, <3>3
    <3> QED
      BY <2>1, <3>1, <3>2, <3>4 DEF Rank
  <2>3. carried[r] \ evicted \subseteq Younger(l)'
    BY <1>2, <1>4, <2>1, <2>2 DEF Younger, PendingInv, TypeOK
  <2>4. new \in Younger(l)'
    BY <1>2, <2>1 DEF Younger, PendingInv, TypeOK
  <2>5. IsFiniteSet(Younger(l)')
    BY <1>6, FS_Subset, PendingLoginAssumption DEF Younger, TypeOK, PendingLoginAssumption
  <2>6. new \notin carried[r] \ evicted /\ IsFiniteSet(carried[r] \ evicted)
    BY <1>2, <1>4, FS_Subset
  <2>7. /\ Cardinality((carried[r] \ evicted) \cup {new}) = MaxPending - 1 + 1
        /\ (carried[r] \ evicted) \cup {new} \subseteq Younger(l)'
    BY <1>5, <2>3, <2>4, <2>6, FS_AddElement
  <2>8. Cardinality((carried[r] \ evicted) \cup {new}) <= Cardinality(Younger(l)')
    BY <2>5, <2>7, FS_Subset
  <2>9. Cardinality(Younger(l)') \in Nat
    BY <2>5, FS_CardinalityType
  <2> QED
    BY <2>7, <2>8, <2>9, PendingLoginAssumption DEF PendingLoginAssumption
<1>11. new \notin sentTo' /\ new \in begun'
  BY <1>1, <1>2 DEF PendingInv, TypeOK
<1>12. PendingInv'
  BY <1>6, <1>7, <1>8, <1>9, <1>10, <1>11, SlotKeeps
<1>13. time <= time'
  BY <1>1 DEF PendingInv, TypeOK
<1>14. LatestLoginsKept'
  BY <1>1, <1>6, <1>8, <1>13, LatestKept
<1>15. DeliveredNotHeld'
  BY <1>1 DEF DeliveredNotHeld
<1> QED
  BY <1>12, <1>14, <1>15

LEMMA ServeCallbackKeeps ==
    ASSUME PendingKept, NEW r \in Slots, ServeCallback(r)
    PROVE  PendingKept'
<1> USE DEF PendingKept
<1>1. /\ stage[r] = "callback" /\ stage' = [stage EXCEPT ![r] = "answered"]
      /\ cleared' = [cleared EXCEPT ![r] = {login[r]}] /\ carried' = [carried EXCEPT ![r] = {}]
      /\ UNCHANGED <<time, issuedAt, begun, sentTo, genuine, delivered, jar, login>>
  BY DEF ServeCallback, logins
<1>2. PICK verdict \in Outcomes \ {"redirected"} : outcome' = [outcome EXCEPT ![r] = verdict]
  BY DEF ServeCallback, Outcomes
<1>3. login[r] \in sentTo
  BY <1>1 DEF PendingInv, RequestInv, RequestOf
<1>4. TypeOK'
  BY <1>1, <1>2, <1>3 DEF PendingInv, TypeOK
<1>5. /\ OtherSlots(r) /\ stage'[r] = "answered" /\ login'[r] = login[r]
      /\ cleared'[r] = {login[r]} /\ ~Redirecting(r)'
  BY <1>1, <1>2 DEF PendingInv, TypeOK, OtherSlots, Redirecting
<1>6. LoginsGrow /\ EvictedOf(r)'
  BY <1>1, <1>5 DEF LoginsGrow, EvictedOf
<1>7. \A p \in Slots \ {r} : Redirecting(p) => login[p] \notin sentTo'
  BY <1>1 DEF PendingInv, RequestInv, RequestOf
<1>8. PendingInv'
  BY <1>1, <1>3, <1>4, <1>5, <1>6, <1>7, SlotKeeps
<1>9. LatestLoginsKept' /\ DeliveredNotHeld'
  BY <1>1 DEF LatestLoginsKept, DeliveredNotHeld
<1> QED
  BY <1>8, <1>9

\* The slot is free again, whether its answer arrived or not.
LEMMA FreeEffect ==
    ASSUME TypeOK, NEW r \in Slots, Free(r), sentTo \subseteq sentTo'
    PROVE  /\ OtherSlots(r) /\ stage'[r] = "free" /\ ~Redirecting(r)'
           /\ stage' \in [Slots -> {"free", "start", "callback", "answered"}]
           /\ login' \in [Slots -> Logins \cup {NoLogin}]
           /\ carried' \in [Slots -> SUBSET sentTo'] /\ cleared' \in [Slots -> SUBSET sentTo']
           /\ outcome' \in [Slots -> Outcomes]
<1>1. /\ stage' = [stage EXCEPT ![r] = "free"] /\ login' = [login EXCEPT ![r] = NoLogin]
      /\ carried' = [carried EXCEPT ![r] = {}] /\ cleared' = [cleared EXCEPT ![r] = {}]
      /\ outcome' = [outcome EXCEPT ![r] = "none"]
  BY DEF Free
<1> QED
  BY <1>1 DEF TypeOK, OtherSlots, Redirecting, Outcomes

LEMMA ReceiveKeeps ==
    ASSUME PendingKept, NEW r \in Slots, Receive(r)
    PROVE  PendingKept'
<1> USE DEF PendingKept
<1> DEFINE new == IF outcome[r] = "redirected" THEN {login[r]} ELSE {}
<1>1. /\ stage[r] = "answered" /\ Free(r) /\ UNCHANGED <<time, issuedAt, begun, genuine>>
      /\ jar' = (jar \ cleared[r]) \cup new /\ sentTo' = sentTo \cup new
      /\ delivered' = delivered \cup (IF new = {} THEN {login[r]} ELSE {})
  BY DEF Receive
<1>2. /\ outcome[r] = "redirected" => Redirecting(r)
      /\ outcome[r] # "redirected" => ~Redirecting(r)
  BY <1>1 DEF Redirecting
<1>3. /\ outcome[r] = "redirected" => login[r] \in begun \ sentTo
      /\ outcome[r] # "redirected" => login[r] \in sentTo /\ cleared[r] = {login[r]}
  BY <1>1, <1>2 DEF PendingInv, RequestInv, RequestOf
<1>4. /\ OtherSlots(r) /\ stage'[r] = "free" /\ ~Redirecting(r)'
      /\ stage' \in [Slots -> {"free", "start", "callback", "answered"}]
      /\ login' \in [Slots -> Logins \cup {NoLogin}]
      /\ carried' \in [Slots -> SUBSET sentTo'] /\ cleared' \in [Slots -> SUBSET sentTo']
      /\ outcome' \in [Slots -> Outcomes]
  BY <1>1, FreeEffect DEF PendingInv
<1>5. TypeOK'
  BY <1>1, <1>3, <1>4 DEF PendingInv, TypeOK
<1>6. LoginsGrow /\ EvictedOf(r)'
  BY <1>1, <1>4 DEF LoginsGrow, EvictedOf
<1>7. \A p \in Slots \ {r} : Redirecting(p) => login[p] \notin sentTo'
  BY <1>1, <1>2 DEF PendingInv, RequestInv, RequestOf
<1>8. PendingInv'
  BY <1>4, <1>5, <1>6, <1>7, SlotKeeps
<1>9. DeliveredNotHeld'
  BY <1>1, <1>3 DEF DeliveredNotHeld, PendingInv, TypeOK
<1>10. \A l \in (jar \cup delivered) \cap genuine :
          l \in jar' \cup delivered' \/ Cardinality(Younger(l)) >= MaxPending
  <2>1. CASE outcome[r] = "redirected"
    BY <1>1, <1>2, <2>1 DEF PendingInv, EvictedInv, EvictedOf
  <2>2. CASE outcome[r] # "redirected"
    BY <1>1, <1>3, <2>2
  <2> QED
    BY <2>1, <2>2
<1>11. time <= time' /\ sentTo' \ sentTo \subseteq jar'
  BY <1>1 DEF PendingInv, TypeOK
<1>12. LatestLoginsKept'
  BY <1>5, <1>6, <1>10, <1>11, LatestKept
<1> QED
  BY <1>8, <1>9, <1>12

LEMMA LoseAnswerKeeps ==
    ASSUME PendingKept, NEW r \in Slots, LoseAnswer(r)
    PROVE  PendingKept'
<1> USE DEF PendingKept
<1>1. Free(r) /\ UNCHANGED <<time, issuedAt, begun, sentTo, genuine, delivered, jar>>
  BY DEF LoseAnswer, logins
<1>2. /\ OtherSlots(r) /\ stage'[r] = "free" /\ ~Redirecting(r)'
      /\ stage' \in [Slots -> {"free", "start", "callback", "answered"}]
      /\ login' \in [Slots -> Logins \cup {NoLogin}]
      /\ carried' \in [Slots -> SUBSET sentTo'] /\ cleared' \in [Slots -> SUBSET sentTo']
      /\ outcome' \in [Slots -> Outcomes]
  BY <1>1, FreeEffect DEF PendingInv
<1>3. TypeOK'
  BY <1>1, <1>2 DEF PendingInv, TypeOK
<1>4. LoginsGrow /\ EvictedOf(r)'
  BY <1>1, <1>2 DEF LoginsGrow, EvictedOf
<1>5. \A p \in Slots \ {r} : Redirecting(p) => login[p] \notin sentTo'
  BY <1>1 DEF PendingInv, RequestInv, RequestOf
<1>6. PendingInv'
  BY <1>2, <1>3, <1>4, <1>5, SlotKeeps
<1>7. LatestLoginsKept' /\ DeliveredNotHeld'
  BY <1>1 DEF LatestLoginsKept, DeliveredNotHeld
<1> QED
  BY <1>6, <1>7

\* Beside the requests: time, expired cookies, another key.
LEMMA BesideKeeps ==
    ASSUME PendingKept, Expire \/ Rekey \/ Tick \/ UNCHANGED vars
    PROVE  PendingKept'
<1> USE DEF PendingKept
<1>1. UNCHANGED <<issuedAt, begun, sentTo, delivered, stage, login, carried, cleared, outcome>>
  BY DEF Expire, Rekey, Tick, vars, logins, requests
<1>2. /\ time \in Nat /\ time' \in Nat /\ time <= time' /\ genuine' \subseteq genuine
      /\ jar' \subseteq jar
      /\ \A l \in jar : l \in jar' \/ time' - issuedAt[l] >= MaxAge
  BY DEF PendingInv, TypeOK, Expire, Rekey, Tick, vars, logins, requests
<1>3. TypeOK'
  BY <1>1, <1>2 DEF PendingInv, TypeOK
<1>4. RequestInv' /\ EvictedInv'
  BY <1>1, <1>2 DEF PendingInv, RequestInv, RequestOf, EvictedInv, EvictedOf, Redirecting, Younger
<1>5. LoginsGrow
  BY <1>1, <1>2 DEF LoginsGrow
<1>6. LatestLoginsKept'
  BY <1>1, <1>2, <1>3, <1>5, LatestKept
<1>7. DeliveredNotHeld'
  BY <1>1, <1>2 DEF DeliveredNotHeld
<1> QED
  BY <1>3, <1>4, <1>6, <1>7 DEF PendingInv

LEMMA InitKept == Init => PendingKept
<1> SUFFICES ASSUME Init PROVE PendingKept
  OBVIOUS
<1>1. TypeOK
  BY DEF Init, TypeOK, Outcomes
<1>2. RequestInv /\ EvictedInv
  BY DEF Init, RequestInv, RequestOf, EvictedInv, EvictedOf, Redirecting
<1>3. LatestLoginsKept /\ DeliveredNotHeld
  BY DEF Init, LatestLoginsKept, DeliveredNotHeld
<1> QED
  BY <1>1, <1>2, <1>3 DEF PendingKept, PendingInv

LEMMA StepKept ==
    ASSUME PendingKept, [Next]_vars
    PROVE  PendingKept'
<1>1. ASSUME NEW r \in Slots, SendStart(r) PROVE PendingKept'
  BY <1>1, SendKeeps DEF SendStart
<1>2. ASSUME NEW r \in Slots, SendCallback(r) PROVE PendingKept'
  <2>1. PICK l \in sentTo : Send(r, "callback", l, jar \cap {l})
    BY <1>2 DEF SendCallback
  <2>2. l \in Logins \cup {NoLogin} /\ jar \cap {l} \in SUBSET jar
    BY DEF PendingKept, PendingInv, TypeOK
  <2> QED
    BY <1>2, <2>1, <2>2, SendKeeps
<1> QED
  BY <1>1, <1>2, ServeStartKeeps, ServeCallbackKeeps, ReceiveKeeps, LoseAnswerKeeps, BesideKeeps
  DEF Next

LEMMA PendingInvariance == Spec => []PendingKept
  BY InitKept, StepKept, PTL DEF Spec

\* An answer that began a login can only be that login's first, so no answer that
\* arrives late puts a cookie back that a callback's answer took away (_RouteAnswer).
THEOREM PendingLogin_DeliveredNotHeld == Spec => []DeliveredNotHeld
  BY PendingInvariance, PTL DEF PendingKept

\* However many requests are open, whatever answers are lost and whichever key the host
\* has, _pending_login_cookies_to_evict takes no login that fewer than MaxPending
\* others are at least as young as.
THEOREM PendingLogin_LatestLoginsKept == Spec => []LatestLoginsKept
  BY PendingInvariance, PTL DEF PendingKept

-----------------------------------------------------------------------------
(* The number of cookies                                                   *)

\* A start from its sending until its answer is received or lost.
OpenStart(r) == stage[r] = "start" \/ Redirecting(r)

Before(ord, i) == {p \in Slots : OpenStart(p) /\ ord[p] < i}

\* What a start still knows of the jar it was sent with: what is not of that jar came
\* from starts sent before it, each of which adds one login and is then gone.
StartOf(r, ord, held) ==
    /\ stage[r] = "start" => held[r] = carried[r]
    /\ Redirecting(r) => Cardinality(held[r] \ cleared[r]) <= MaxPending - 1
    /\ \A p \in Slots \ {r} : OpenStart(p) => ord[p] # ord[r]
    /\ Cardinality(jar \ held[r]) + Cardinality(Before(ord, ord[r])) <= Cardinality(Slots) - 1

\* ord is the order in which the open starts were sent, 0 for those sent before
\* the youngest start that has been received; base is what that one left in the jar,
\* and held[r] is the jar r was sent with.
Counts(base, ord, next, held) ==
    /\ Cardinality(base) <= MaxPending - 1
    /\ Cardinality(jar \ base) + Cardinality(Before(ord, 1)) <= Cardinality(Slots)
    /\ next # 0 /\ \A r \in Slots : ord[r] < next
    /\ \A r \in Slots : OpenStart(r) /\ ord[r] # 0 => StartOf(r, ord, held)

JarInv ==
    \E base \in SUBSET Logins, ord \in [Slots -> Nat], next \in Nat, held \in [Slots -> SUBSET Logins] :
        Counts(base, ord, next, held)

LEMMA Smaller ==
    ASSUME NEW S, NEW T, IsFiniteSet(T), S \subseteq T
    PROVE  IsFiniteSet(S) /\ Cardinality(S) \in Nat /\ Cardinality(T) \in Nat
           /\ Cardinality(S) <= Cardinality(T)
  BY FS_Subset, FS_CardinalityType

LEMMA JarFinite ==
    ASSUME TypeOK
    PROVE  /\ IsFiniteSet(jar) /\ Cardinality(jar) \in Nat /\ IsFiniteSet(Slots)
           /\ Cardinality(Slots) \in Nat /\ MaxPending \in Nat \ {0}
           /\ \A S : IsFiniteSet(jar \ S) /\ Cardinality(jar \ S) \in Nat
           /\ \A S \in SUBSET Slots : IsFiniteSet(S) /\ Cardinality(S) \in Nat
           /\ \A S \in SUBSET Logins : IsFiniteSet(S) /\ Cardinality(S) \in Nat
<1>1. /\ IsFiniteSet(Logins) /\ IsFiniteSet(Slots) /\ MaxPending \in Nat \ {0}
  BY PendingLoginAssumption DEF PendingLoginAssumption
<1>2. jar \subseteq Logins
  BY DEF TypeOK
<1> QED
  BY <1>1, <1>2, FS_Subset, FS_CardinalityType

LEMMA CountsBoundJar ==
    ASSUME TypeOK, JarInv
    PROVE  JarBounded
<1>1. PICK base \in SUBSET Logins, ord \in [Slots -> Nat], next \in Nat,
           held \in [Slots -> SUBSET Logins] : Counts(base, ord, next, held)
  BY DEF JarInv
<1>2. /\ IsFiniteSet(jar) /\ Cardinality(jar) \in Nat /\ Cardinality(Slots) \in Nat
      /\ MaxPending \in Nat \ {0} /\ IsFiniteSet(base) /\ Cardinality(base) \in Nat
      /\ Cardinality(jar \ base) \in Nat /\ Cardinality(Before(ord, 1)) \in Nat
  BY JarFinite DEF Before
<1>3. Cardinality(jar \ base) = Cardinality(jar) - Cardinality(jar \cap base)
  BY <1>2, FS_Difference
<1>4. Cardinality(jar \cap base) \in Nat /\ Cardinality(jar \cap base) <= Cardinality(base)
  BY <1>2, Smaller
<1>5. /\ Cardinality(base) <= MaxPending - 1
      /\ Cardinality(jar \ base) + Cardinality(Before(ord, 1)) <= Cardinality(Slots)
  BY <1>1 DEF Counts
<1> QED
  BY <1>2, <1>3, <1>4, <1>5 DEF JarBounded

\* A step that adds nothing to the jar and opens no start.
LEMMA JarShrinks ==
    ASSUME TypeOK, TypeOK', JarInv, jar' \subseteq jar,
           \A r \in Slots : OpenStart(r)' => OpenStart(r),
           \A r \in Slots : stage'[r] = "start" => stage[r] = "start" /\ carried'[r] = carried[r],
           \A r \in Slots : Redirecting(r)' =>
               \/ Redirecting(r) /\ cleared'[r] = cleared[r]
               \/ stage[r] = "start" /\ Cardinality(carried[r] \ cleared'[r]) <= MaxPending - 1
    PROVE  JarInv'
<1>1. PICK base \in SUBSET Logins, ord \in [Slots -> Nat], next \in Nat,
           held \in [Slots -> SUBSET Logins] : Counts(base, ord, next, held)
  BY DEF JarInv
<1>2. ASSUME NEW S, NEW i
      PROVE  /\ Cardinality(jar' \ S) \in Nat /\ Cardinality(jar \ S) \in Nat
             /\ Cardinality(jar' \ S) <= Cardinality(jar \ S)
             /\ Cardinality(Before(ord, i)') \in Nat /\ Cardinality(Before(ord, i)) \in Nat
             /\ Cardinality(Before(ord, i)') <= Cardinality(Before(ord, i))
  <2>1. jar' \ S \subseteq jar \ S /\ IsFiniteSet(jar \ S)
    BY JarFinite
  <2>2. Before(ord, i)' \subseteq Before(ord, i) /\ IsFiniteSet(Before(ord, i))
    BY JarFinite DEF Before
  <2> QED
    BY <2>1, <2>2, Smaller
<1>3. Cardinality(Slots) \in Nat
  BY JarFinite
<1>4. Cardinality(jar' \ base) + Cardinality(Before(ord, 1)') <= Cardinality(Slots)
  <2>1. /\ Cardinality(jar' \ base) \in Nat /\ Cardinality(jar \ base) \in Nat
        /\ Cardinality(jar' \ base) <= Cardinality(jar \ base)
        /\ Cardinality(Before(ord, 1)') \in Nat /\ Cardinality(Before(ord, 1)) \in Nat
        /\ Cardinality(Before(ord, 1)') <= Cardinality(Before(ord, 1))
    BY <1>2
  <2>2. Cardinality(jar \ base) + Cardinality(Before(ord, 1)) <= Cardinality(Slots)
    BY <1>1 DEF Counts
  <2> QED
    BY <1>3, <2>1, <2>2
<1>5. ASSUME NEW r \in Slots, OpenStart(r)', ord[r] # 0
      PROVE  StartOf(r, ord, held)'
  <2>1. StartOf(r, ord, held)
    BY <1>1, <1>5 DEF Counts
  <2>2. stage'[r] = "start" => held[r] = carried'[r]
    BY <2>1 DEF StartOf
  <2>3. Redirecting(r)' => Cardinality(held[r] \ cleared'[r]) <= MaxPending - 1
    BY <2>1 DEF StartOf
  <2>4. \A p \in Slots \ {r} : OpenStart(p)' => ord[p] # ord[r]
    BY <2>1 DEF StartOf
  <2>5. Cardinality(jar' \ held[r]) + Cardinality(Before(ord, ord[r])') <= Cardinality(Slots) - 1
    <3>1. /\ Cardinality(jar' \ held[r]) \in Nat /\ Cardinality(jar \ held[r]) \in Nat
          /\ Cardinality(jar' \ held[r]) <= Cardinality(jar \ held[r])
          /\ Cardinality(Before(ord, ord[r])') \in Nat /\ Cardinality(Before(ord, ord[r])) \in Nat
          /\ Cardinality(Before(ord, ord[r])') <= Cardinality(Before(ord, ord[r]))
      BY <1>2
    <3>2. Cardinality(jar \ held[r]) + Cardinality(Before(ord, ord[r])) <= Cardinality(Slots) - 1
      BY <2>1 DEF StartOf
    <3> QED
      BY <1>3, <3>1, <3>2
  <2> QED
    BY <2>2, <2>3, <2>4, <2>5 DEF StartOf
<1>6. Counts(base, ord, next, held)'
  BY <1>1, <1>4, <1>5 DEF Counts
<1> QED
  BY <1>6 DEF JarInv

\* A start is sent with the jar as it is: every other open start was sent before it.
LEMMA JarAtSend ==
    ASSUME TypeOK, TypeOK', JarInv, NEW r \in Slots, ~OpenStart(r), OtherSlots(r),
           stage'[r] = "start", carried'[r] = jar, jar' = jar
    PROVE  JarInv'
<1>1. PICK base \in SUBSET Logins, ord \in [Slots -> Nat], next \in Nat,
           held \in [Slots -> SUBSET Logins] : Counts(base, ord, next, held)
  BY DEF JarInv
<1>newOrd. PICK newOrd \in [Slots -> Nat] : newOrd = [ord EXCEPT ![r] = next]
  OBVIOUS
<1>newHeld. PICK newHeld \in [Slots -> SUBSET Logins] : newHeld = [held EXCEPT ![r] = jar]
  BY DEF TypeOK
<1>2. /\ next # 0 /\ \A p \in Slots : ord[p] < next
      /\ Cardinality(base) <= MaxPending - 1
      /\ Cardinality(jar \ base) + Cardinality(Before(ord, 1)) <= Cardinality(Slots)
  BY <1>1 DEF Counts
<1>3. /\ newOrd[r] = next /\ newHeld[r] = jar
      /\ \A p \in Slots \ {r} : newOrd[p] = ord[p] /\ newHeld[p] = held[p]
  BY <1>newOrd, <1>newHeld
<1>4. /\ OpenStart(r)' /\ ~Redirecting(r)'
      /\ \A p \in Slots \ {r} : /\ OpenStart(p)' <=> OpenStart(p)
                                /\ Redirecting(p)' <=> Redirecting(p)
  BY DEF OpenStart, OtherSlots, Redirecting
<1>5. ASSUME NEW i \in Nat, i <= next
      PROVE  Before(newOrd, i)' = Before(ord, i)
  <2> SUFFICES ASSUME NEW p \in Slots
               PROVE  OpenStart(p)' /\ newOrd[p] < i <=> OpenStart(p) /\ ord[p] < i
    BY DEF Before
  <2>1. CASE p = r
    BY <1>3, <1>5, <2>1
  <2>2. CASE p # r
    BY <1>3, <1>4, <2>2
  <2> QED
    BY <2>1, <2>2
<1>6. Before(newOrd, 1)' = Before(ord, 1)
  BY <1>2, <1>5
<1>7. StartOf(r, newOrd, newHeld)'
  <2>1. \A p \in Slots \ {r} : newOrd[p] # newOrd[r]
    BY <1>2, <1>3
  <2>2. Before(newOrd, next)' = Before(ord, next)
    BY <1>5
  <2>3. Before(ord, next) \subseteq Slots \ {r}
    BY DEF Before
  <2>4. IsFiniteSet(Slots \ {r}) /\ Cardinality(Slots \ {r}) = Cardinality(Slots) - 1
    BY JarFinite, FS_RemoveElement
  <2>5. /\ Cardinality(Before(ord, next)) \in Nat
        /\ Cardinality(Before(ord, next)) <= Cardinality(Slots) - 1
    BY <2>3, <2>4, Smaller
  <2>6. jar' \ newHeld[r] = {}
    BY <1>3
  <2>7. Cardinality(jar' \ newHeld[r]) = 0
    BY <2>6, FS_EmptySet
  <2>8. Cardinality(jar' \ newHeld[r]) + Cardinality(Before(newOrd, newOrd[r])') <= Cardinality(Slots) - 1
    BY <1>3, <2>2, <2>5, <2>7
  <2> QED
    BY <1>3, <1>4, <2>1, <2>8 DEF StartOf
<1>8. ASSUME NEW p \in Slots \ {r}, OpenStart(p)', newOrd[p] # 0
      PROVE  StartOf(p, newOrd, newHeld)'
  <2>1. StartOf(p, ord, held)
    BY <1>1, <1>3, <1>4, <1>8 DEF Counts
  <2>2. stage'[p] = stage[p] /\ carried'[p] = carried[p] /\ cleared'[p] = cleared[p]
    BY DEF OtherSlots
  <2>3. Before(newOrd, newOrd[p])' = Before(ord, ord[p])
    BY <1>2, <1>3, <1>5
  <2>4. \A q \in Slots \ {p} : OpenStart(q)' => newOrd[q] # newOrd[p]
    <3> SUFFICES ASSUME NEW q \in Slots \ {p}, OpenStart(q)' PROVE newOrd[q] # newOrd[p]
      OBVIOUS
    <3>1. CASE q = r
      BY <1>2, <1>3, <3>1
    <3>2. CASE q # r
      BY <1>3, <1>4, <2>1, <3>2 DEF StartOf
    <3> QED
      BY <3>1, <3>2
  <2> QED
    BY <1>3, <1>4, <2>1, <2>2, <2>3, <2>4 DEF StartOf
<1>9. next + 1 \in Nat /\ next + 1 # 0 /\ \A p \in Slots : newOrd[p] < next + 1
  <2> SUFFICES ASSUME NEW p \in Slots PROVE newOrd[p] < next + 1
    BY <1>2
  <2>1. ord[p] \in Nat /\ ord[p] < next
    BY <1>2
  <2> QED
    BY <1>3, <2>1
<1>10. Counts(base, newOrd, next + 1, newHeld)'
  BY <1>2, <1>6, <1>7, <1>8, <1>9 DEF Counts
<1> QED
  BY <1>3, <1>9, <1>10 DEF JarInv

\* An answer that arrives adds one login, and its start is no longer open.
LEMMA OneMore ==
    ASSUME NEW S, NEW T, NEW l, IsFiniteSet(T), S \subseteq T \cup {l}
    PROVE  Cardinality(S) \in Nat /\ Cardinality(T) \in Nat /\ Cardinality(S) <= Cardinality(T) + 1
<1>1. /\ IsFiniteSet(T \cup {l})
      /\ Cardinality(T \cup {l}) = IF l \in T THEN Cardinality(T) ELSE Cardinality(T) + 1
  BY FS_AddElement
<1>2. Cardinality(T) \in Nat
  BY FS_CardinalityType
<1>3. /\ Cardinality(S) \in Nat /\ Cardinality(T \cup {l}) \in Nat
      /\ Cardinality(S) <= Cardinality(T \cup {l})
  BY <1>1, Smaller
<1> QED
  BY <1>1, <1>2, <1>3

LEMMA OneLess ==
    ASSUME NEW S, NEW T, NEW r, IsFiniteSet(T), r \in T, S \subseteq T \ {r}
    PROVE  Cardinality(S) \in Nat /\ Cardinality(T) \in Nat /\ Cardinality(S) <= Cardinality(T) - 1
<1>1. IsFiniteSet(T \ {r}) /\ Cardinality(T \ {r}) = Cardinality(T) - 1
  BY FS_RemoveElement
<1>2. Cardinality(T) \in Nat
  BY FS_CardinalityType
<1>3. Cardinality(S) \in Nat /\ Cardinality(S) <= Cardinality(T \ {r})
  BY <1>1, Smaller
<1> QED
  BY <1>1, <1>2, <1>3

LEMMA JarAtReceive ==
    ASSUME TypeOK, TypeOK', JarInv, NEW r \in Slots, Redirecting(r), OtherSlots(r),
           ~OpenStart(r)', jar' = (jar \ cleared[r]) \cup {login[r]}
    PROVE  JarInv'
<1>1. PICK base \in SUBSET Logins, ord \in [Slots -> Nat], next \in Nat,
           held \in [Slots -> SUBSET Logins] : Counts(base, ord, next, held)
  BY DEF JarInv
<1>2. /\ next # 0 /\ \A p \in Slots : ord[p] \in Nat /\ ord[p] < next
      /\ Cardinality(base) <= MaxPending - 1
      /\ Cardinality(jar \ base) + Cardinality(Before(ord, 1)) <= Cardinality(Slots)
      /\ \A p \in Slots : OpenStart(p) /\ ord[p] # 0 => StartOf(p, ord, held)
  BY <1>1 DEF Counts
<1>3. /\ OpenStart(r)
      /\ \A p \in Slots \ {r} : /\ OpenStart(p)' <=> OpenStart(p)
                                /\ Redirecting(p)' <=> Redirecting(p)
                                /\ stage'[p] = stage[p] /\ carried'[p] = carried[p]
                                /\ cleared'[p] = cleared[p]
  BY DEF OpenStart, OtherSlots, Redirecting
<1>4. /\ Cardinality(Slots) \in Nat
      /\ \A S : IsFiniteSet(jar \ S) /\ \A i : IsFiniteSet(Before(ord, i))
  BY JarFinite DEF Before
<1>5. CASE ord[r] = 0
  <2>1. \A i \in Nat \ {0} : r \in Before(ord, i) /\ Before(ord, i)' \subseteq Before(ord, i) \ {r}
    BY <1>3, <1>5 DEF Before
  <2>2. \A S : jar' \ S \subseteq (jar \ S) \cup {login[r]}
    OBVIOUS
  <2>3. Cardinality(jar' \ base) + Cardinality(Before(ord, 1)') <= Cardinality(Slots)
    <3>1. /\ Cardinality(jar' \ base) \in Nat /\ Cardinality(jar \ base) \in Nat
          /\ Cardinality(jar' \ base) <= Cardinality(jar \ base) + 1
      BY <1>4, <2>2, OneMore
    <3>2. /\ Cardinality(Before(ord, 1)') \in Nat /\ Cardinality(Before(ord, 1)) \in Nat
          /\ Cardinality(Before(ord, 1)') <= Cardinality(Before(ord, 1)) - 1
      <4>1. r \in Before(ord, 1) /\ Before(ord, 1)' \subseteq Before(ord, 1) \ {r}
        BY <2>1
      <4> QED
        BY <1>4, <4>1, OneLess
    <3> QED
      BY <1>2, <1>4, <3>1, <3>2
  <2>4. ASSUME NEW p \in Slots, OpenStart(p)', ord[p] # 0
        PROVE  StartOf(p, ord, held)'
    <3>1. p # r /\ StartOf(p, ord, held)
      BY <1>2, <1>3, <1>5, <2>4
    <3>2. Cardinality(jar' \ held[p]) + Cardinality(Before(ord, ord[p])') <= Cardinality(Slots) - 1
      <4>1. Cardinality(jar \ held[p]) + Cardinality(Before(ord, ord[p])) <= Cardinality(Slots) - 1
        BY <3>1 DEF StartOf
      <4>2. r \in Before(ord, ord[p]) /\ Before(ord, ord[p])' \subseteq Before(ord, ord[p]) \ {r}
        BY <1>2, <2>1, <2>4
      <4>3. /\ Cardinality(jar' \ held[p]) \in Nat /\ Cardinality(jar \ held[p]) \in Nat
            /\ Cardinality(jar' \ held[p]) <= Cardinality(jar \ held[p]) + 1
        BY <1>4, <2>2, OneMore
      <4>4. /\ Cardinality(Before(ord, ord[p])') \in Nat /\ Cardinality(Before(ord, ord[p])) \in Nat
            /\ Cardinality(Before(ord, ord[p])') <= Cardinality(Before(ord, ord[p])) - 1
        BY <1>4, <4>2, OneLess
      <4> QED
        BY <1>4, <4>1, <4>3, <4>4
    <3>3. \A q \in Slots \ {p} : OpenStart(q)' => ord[q] # ord[p]
      BY <1>3, <3>1 DEF StartOf
    <3> QED
      BY <1>3, <3>1, <3>2, <3>3 DEF StartOf
  <2>5. Counts(base, ord, next, held)'
    BY <1>2, <2>3, <2>4 DEF Counts
  <2> QED
    BY <2>5 DEF JarInv
<1>6. CASE ord[r] # 0
  <2>left. PICK left : left = held[r] \ cleared[r]
    OBVIOUS
  <2>since. PICK since : since = [p \in Slots |-> IF ord[p] < ord[r] THEN 0 ELSE ord[p]]
    OBVIOUS
  <2>1. StartOf(r, ord, held)
    BY <1>2, <1>3, <1>6
  <2>2. left \in SUBSET Logins /\ Cardinality(left) <= MaxPending - 1
    BY <2>1, <2>left DEF StartOf
  <2>3. /\ since \in [Slots -> Nat]
        /\ \A p \in Slots : since[p] < next /\ (since[p] = 0 \/ since[p] = ord[p])
        /\ \A p \in Slots : since[p] = 0 <=> ord[p] < ord[r]
    BY <1>2, <1>6, <2>since
  <2>4. Before(since, 1)' \subseteq Before(ord, ord[r])
    BY <1>3, <2>3 DEF Before
  <2>5. Cardinality(jar' \ left) + Cardinality(Before(since, 1)') <= Cardinality(Slots)
    <3>1. jar' \ left \subseteq (jar \ held[r]) \cup {login[r]}
      BY <2>left
    <3>2. /\ Cardinality(jar' \ left) \in Nat /\ Cardinality(jar \ held[r]) \in Nat
          /\ Cardinality(jar' \ left) <= Cardinality(jar \ held[r]) + 1
      BY <1>4, <3>1, OneMore
    <3>3. /\ Cardinality(Before(since, 1)') \in Nat /\ Cardinality(Before(ord, ord[r])) \in Nat
          /\ Cardinality(Before(since, 1)') <= Cardinality(Before(ord, ord[r]))
      BY <1>4, <2>4, Smaller
    <3>4. Cardinality(jar \ held[r]) + Cardinality(Before(ord, ord[r])) <= Cardinality(Slots) - 1
      BY <2>1 DEF StartOf
    <3> QED
      BY <1>4, <3>2, <3>3, <3>4
  <2>6. ASSUME NEW p \in Slots, OpenStart(p)', since[p] # 0
        PROVE  StartOf(p, since, held)'
    <3>1. p # r /\ OpenStart(p) /\ ord[p] # ord[r]
      BY <1>3, <2>1, <2>6 DEF StartOf
    <3>2. ord[r] < ord[p] /\ since[p] = ord[p] /\ ord[p] # 0
      BY <1>2, <2>3, <2>6, <3>1
    <3>3. StartOf(p, ord, held)
      BY <1>2, <3>1, <3>2
    <3>4. r \in Before(ord, ord[p]) /\ Before(since, since[p])' \subseteq Before(ord, ord[p]) \ {r}
      <4>1. r \in Before(ord, ord[p])
        BY <1>3, <3>2 DEF Before
      <4>2. ASSUME NEW q \in Slots, OpenStart(q)', since[q] < since[p]
            PROVE  q # r /\ OpenStart(q) /\ ord[q] < ord[p]
        <5>1. q # r /\ OpenStart(q)
          BY <1>3, <4>2
        <5>2. ord[q] < ord[r] \/ since[q] = ord[q]
          BY <2>3
        <5>3. ord[q] \in Nat /\ ord[p] \in Nat /\ ord[r] \in Nat
          BY <1>2
        <5> QED
          BY <3>2, <4>2, <5>1, <5>2, <5>3
      <4> QED
        BY <4>1, <4>2 DEF Before
    <3>5. Cardinality(jar' \ held[p]) + Cardinality(Before(since, since[p])') <= Cardinality(Slots) - 1
      <4>1. Cardinality(jar \ held[p]) + Cardinality(Before(ord, ord[p])) <= Cardinality(Slots) - 1
        BY <3>3 DEF StartOf
      <4>2. jar' \ held[p] \subseteq (jar \ held[p]) \cup {login[r]}
        OBVIOUS
      <4>3. /\ Cardinality(jar' \ held[p]) \in Nat /\ Cardinality(jar \ held[p]) \in Nat
            /\ Cardinality(jar' \ held[p]) <= Cardinality(jar \ held[p]) + 1
        BY <1>4, <4>2, OneMore
      <4>4. /\ Cardinality(Before(since, since[p])') \in Nat /\ Cardinality(Before(ord, ord[p])) \in Nat
            /\ Cardinality(Before(since, since[p])') <= Cardinality(Before(ord, ord[p])) - 1
        BY <1>4, <3>4, OneLess
      <4> QED
        BY <1>4, <4>1, <4>3, <4>4
    <3>6. \A q \in Slots \ {p} : OpenStart(q)' => since[q] # since[p]
      BY <1>3, <2>3, <2>6, <3>2, <3>3 DEF StartOf
    <3> QED
      BY <1>3, <3>1, <3>2, <3>3, <3>5, <3>6 DEF StartOf
  <2>7. Counts(left, since, next, held)'
    BY <1>2, <2>2, <2>3, <2>5, <2>6 DEF Counts
  <2> QED
    BY <2>2, <2>3, <2>7 DEF JarInv
<1> QED
  BY <1>5, <1>6

LEMMA StepCounts ==
    ASSUME PendingKept, PendingKept', JarInv, [Next]_vars
    PROVE  JarInv'
<1>1. TypeOK /\ TypeOK'
  BY DEF PendingKept, PendingInv
<1>2. ASSUME NEW r \in Slots, SendStart(r) PROVE JarInv'
  <2>1. /\ stage[r] = "free" /\ stage' = [stage EXCEPT ![r] = "start"] /\ jar' = jar
        /\ login' = [login EXCEPT ![r] = NoLogin] /\ carried' = [carried EXCEPT ![r] = jar]
        /\ UNCHANGED <<cleared, outcome>>
    BY <1>2 DEF SendStart, Send
  <2>2. ~OpenStart(r) /\ OtherSlots(r) /\ stage'[r] = "start" /\ carried'[r] = jar
    BY <1>1, <2>1 DEF TypeOK, OpenStart, Redirecting, OtherSlots
  <2> QED
    BY <1>1, <2>1, <2>2, JarAtSend
<1>3. ASSUME NEW r \in Slots, SendCallback(r) PROVE JarInv'
  <2>1. /\ stage[r] = "free" /\ stage' = [stage EXCEPT ![r] = "callback"]
        /\ UNCHANGED <<jar, cleared, outcome>>
        /\ \E cookies : carried' = [carried EXCEPT ![r] = cookies]
    BY <1>3 DEF SendCallback, Send
  <2>2. \A p \in Slots :
          /\ OpenStart(p)' => OpenStart(p)
          /\ stage'[p] = "start" => stage[p] = "start" /\ carried'[p] = carried[p]
          /\ Redirecting(p)' => Redirecting(p) /\ cleared'[p] = cleared[p]
    BY <1>1, <2>1 DEF TypeOK, OpenStart, Redirecting
  <2> QED
    BY <1>1, <2>1, <2>2, JarShrinks
<1>4. ASSUME NEW r \in Slots, ServeStart(r) PROVE JarInv'
  <2>1. /\ stage[r] = "start" /\ stage' = [stage EXCEPT ![r] = "answered"]
        /\ outcome' = [outcome EXCEPT ![r] = "redirected"] /\ carried' = [carried EXCEPT ![r] = {}]
        /\ jar' = jar
    BY <1>4 DEF ServeStart
  <2>2. PICK evicted \in Evictable(carried[r]) : cleared' = [cleared EXCEPT ![r] = evicted]
    BY <1>4 DEF ServeStart
  <2>3. IsFiniteSet(carried[r])
    BY <1>1, FS_Subset, PendingLoginAssumption DEF TypeOK, PendingLoginAssumption
  <2>4. Cardinality(carried[r] \ evicted) <= MaxPending - 1
    BY <2>3, EvictableLeaves
  <2>5. \A p \in Slots :
          /\ OpenStart(p)' => OpenStart(p)
          /\ stage'[p] = "start" => stage[p] = "start" /\ carried'[p] = carried[p]
          /\ p # r => (Redirecting(p)' => Redirecting(p) /\ cleared'[p] = cleared[p])
    BY <1>1, <2>1, <2>2 DEF TypeOK, OpenStart, Redirecting
  <2>6. stage[r] = "start" /\ Cardinality(carried[r] \ cleared'[r]) <= MaxPending - 1
    BY <1>1, <2>1, <2>2, <2>4 DEF TypeOK
  <2> QED
    BY <1>1, <2>1, <2>5, <2>6, JarShrinks
<1>5. ASSUME NEW r \in Slots, ServeCallback(r) PROVE JarInv'
  <2>1. /\ stage[r] = "callback" /\ stage' = [stage EXCEPT ![r] = "answered"]
        /\ carried' = [carried EXCEPT ![r] = {}] /\ cleared' = [cleared EXCEPT ![r] = {login[r]}]
        /\ jar' = jar
    BY <1>5 DEF ServeCallback
  <2>2. PICK verdict \in Outcomes \ {"redirected"} : outcome' = [outcome EXCEPT ![r] = verdict]
    BY <1>5 DEF ServeCallback, Outcomes
  <2>3. \A p \in Slots :
          /\ OpenStart(p)' => OpenStart(p)
          /\ stage'[p] = "start" => stage[p] = "start" /\ carried'[p] = carried[p]
          /\ Redirecting(p)' => Redirecting(p) /\ cleared'[p] = cleared[p]
    BY <1>1, <2>1, <2>2 DEF TypeOK, OpenStart, Redirecting
  <2> QED
    BY <1>1, <2>1, <2>3, JarShrinks
<1>6. ASSUME NEW r \in Slots, Receive(r) \/ LoseAnswer(r) PROVE JarInv'
  <2>1. Free(r) /\ stage[r] = "answered" /\ sentTo \subseteq sentTo'
    BY <1>6 DEF Receive, LoseAnswer, logins
  <2>2. OtherSlots(r) /\ stage'[r] = "free" /\ ~Redirecting(r)'
    BY <1>1, <2>1, FreeEffect
  <2>3. CASE Receive(r) /\ outcome[r] = "redirected"
    <3>1. Redirecting(r) /\ ~OpenStart(r)' /\ jar' = (jar \ cleared[r]) \cup {login[r]}
      BY <2>2, <2>3 DEF Receive, Redirecting, OpenStart
    <3> QED
      BY <1>1, <2>2, <3>1, JarAtReceive
  <2>4. CASE LoseAnswer(r) \/ (Receive(r) /\ outcome[r] # "redirected")
    <3>1. jar' \subseteq jar
      BY <2>4 DEF Receive, LoseAnswer
    <3>2. \A p \in Slots :
            /\ OpenStart(p)' => OpenStart(p)
            /\ stage'[p] = "start" => stage[p] = "start" /\ carried'[p] = carried[p]
            /\ Redirecting(p)' => Redirecting(p) /\ cleared'[p] = cleared[p]
      BY <2>2 DEF OtherSlots, OpenStart, Redirecting
    <3> QED
      BY <1>1, <3>1, <3>2, JarShrinks
  <2> QED
    BY <1>6, <2>3, <2>4
<1>7. CASE Expire \/ Rekey \/ Tick \/ UNCHANGED vars
  <2>1. jar' \subseteq jar /\ UNCHANGED <<stage, carried, cleared, outcome>>
    BY <1>7 DEF Expire, Rekey, Tick, vars, requests
  <2> QED
    BY <1>1, <2>1, JarShrinks DEF OpenStart, Redirecting
<1> QED
  BY <1>2, <1>3, <1>4, <1>5, <1>6, <1>7 DEF Next

LEMMA InitCounts == Init => JarInv
<1> SUFFICES ASSUME Init PROVE JarInv
  OBVIOUS
<1> DEFINE zero == [r \in Slots |-> 0]
           none == [r \in Slots |-> {}]
<1>1. \A r \in Slots : ~OpenStart(r)
  BY DEF Init, OpenStart, Redirecting
<1>2. Before(zero, 1) = {} /\ jar \ {} = {}
  BY <1>1 DEF Before, Init
<1>3. /\ Cardinality({}) = 0 /\ Cardinality(Slots) \in Nat /\ MaxPending \in Nat \ {0}
  BY FS_EmptySet, FS_CardinalityType, PendingLoginAssumption DEF PendingLoginAssumption
<1>4. Counts({}, zero, 1, none)
  BY <1>1, <1>2, <1>3 DEF Counts
<1>5. zero \in [Slots -> Nat] /\ none \in [Slots -> SUBSET Logins] /\ {} \in SUBSET Logins
  OBVIOUS
<1> HIDE DEF zero, none
<1> QED
  BY <1>4, <1>5 DEF JarInv

\* The browser holds at most one cookie more than _MAX_PENDING_LOGINS for each request it
\* may have open beside the first, however long its starts overlap and whichever of their
\* answers are lost: _pending_login_cookies_to_evict makes room for what each start was sent.
THEOREM PendingLogin_JarBounded == Spec => []JarBounded
<1>1. PendingKept /\ JarInv => JarBounded
  BY CountsBoundJar DEF PendingKept, PendingInv
<1> QED
  BY <1>1, InitCounts, StepCounts, PendingInvariance, PTL DEF Spec

=============================================================================
