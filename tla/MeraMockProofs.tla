--------------------------- MODULE MeraMockProofs ---------------------------
(***************************************************************************)
(* The simulated Mera, for any budgets, burst lengths, update lengths and  *)
(* GATT applications: a restart keeps what the mock serves, one firmware   *)
(* update at a time, and what clients and pages see settles on the truth.  *)
(***************************************************************************)
EXTENDS MeraMock, SequenceTheorems, TLAPS

-----------------------------------------------------------------------------
\* A task list without the task that ends.
LEMMA WithoutOne ==
    ASSUME NEW S, NEW s \in Seq(S), NEW t \in DOMAIN s
    PROVE  /\ Without(s, t) \in Seq(S)
           /\ Len(Without(s, t)) = Len(s) - 1
           /\ \A j \in 1..(Len(s) - 1) : Without(s, t)[j] = IF j < t THEN s[j] ELSE s[j + 1]
<1>1. Len(s) \in Nat /\ t \in 1..Len(s) /\ \A i \in 1..Len(s) : s[i] \in S
      BY LenProperties, ElementOfSeq
<1> DEFINE a == SubSeq(s, 1, t - 1)
           b == SubSeq(s, t + 1, Len(s))
<1>2. /\ a \in Seq(S) /\ Len(a) = t - 1
      /\ \A i \in 1..(t - 1) : a[i] = s[i]
  <2>1. \A i \in 1..(t - 1) : s[i] \in S
        BY <1>1
  <2>2. t - 1 \in Int /\ 1 \in Int
        BY <1>1
  <2>3. /\ a \in Seq(S)
        /\ Len(a) = IF 1 <= t - 1 THEN (t - 1) - 1 + 1 ELSE 0
        /\ \A i \in 1..((t - 1) - 1 + 1) : a[i] = s[1 + i - 1]
        BY <2>1, <2>2, SubSeqProperties
  <2> HIDE DEF a
  <2> QED BY <2>3, <1>1
<1>3. /\ b \in Seq(S) /\ Len(b) = Len(s) - t
      /\ \A i \in 1..(Len(s) - t) : b[i] = s[t + i]
  <2>1. \A i \in (t + 1)..Len(s) : s[i] \in S
        BY <1>1
  <2>2. t + 1 \in Int /\ Len(s) \in Int
        BY <1>1
  <2>3. /\ b \in Seq(S)
        /\ Len(b) = IF t + 1 <= Len(s) THEN Len(s) - (t + 1) + 1 ELSE 0
        /\ \A i \in 1..(Len(s) - (t + 1) + 1) : b[i] = s[(t + 1) + i - 1]
        BY <2>1, <2>2, SubSeqProperties
  <2> HIDE DEF b
  <2>4. \A i \in Nat : (t + 1) + i - 1 = t + i
        BY <1>1
  <2>5. Len(b) = Len(s) - t /\ Len(s) - (t + 1) + 1 = Len(s) - t
        BY <2>3, <1>1
  <2>6. ASSUME NEW i \in 1..(Len(s) - t)
        PROVE  b[i] = s[t + i]
    <3>1. i \in Nat /\ b[i] = s[(t + 1) + i - 1]
          BY <2>3, <2>5
    <3> QED BY <3>1, <2>4
  <2> QED BY <2>3, <2>5, <2>6
<1>4. Without(s, t) = a \o b
      BY DEF Without, RemoveAt
<1> HIDE DEF a, b
<1>5. /\ a \o b \in Seq(S) /\ Len(a \o b) = Len(a) + Len(b)
      /\ \A i \in 1..(Len(a) + Len(b)) :
            (a \o b)[i] = IF i <= Len(a) THEN a[i] ELSE b[i - Len(a)]
      BY <1>2, <1>3, ConcatProperties
<1>6. Len(a) + Len(b) = Len(s) - 1
      BY <1>1, <1>2, <1>3
<1>7. ASSUME NEW j \in 1..(Len(s) - 1)
      PROVE  (a \o b)[j] = IF j < t THEN s[j] ELSE s[j + 1]
  <2>1. CASE j < t
        BY <2>1, <1>1, <1>2, <1>5, <1>6
  <2>2. CASE ~(j < t)
    <3>1. (a \o b)[j] = b[j - Len(a)]
          BY <2>2, <1>1, <1>2, <1>5, <1>6
    <3>2. /\ j - Len(a) \in 1..(Len(s) - t)
          /\ t + (j - Len(a)) = j + 1
          BY <2>2, <1>1, <1>2
    <3> QED BY <3>1, <3>2, <1>3, <2>2
  <2> QED BY <2>1, <2>2
<1> QED BY <1>4, <1>5, <1>6, <1>7

-----------------------------------------------------------------------------
\* The store.

\* A handler makes four commits at most, and the last one about a row exists.
LEMMA LastOne ==
    ASSUME NEW T \in SUBSET (1..4), T # {}
    PROVE  Max(T) \in T /\ \A y \in T : Max(T) >= y
<1>1. \E x \in T : \A y \in T : x >= y
  <2>1. CASE 4 \in T
        BY <2>1
  <2>2. CASE 4 \notin T /\ 3 \in T
        BY <2>2
  <2>3. CASE 4 \notin T /\ 3 \notin T /\ 2 \in T
        BY <2>3
  <2>4. CASE 4 \notin T /\ 3 \notin T /\ 2 \notin T
    <3>1. \A x \in 1..4 : x = 1 \/ x = 2 \/ x = 3 \/ x = 4
          OBVIOUS
    <3>2. \A x \in T : x = 1
          BY <2>4, <3>1
    <3>3. PICK x \in T : TRUE
          OBVIOUS
    <3>4. \A y \in T : x >= y
          BY <3>2, <3>3
    <3> QED BY <3>3, <3>4, Zenon
  <2> QED BY <2>1, <2>2, <2>3, <2>4
<1> QED BY <1>1, Zenon DEF Max

\* Commits without a reset among them, as they come from a form or a request.
Writes == [key : Keys, value : {"1", "2", "rs28", "rs30"}]

LEMMA WritesKept ==
    ASSUME RestartKeeps, NEW ops \in Seq(Writes), Len(ops) \in 1..2, Perform(ops)
    PROVE  RestartKeeps'
<1>1. \A n \in 1..Len(ops) : ops[n].key # "wipe" /\ ops[n].value # Absent
  <2>1. \A n \in 1..Len(ops) : ops[n] \in Writes
        BY ElementOfSeq
  <2>2. \A op \in Writes : op.key # "wipe" /\ op.value # Absent
        BY DEF Writes, Keys, FwKeys, Settings, Absent
  <2> QED BY <2>1, <2>2
<1>2. stored' = CommitAll(stored, ops)
      BY <1>1 DEF Perform, Assigned
<1>3. ASSUME NEW k \in Keys
      PROVE  CommitAll(stored, ops)[k] = Loaded(CommitAll(disk, ops))[k]
  <2>1. CASE Touching(ops, k) = {}
        BY <2>1 DEF CommitAll, Loaded, RestartKeeps
  <2>2. CASE Touching(ops, k) # {}
    <3>1. Touching(ops, k) \in SUBSET (1..4) /\ Touching(ops, k) \subseteq 1..Len(ops)
          BY DEF Touching
    <3>2. Max(Touching(ops, k)) \in 1..Len(ops)
          BY <2>2, <3>1, LastOne
    <3> QED BY <2>2, <1>1, <3>2 DEF CommitAll, Loaded, Written
  <2> QED BY <2>1, <2>2
<1>4. stored' = Loaded(disk')
      BY <1>2, <1>3 DEF CommitAll, Loaded, Perform
<1>5. ASSUME NEW k \in Keys
      PROVE  stored'[k] \in asked'[k] \/ k \in wiped'
  <2>1. CASE Touching(ops, k) = {}
    <3>1. stored'[k] = stored[k] /\ asked'[k] = asked[k] /\ (k \in wiped => k \in wiped')
          BY <1>2, <2>1 DEF CommitAll, Perform
    <3> QED BY <3>1 DEF RestartKeeps
  <2>2. CASE Touching(ops, k) # {}
        BY <2>2 DEF Perform
  <2> QED BY <2>1, <2>2
<1> QED BY <1>4, <1>5 DEF RestartKeeps

\* A factory reset writes anew every row whose factory value is not the default.
LEMMA FactoryKept ==
    ASSUME RestartKeeps, Perform(FactoryOps)
    PROVE  RestartKeeps'
<1>1. /\ DOMAIN FactoryOps = 1..4 /\ FactoryOps # <<>>
      /\ FactoryOps[1].key = "wipe" /\ FactoryOps[2].key = "fw:1"
      /\ FactoryOps[3].key = "fw:11" /\ FactoryOps[4].key = "name"
      /\ FactoryOps[2].value = "rs28" /\ FactoryOps[3].value = "rs28"
      /\ FactoryOps[4].value = "1"
      BY DEF FactoryOps, Factory, FwKeys
<1>2. stored' = [k \in Keys |-> Factory(k)]
      BY <1>1 DEF Perform, Assigned
<1>3. ASSUME NEW k \in Keys
      PROVE  Factory(k) = Loaded(CommitAll(disk, FactoryOps))[k]
  <2>1. Touching(FactoryOps, k) =
           {1} \cup (IF k = "fw:1" THEN {2} ELSE IF k = "fw:11" THEN {3}
                     ELSE IF k = "name" THEN {4} ELSE {})
        BY <1>1 DEF Touching, Keys, FwKeys, Settings
  <2>2. /\ Max(Touching(FactoryOps, k)) \in Touching(FactoryOps, k)
        /\ \A y \in Touching(FactoryOps, k) : Max(Touching(FactoryOps, k)) >= y
        BY <2>1, LastOne
  <2>3. Max(Touching(FactoryOps, k)) =
           IF k = "fw:1" THEN 2 ELSE IF k = "fw:11" THEN 3 ELSE IF k = "name" THEN 4 ELSE 1
        BY <2>1, <2>2
  <2>4. CommitAll(disk, FactoryOps)[k] =
           IF k = "fw:1" THEN "rs28" ELSE IF k = "fw:11" THEN "rs28"
           ELSE IF k = "name" THEN "1" ELSE Absent
        BY <2>1, <2>3, <1>1 DEF CommitAll, Written
  <2> QED BY <2>4 DEF Loaded, Factory, Default, Absent, Keys, FwKeys, Settings
<1>4. stored' = Loaded(disk')
      BY <1>2, <1>3 DEF Loaded, Perform
<1>5. ASSUME NEW k \in Keys
      PROVE  stored'[k] \in asked'[k]
  <2>1. Touching(FactoryOps, k) # {}
        BY <1>1 DEF Touching
  <2> QED BY <2>1 DEF Perform
<1> QED BY <1>4, <1>5 DEF RestartKeeps

\* What the forms and the requests save: a reset, or one row or two.
LEMMA EditForms ==
    ASSUME NEW ops \in EditOps, ops # FactoryOps
    PROVE  \/ \E op \in Writes : ops = <<op>>
           \/ \E op, o2 \in Writes : op.key # o2.key /\ ops = <<op, o2>>
<1>1. CASE ops \in SettingEdits \cup IdentityEdits \cup ComponentEdits
      BY <1>1 DEF SettingEdits, IdentityEdits, ComponentEdits, SaveOps, Writes, Keys,
                  FwKeys, Settings
<1>2. CASE ops \in ProfileEdits
      BY <1>2 DEF ProfileEdits, ProfileOps, Writes, Keys, FwKeys, Settings
<1> QED BY <1>1, <1>2 DEF EditOps

\* A handler that gets to its end keeps the agreement of file, memory and wishes.
LEMMA EditKept ==
    ASSUME RestartKeeps, NEW ops \in EditOps, Perform(ops)
    PROVE  RestartKeeps'
<1>1. CASE ops = FactoryOps
      BY <1>1, FactoryKept
<1>2. CASE ops # FactoryOps
  <2>1. \/ \E op \in Writes : ops = <<op>>
        \/ \E op, o2 \in Writes : ops = <<op, o2>>
        BY <1>2, EditForms
  <2>2. ops \in Seq(Writes) /\ Len(ops) \in 1..2
    <3>1. ASSUME NEW op \in Writes
          PROVE  <<op>> \in Seq(Writes) /\ Len(<<op>>) = 1
          OBVIOUS
    <3>2. ASSUME NEW op \in Writes, NEW o2 \in Writes
          PROVE  <<op, o2>> \in Seq(Writes) /\ Len(<<op, o2>>) = 2
          OBVIOUS
    <3>3. 1 \in 1..2 /\ 2 \in 1..2
          OBVIOUS
    <3> QED BY <2>1, <3>1, <3>2, <3>3, Zenon
  <2> QED BY <2>2, WritesKept
<1> QED BY <1>1, <1>2

\* A handler that is killed after any of its commits leaves each row as it was, as it was
\* to be, or in want of its factory value.
LEMMA KillKept ==
    ASSUME RestartKeeps, NEW ops \in EditOps, NEW n \in 0..Len(ops), Killed(ops, n),
           stored' = Loaded(disk')
    PROVE  RestartKeeps'
<1> DEFINE pre == SubSeq(ops, 1, n)
<1>1. ASSUME NEW k \in Keys, Touching(pre, k) = {}
      PROVE  stored'[k] \in asked'[k] \/ k \in wiped'
  <2>1. disk'[k] = disk[k]
        BY <1>1 DEF Killed, CommitAll
  <2>2. stored'[k] = stored[k]
        BY <2>1 DEF RestartKeeps, Loaded
  <2>3. (k \in wiped => k \in wiped') /\ asked[k] \subseteq asked'[k]
        BY <1>1 DEF Killed
  <2> QED BY <2>2, <2>3 DEF RestartKeeps
<1>2. ASSUME NEW k \in Keys, Touching(pre, k) # {}
      PROVE  stored'[k] \in asked'[k] \/ k \in wiped'
  <2>1. disk'[k] = Written(pre[Max(Touching(pre, k))])
        BY <1>2 DEF Killed, CommitAll
  <2>2. CASE ops = FactoryOps
    <3>1. /\ DOMAIN FactoryOps = 1..4 /\ Len(FactoryOps) = 4 /\ FactoryOps # <<>>
          /\ FactoryOps[1].key = "wipe" /\ FactoryOps[2].key = "fw:1"
          /\ FactoryOps[3].key = "fw:11" /\ FactoryOps[4].key = "name"
          /\ FactoryOps[2].value = "rs28" /\ FactoryOps[3].value = "rs28"
          /\ FactoryOps[4].value = "1"
          BY DEF FactoryOps, Factory, FwKeys
    <3>2. n \in 0..4 /\ DOMAIN pre = 1..n /\ \A m \in 1..n : pre[m] = FactoryOps[m]
          BY <2>2, <3>1
    <3> HIDE DEF pre
    <3>3. n # 0
          BY <1>2, <3>2 DEF Touching
    <3>4. Touching(pre, k) =
             ({1} \cup (IF k = "fw:1" THEN {2} ELSE IF k = "fw:11" THEN {3}
                        ELSE IF k = "name" THEN {4} ELSE {})) \cap (1..n)
          BY <3>1, <3>2, <3>3 DEF Touching, Keys, FwKeys, Settings
    <3>5. Touching(FactoryOps, k) # {} /\ Assigned(FactoryOps)[k] = Factory(k)
          BY <3>1 DEF Touching, Assigned
    <3>6. Factory(k) \in asked'[k]
          BY <2>2, <3>5 DEF Killed
    <3>7. /\ Max(Touching(pre, k)) \in Touching(pre, k)
          /\ \A y \in Touching(pre, k) : Max(Touching(pre, k)) >= y
      <4>1. Touching(pre, k) \in SUBSET (1..4)
            BY <3>2 DEF Touching
      <4> QED BY <1>2, <4>1, LastOne
    <3>8. CASE k \in FwKeys /\ \E m \in (n + 1)..4 : FactoryOps[m].key = k
          BY <2>2, <3>1, <3>3, <3>2, <3>8 DEF Killed, Lost
    <3>9. CASE ~(k \in FwKeys /\ \E m \in (n + 1)..4 : FactoryOps[m].key = k)
      <4>1. (k = "fw:1" => n >= 2) /\ (k = "fw:11" => n >= 3)
            BY <3>1, <3>2, <3>3, <3>9 DEF FwKeys
      <4>2. Max(Touching(pre, k)) =
               IF k = "fw:1" THEN 2 ELSE IF k = "fw:11" THEN 3
               ELSE IF k = "name" /\ n = 4 THEN 4 ELSE 1
        <5>1. CASE k = "fw:1"
          <6>1. Touching(pre, k) = {1, 2}
                BY <3>2, <3>4, <4>1, <5>1
          <6> QED BY <3>7, <5>1, <6>1
        <5>2. CASE k = "fw:11"
          <6>1. Touching(pre, k) = {1, 3}
                BY <3>2, <3>4, <4>1, <5>2
          <6> QED BY <3>7, <5>2, <6>1
        <5>3. CASE k = "name" /\ n = 4
          <6>1. Touching(pre, k) = {1, 4}
                BY <3>4, <5>3
          <6> QED BY <3>7, <5>3, <6>1
        <5>4. CASE k \notin FwKeys /\ ~(k = "name" /\ n = 4)
          <6>1. Touching(pre, k) = {1}
                BY <3>2, <3>3, <3>4, <5>4 DEF FwKeys
          <6> QED BY <3>7, <5>4, <6>1 DEF FwKeys
        <5> QED BY <5>1, <5>2, <5>3, <5>4 DEF FwKeys
      <4>3. disk'[k] = IF k \in FwKeys THEN "rs28"
                       ELSE IF k = "name" /\ n = 4 THEN "1" ELSE Absent
            BY <2>1, <3>1, <3>2, <3>3, <4>1, <4>2 DEF Written, FwKeys
      <4>4. stored'[k] = Factory(k)
            BY <4>3 DEF Loaded, Factory, Default, Absent, Keys, FwKeys, Settings
      <4> QED BY <3>6, <4>4
    <3> QED BY <3>8, <3>9
  <2>3. CASE ops # FactoryOps
    <3>1. PICK m \in 1..n : /\ m \in DOMAIN ops /\ ops[m].key = k /\ ops[m].value # Absent
                            /\ Touching(pre, k) = {m} /\ Touching(ops, k) = {m}
                            /\ ops # <<>> /\ ops[1].key # "wipe" /\ pre[m] = ops[m]
                            /\ m \in 1..4
      <4>1. /\ \A op \in Writes : op.key # "wipe" /\ op.value # Absent
            /\ k # "wipe"
            BY DEF Writes, Keys, FwKeys, Settings, Absent
      <4>2. CASE \E op \in Writes : ops = <<op>>
        <5>1. PICK op \in Writes : ops = <<op>>
              BY <4>2
        <5>2. Len(ops) = 1 /\ DOMAIN ops = 1..1 /\ ops[1] = op /\ ops # <<>>
              BY <5>1
        <5>3. DOMAIN pre = 1..n /\ \A j \in 1..n : pre[j] = ops[j]
              BY <5>2
        <5> HIDE DEF pre
        <5>4. n = 1
              BY <1>2, <5>2, <5>3 DEF Touching
        <5>5. op.key = k
              BY <1>2, <4>1, <5>2, <5>3, <5>4 DEF Touching
        <5> QED BY <4>1, <5>2, <5>3, <5>4, <5>5 DEF Touching
      <4>3. CASE \E op, o2 \in Writes : op.key # o2.key /\ ops = <<op, o2>>
        <5>1. PICK op \in Writes, o2 \in Writes : op.key # o2.key /\ ops = <<op, o2>>
              BY <4>3
        <5>2. /\ Len(ops) = 2 /\ DOMAIN ops = 1..2 /\ ops[1] = op /\ ops[2] = o2
              /\ ops # <<>>
              BY <5>1
        <5>3. DOMAIN pre = 1..n /\ \A j \in 1..n : pre[j] = ops[j]
              BY <5>2
        <5> HIDE DEF pre
        <5>4. PICK m \in 1..n : pre[m].key = k
              BY <1>2, <4>1, <5>2, <5>3 DEF Touching
        <5>5. m \in 1..2 /\ ops[m].key = k /\ \A j \in 1..2 : ops[j].key = k => j = m
              BY <5>1, <5>2, <5>3, <5>4
        <5>6. Touching(pre, k) = {m} /\ Touching(ops, k) = {m}
              BY <4>1, <5>2, <5>3, <5>4, <5>5 DEF Touching
        <5>7. ops[m] \in Writes /\ ops[1] \in Writes
              BY <5>1, <5>2, <5>5
        <5> QED BY <4>1, <5>2, <5>3, <5>4, <5>5, <5>6, <5>7
      <4> QED BY <2>3, <4>2, <4>3, EditForms
    <3> HIDE DEF pre
    <3>2. Max({m}) = m
          BY <3>1, LastOne
    <3>3. disk'[k] = ops[m].value
          BY <2>1, <3>1, <3>2 DEF Written, Keys, FwKeys, Settings
    <3>4. stored'[k] = ops[m].value
          BY <3>1, <3>3 DEF Loaded
    <3>5. Assigned(ops)[k] = ops[m].value
          BY <3>1, <3>2 DEF Assigned, CommitAll, Written, Keys, FwKeys, Settings
    <3> QED BY <3>1, <3>4, <3>5 DEF Killed
  <2> QED BY <2>2, <2>3
<1> QED BY <1>1, <1>2 DEF RestartKeeps

-----------------------------------------------------------------------------
\* What a step leaves alone keeps its part of the invariant.

LEMMA StoreKept ==
    ASSUME RestartKeeps, UNCHANGED storeVars
    PROVE  RestartKeeps'
BY DEF storeVars, RestartKeeps, Loaded

LEMMA UpdateKept ==
    ASSUME OneUpdate, UNCHANGED fwVars
    PROVE  OneUpdate'
BY DEF fwVars, OneUpdate

LEMMA AirKept ==
    ASSUME AirInv, UNCHANGED airVars
    PROVE  AirInv'
BY DEF airVars, AirInv

LEMMA GattKept ==
    ASSUME GattInv, UNCHANGED gattVars
    PROVE  GattInv'
BY DEF gattVars, GattInv, Busy, Back, AllApps

\* The pages are told, or there is nothing new.
LEMMA PagesKept ==
    ASSUME PagesInv, UNCHANGED <<stored, fwVars, airVars>>, NEW c \in BOOLEAN, LogIf(c),
           c \/ UNCHANGED cur
    PROVE  PagesInv'
BY DEF PagesInv, fwVars, airVars, LogIf, Log, Snapshot

LEMMA PagesTold ==
    ASSUME Log
    PROVE  PagesInv'
BY DEF PagesInv, Log

\* A step of a burst or of a request at the gate is none of the invariant's business.
LEMMA Quiet ==
    ASSUME MockInv, UNCHANGED <<storeVars, fwVars, links, cur, gen, airVars, gattVars>>,
           Log \/ UNCHANGED shown
    PROVE  MockInv'
<1>1. MockTypeOK'
      BY DEF MockInv, MockTypeOK, fwVars, airVars, gattVars
<1>2. PagesInv'
  <2>1. CASE Log
        BY <2>1, PagesTold
  <2>2. CASE UNCHANGED shown
        BY <2>2 DEF MockInv, PagesInv, Snapshot, fwVars, airVars, storeVars
  <2> QED BY <2>1, <2>2
<1> QED BY <1>1, <1>2, StoreKept, UpdateKept, AirKept, GattKept DEF MockInv

-----------------------------------------------------------------------------
\* The button and the advertisement.

\* Whoever changes the button gets in line with the new value.
LEMMA CallerQueued ==
    ASSUME MockTypeOK, AirInv, NEW w, NEW v \in BOOLEAN, Caller(w, v) \in Callers,
           button' = v, advQ' = Append(advQ, Caller(w, v)), UNCHANGED <<onAir, stayed>>
    PROVE  AirInv' /\ advQ' \in Seq(Callers) /\ advQ' # <<>>
<1>1. advQ \in Seq(Callers) /\ Len(advQ) \in Nat
      BY LenProperties DEF MockTypeOK
<1>2. /\ advQ' \in Seq(Callers) /\ Len(advQ') = Len(advQ) + 1 /\ advQ' # <<>>
      /\ advQ'[Len(advQ) + 1] = Caller(w, v)
      /\ \A i \in 1..Len(advQ) : advQ'[i] = advQ[i]
      BY <1>1, AppendProperties
<1>3. Caller(w, v).s = v /\ Caller(w, v).pc = "unregister"
      BY DEF Caller
<1>4. advQ'[Len(advQ')].s = button'
      BY <1>2, <1>3
<1>5. ASSUME NEW i \in 2..Len(advQ')
      PROVE  advQ'[i].pc = "unregister"
  <2>1. CASE i = Len(advQ) + 1
        BY <2>1, <1>2, <1>3
  <2>2. CASE i # Len(advQ) + 1
    <3>1. i \in 2..Len(advQ) /\ i \in 1..Len(advQ)
          BY <2>2, <1>1, <1>2
    <3> QED BY <3>1, <1>2 DEF AirInv
  <2> QED BY <2>1, <2>2
<1>6. ASSUME advQ'[1].pc = "register"
      PROVE  onAir = "nothing" \/ stayed
  <2>1. CASE Len(advQ) = 0
    <3>1. advQ'[1] = Caller(w, v)
          BY <2>1, <1>2
    <3> QED BY <3>1, <1>3, <1>6
  <2>2. CASE Len(advQ) # 0
    <3>1. 1 \in 1..Len(advQ) /\ advQ # <<>>
          BY <2>2, <1>1
    <3>2. advQ'[1] = advQ[1]
          BY <3>1, <1>2
    <3> QED BY <3>1, <3>2, <1>6 DEF AirInv
  <2> QED BY <2>1, <2>2
<1> QED BY <1>2, <1>4, <1>5, <1>6 DEF AirInv

\* The holder of the lock takes the advertisement down.
LEMMA UnregisterKept ==
    ASSUME MockTypeOK, AirInv, NEW i \in Holders, AdvertUnregister(i)
    PROVE  AirInv' /\ advQ' \in Seq(Callers) /\ stayed' \in BOOLEAN
<1>1. /\ advQ \in Seq(Callers) /\ Len(advQ) \in Nat /\ i = 1 /\ 1 \in 1..Len(advQ)
      /\ \A j \in 1..Len(advQ) : advQ[j] \in Callers
      BY LenProperties, ElementOfSeq DEF MockTypeOK, Holders
<1>2. /\ advQ' = [advQ EXCEPT ![1] = [advQ[1] EXCEPT !.pc = "register"]]
      /\ onAir' = "nothing" \/ stayed'
      /\ button' = button /\ stayed' \in BOOLEAN
      BY <1>1 DEF AdvertUnregister
<1>3. [advQ[1] EXCEPT !.pc = "register"] \in Callers
      /\ [advQ[1] EXCEPT !.pc = "register"].s = advQ[1].s
      BY <1>1 DEF Callers
<1>4. /\ advQ' \in Seq(Callers) /\ Len(advQ') = Len(advQ)
      /\ \A j \in 1..Len(advQ) : advQ'[j].s = advQ[j].s
      /\ \A j \in 2..Len(advQ) : advQ'[j] = advQ[j]
      BY <1>1, <1>2, <1>3
<1>5. advQ # <<>> /\ Len(advQ) \in 1..Len(advQ) /\ advQ' # <<>>
      BY <1>1, <1>4
<1> QED BY <1>2, <1>4, <1>5 DEF AirInv

\* The holder of the lock is done: the next one starts with the advertisement it finds.
LEMMA HolderDone ==
    ASSUME MockTypeOK, AirInv, NEW i \in Holders, advQ[i].pc = "register",
           advQ' = Without(advQ, i), UNCHANGED <<button, stayed>>,
           onAir' \in {onAir, IF advQ[i].s THEN "pressed" ELSE "idle"}
    PROVE  AirInv' /\ advQ' \in Seq(Callers) /\ (onAir = "nothing" \/ stayed)
<1>1. /\ advQ \in Seq(Callers) /\ Len(advQ) \in Nat /\ i = 1 /\ 1 \in DOMAIN advQ
      /\ 1 \in 1..Len(advQ) /\ advQ # <<>>
      BY LenProperties DEF MockTypeOK, Holders
<1>2. /\ advQ' \in Seq(Callers) /\ Len(advQ') = Len(advQ) - 1
      /\ \A j \in 1..(Len(advQ) - 1) : advQ'[j] = advQ[j + 1]
  <2>1. /\ advQ' \in Seq(Callers) /\ Len(advQ') = Len(advQ) - 1
        /\ \A j \in 1..(Len(advQ) - 1) : advQ'[j] = IF j < 1 THEN advQ[j] ELSE advQ[j + 1]
        BY <1>1, WithoutOne
  <2> QED BY <2>1
<1>3. onAir = "nothing" \/ stayed
      BY <1>1 DEF AirInv
<1>4. \A j \in 1..(Len(advQ) - 1) : j + 1 \in 2..Len(advQ) /\ advQ'[j].pc = "unregister"
      BY <1>1, <1>2 DEF AirInv
<1>5. CASE Len(advQ) = 1
  <2>1. advQ' = <<>> /\ Len(advQ') = 0
        BY <1>2, <1>5
  <2>2. advQ[1].s = button
        BY <1>1, <1>5 DEF AirInv
  <2>3. onAir' # "nothing" => onAir' = (IF button THEN "pressed" ELSE "idle") \/ stayed
        BY <1>1, <1>3, <2>2
  <2>4. button \in BOOLEAN
        BY DEF MockTypeOK
  <2>5. onAir' # "nothing" => (onAir' = "pressed") = button \/ stayed
        BY <2>3, <2>4
  <2>6. \A j \in 2..Len(advQ') : FALSE
        BY <2>1
  <2> QED BY <1>2, <1>3, <2>1, <2>5, <2>6 DEF AirInv
<1>6. CASE Len(advQ) # 1
  <2>1. /\ Len(advQ) - 1 \in 1..(Len(advQ) - 1) /\ advQ' # <<>>
        /\ (Len(advQ) - 1) + 1 = Len(advQ) /\ 1 \in 1..(Len(advQ) - 1)
        BY <1>1, <1>2, <1>6
  <2>2. advQ'[Len(advQ')].s = button'
        BY <1>1, <1>2, <2>1 DEF AirInv
  <2>3. advQ'[1].pc = "unregister"
        BY <1>4, <2>1
  <2>4. \A j \in 2..Len(advQ') : advQ'[j].pc = "unregister"
        BY <1>1, <1>2, <1>4
  <2> QED BY <1>2, <1>3, <2>1, <2>2, <2>3, <2>4 DEF AirInv
<1> QED BY <1>5, <1>6

-----------------------------------------------------------------------------
\* Removals and the GATT applications.

LEMMA RemovalsTyped ==
    ASSUME MockTypeOK
    PROVE  /\ rmTasks \in Seq(Removals) /\ Len(rmTasks) \in Nat
           /\ DOMAIN rmTasks = 1..Len(rmTasks)
           /\ \A t \in 1..Len(rmTasks) : rmTasks[t] \in Removals
BY LenProperties, ElementOfSeq DEF MockTypeOK

\* A client has gone: its removal, if there is one, waits at the end of the list.
LEMMA Queued ==
    ASSUME MockAssumption, NEW d \in Devs, NEW s \in Seq(Removals)
    PROVE  /\ s \o RemovalOf(d) \in Seq(Removals)
           /\ Len(s \o RemovalOf(d)) \in Nat /\ Len(s) <= Len(s \o RemovalOf(d))
           /\ DOMAIN (s \o RemovalOf(d)) = 1..Len(s \o RemovalOf(d))
           /\ \A j \in 1..Len(s) : (s \o RemovalOf(d))[j] = s[j]
           /\ \A j \in 1..Len(s \o RemovalOf(d)) :
                 j \notin 1..Len(s) => (s \o RemovalOf(d))[j].pc = "address"
<1> DEFINE r == RemovalOf(d)
<1>1. Len(s) \in Nat /\ Len(Apps) \in Nat /\ 1 \in 1..Len(Apps)
      BY LenProperties, EmptySeq DEF MockAssumption
<1>2. [pc |-> "address", i |-> 1, dev |-> d] \in Removals
      BY <1>1 DEF Removals
<1>3. /\ r \in Seq(Removals) /\ Len(r) \in Nat
      /\ \A j \in 1..Len(r) : r[j].pc = "address"
  <2>1. CASE cur = d /\ button
        BY <2>1, <1>2 DEF RemovalOf
  <2>2. CASE ~(cur = d /\ button)
        BY <2>2, EmptySeq DEF RemovalOf
  <2> QED BY <2>1, <2>2
<1> HIDE DEF r
<1>4. /\ s \o r \in Seq(Removals) /\ Len(s \o r) = Len(s) + Len(r)
      /\ \A j \in 1..(Len(s) + Len(r)) :
            (s \o r)[j] = IF j <= Len(s) THEN s[j] ELSE r[j - Len(s)]
      BY <1>3, ConcatProperties
<1>5. \A j \in 1..Len(s) : (s \o r)[j] = s[j]
      BY <1>1, <1>3, <1>4
<1>6. ASSUME NEW j \in 1..Len(s \o r), j \notin 1..Len(s)
      PROVE  (s \o r)[j].pc = "address"
  <2>1. j - Len(s) \in 1..Len(r) /\ (s \o r)[j] = r[j - Len(s)]
        BY <1>1, <1>3, <1>4, <1>6
  <2> QED BY <2>1, <1>3
<1>7. DOMAIN (s \o r) = 1..Len(s \o r) /\ Len(s \o r) \in Nat /\ Len(s) <= Len(s \o r)
      BY <1>1, <1>3, <1>4, LenProperties
<1> QED BY <1>4, <1>5, <1>6, <1>7 DEF r

LEMMA QueuedKept ==
    ASSUME MockAssumption, MockTypeOK, GattInv, NEW d \in Devs,
           rmTasks' = rmTasks \o RemovalOf(d), UNCHANGED <<apps, torn>>
    PROVE  GattInv' /\ rmTasks' \in Seq(Removals)
<1>1. /\ rmTasks' \in Seq(Removals) /\ Len(rmTasks') \in Nat /\ Len(rmTasks) <= Len(rmTasks')
      /\ DOMAIN rmTasks' = 1..Len(rmTasks')
      /\ \A j \in 1..Len(rmTasks) : rmTasks'[j] = rmTasks[j]
      /\ \A j \in 1..Len(rmTasks') : j \notin 1..Len(rmTasks) => rmTasks'[j].pc = "address"
      BY RemovalsTyped, Queued
<1>2. \A j : j \in Busy' <=> j \in Busy
      BY <1>1, RemovalsTyped DEF Busy
<1>3. \A j \in Busy : rmTasks'[j] = rmTasks[j]
      BY <1>1, RemovalsTyped DEF Busy
<1> QED BY <1>1, <1>2, <1>3 DEF GattInv, Back, AllApps

\* A removal that ends leaves the others as they were.
LEMMA BusyWithout ==
    ASSUME MockTypeOK, NEW t \in DOMAIN rmTasks, Ends(t)
    PROVE  /\ rmTasks' \in Seq(Removals) /\ Len(rmTasks') = Len(rmTasks) - 1
           /\ \A j, k \in Busy' : (\A u, v \in Busy \ {t} : u = v) => j = k
           /\ \A j \in Busy' : \E u \in Busy \ {t} : rmTasks'[j] = rmTasks[u]
           /\ Busy' = {} => Busy \subseteq {t}
<1>1. /\ rmTasks' \in Seq(Removals) /\ Len(rmTasks') = Len(rmTasks) - 1
      /\ \A j \in 1..(Len(rmTasks) - 1) :
            rmTasks'[j] = IF j < t THEN rmTasks[j] ELSE rmTasks[j + 1]
      BY RemovalsTyped, WithoutOne DEF Ends
<1>2. DOMAIN rmTasks' = 1..(Len(rmTasks) - 1)
      BY <1>1, LenProperties
<1>3. t \in 1..Len(rmTasks) /\ Len(rmTasks) \in Nat
      BY RemovalsTyped
<1> DEFINE at(j) == IF j < t THEN j ELSE j + 1
<1>4. ASSUME NEW j \in Busy'
      PROVE  j \in Nat /\ at(j) \in Busy \ {t} /\ rmTasks'[j] = rmTasks[at(j)]
  <2>1. j \in 1..(Len(rmTasks) - 1) /\ rmTasks'[j].pc \in {"unregister", "register"}
        BY <1>2 DEF Busy
  <2>2. rmTasks'[j] = rmTasks[at(j)]
        BY <1>1, <2>1
  <2>3. at(j) \in 1..Len(rmTasks) /\ at(j) # t /\ j \in Nat
        BY <1>3, <2>1
  <2> QED BY <2>1, <2>2, <2>3, RemovalsTyped DEF Busy
<1>5. ASSUME NEW j \in Busy', NEW k \in Busy', \A u, v \in Busy \ {t} : u = v
      PROVE  j = k
  <2>1. j \in Nat /\ k \in Nat /\ at(j) \in Busy \ {t} /\ at(k) \in Busy \ {t}
        BY <1>4
  <2>2. at(j) = at(k)
        BY <1>5, <2>1
  <2> QED BY <2>1, <2>2, <1>3
<1>6. ASSUME NEW u \in Busy \ {t}
      PROVE  \E j : j \in Busy'
  <2>1. u \in 1..Len(rmTasks) /\ u # t /\ rmTasks[u].pc \in {"unregister", "register"}
        BY RemovalsTyped DEF Busy
  <2>2. PICK j \in 1..(Len(rmTasks) - 1) : u = IF j < t THEN j ELSE j + 1
    <3>1. CASE u < t
          BY <3>1, <2>1, <1>3
    <3>2. CASE ~(u < t)
      <4>1. u - 1 \in 1..(Len(rmTasks) - 1) /\ u = (u - 1) + 1 /\ ~(u - 1 < t)
            BY <3>2, <2>1, <1>3
      <4> QED BY <4>1
    <3> QED BY <3>1, <3>2
  <2>3. rmTasks'[j] = rmTasks[u]
        BY <2>2, <1>1, <1>3
  <2>4. j \in Busy'
        BY <2>1, <2>3, <1>2 DEF Busy
  <2> QED BY <2>4
<1> HIDE DEF at
<1>7. \A j \in Busy' : \E u \in Busy \ {t} : rmTasks'[j] = rmTasks[u]
      BY <1>4
<1>8. Busy' = {} => Busy \subseteq {t}
      BY <1>6
<1> QED BY <1>1, <1>5, <1>7, <1>8

LEMMA EndsKept ==
    ASSUME MockTypeOK, GattInv, NEW t \in DOMAIN rmTasks, t \notin Busy, Ends(t),
           UNCHANGED <<apps, torn>>
    PROVE  GattInv' /\ rmTasks' \in Seq(Removals)
<1>1. /\ rmTasks' \in Seq(Removals)
      /\ \A j, k \in Busy' : (\A u, v \in Busy : u = v) => j = k
      /\ \A j \in Busy' : \E u \in Busy : rmTasks'[j] = rmTasks[u]
      /\ Busy' = {} => Busy = {}
      BY BusyWithout
<1>2. ASSUME ~torn, NEW j \in Busy'
      PROVE  apps' = Back(rmTasks'[j])
  <2>1. PICK u \in Busy : rmTasks'[j] = rmTasks[u]
        BY <1>1
  <2> QED BY <2>1, <1>2 DEF GattInv
<1> QED BY <1>1, <1>2 DEF GattInv, Back, AllApps

\* A removal takes a step.
LEMMA Moved ==
    ASSUME MockTypeOK, NEW t \in DOMAIN rmTasks, NEW r \in Removals
    PROVE  /\ [rmTasks EXCEPT ![t] = r] \in Seq(Removals)
           /\ Len([rmTasks EXCEPT ![t] = r]) = Len(rmTasks)
           /\ DOMAIN [rmTasks EXCEPT ![t] = r] = DOMAIN rmTasks
           /\ [rmTasks EXCEPT ![t] = r][t] = r
           /\ \A j \in DOMAIN rmTasks \ {t} : [rmTasks EXCEPT ![t] = r][j] = rmTasks[j]
BY RemovalsTyped

LEMMA AddressKept ==
    ASSUME MockTypeOK, GattInv, NEW t \in DOMAIN rmTasks, RemovalReadsAddress(t)
    PROVE  GattInv' /\ rmTasks' \in Seq(Removals)
<1>1. t \notin Busy /\ UNCHANGED <<apps, torn>> /\ rmTasks[t] \in Removals
      BY RemovalsTyped DEF RemovalReadsAddress, Busy
<1>2. CASE Ends(t)
      BY <1>1, <1>2, EndsKept
<1>3. CASE rmTasks' = [rmTasks EXCEPT ![t].pc = "remove"]
  <2>1. PICK r : r = [rmTasks[t] EXCEPT !.pc = "remove"]
        OBVIOUS
  <2>2. r \in Removals /\ r.pc = "remove" /\ rmTasks' = [rmTasks EXCEPT ![t] = r]
        BY <1>1, <1>3, <2>1 DEF Removals
  <2>3. /\ rmTasks' \in Seq(Removals) /\ DOMAIN rmTasks' = DOMAIN rmTasks
        /\ rmTasks'[t].pc = "remove"
        /\ \A j \in DOMAIN rmTasks \ {t} : rmTasks'[j] = rmTasks[j]
        BY <2>2, Moved
  <2>4. \A j : j \in Busy' <=> j \in Busy
        BY <1>1, <2>3 DEF Busy
  <2>5. \A j \in Busy : rmTasks'[j] = rmTasks[j]
        BY <1>1, <2>3 DEF Busy
  <2> QED BY <1>1, <2>3, <2>4, <2>5 DEF GattInv, Back, AllApps
<1> QED BY <1>2, <1>3 DEF RemovalReadsAddress

LEMMA RemovesKept ==
    ASSUME MockAssumption, MockTypeOK, GattInv, NEW t \in DOMAIN rmTasks, RemovalRemoves(t)
    PROVE  GattInv' /\ rmTasks' \in Seq(Removals)
<1>1. rmTasks[t] \in Removals /\ rmTasks[t].dev \in Devs
      BY RemovalsTyped DEF Removals
<1>2. PICK r : r = [rmTasks[t] EXCEPT !.pc = "unregister"]
      OBVIOUS
<1>3. r \in Removals /\ r.pc = "unregister"
      BY <1>1, <1>2 DEF Removals
<1>4. PICK s : s = [rmTasks EXCEPT ![t] = r]
      OBVIOUS
<1>5. /\ s \in Seq(Removals) /\ Len(s) = Len(rmTasks) /\ s[t].pc = "unregister"
      /\ \A j \in DOMAIN rmTasks \ {t} : s[j] = rmTasks[j]
      BY <1>3, <1>4, Moved
<1>6. rmTasks' = s \o RemovalOf(rmTasks[t].dev)
      BY <1>2, <1>4 DEF RemovalRemoves
<1>7. /\ rmTasks' \in Seq(Removals) /\ Len(rmTasks') \in Nat /\ Len(s) <= Len(rmTasks')
      /\ DOMAIN rmTasks' = 1..Len(rmTasks')
      /\ \A j \in 1..Len(s) : rmTasks'[j] = s[j]
      /\ \A j \in 1..Len(rmTasks') : j \notin 1..Len(s) => rmTasks'[j].pc = "address"
      BY <1>1, <1>5, <1>6, Queued
<1>8. ASSUME ~torn'
      PROVE  \A j : j \in Busy' <=> j = t
  <2>1. \A u \in ToSet(rmTasks) : u.pc \notin {"unregister", "register"}
        BY <1>8 DEF RemovalRemoves
  <2>2. \A j \in 1..Len(rmTasks) : rmTasks[j].pc \notin {"unregister", "register"}
        BY <2>1, RemovalsTyped DEF ToSet
  <2>3. t \in Busy'
        BY <1>5, <1>7, RemovalsTyped DEF Busy
  <2>4. ASSUME NEW j \in Busy', j # t
        PROVE  FALSE
    <3>1. j \in 1..Len(rmTasks') /\ rmTasks'[j].pc \in {"unregister", "register"}
          BY <1>7 DEF Busy
    <3>2. j \in 1..Len(rmTasks)
          BY <3>1, <1>5, <1>7
    <3>3. rmTasks'[j] = rmTasks[j]
          BY <3>2, <2>4, <1>5, <1>7, RemovalsTyped
    <3> QED BY <3>1, <3>2, <3>3, <2>2
  <2> QED BY <2>3, <2>4
<1>9. apps' = {} /\ Back(rmTasks'[t]) = {}
      BY <1>5, <1>7, RemovalsTyped DEF RemovalRemoves, Back
<1>10. ASSUME ~torn'
       PROVE  /\ \A j, k \in Busy' : j = k
              /\ \A j \in Busy' : apps' = Back(rmTasks'[j])
              /\ Busy' # {}
  <2>1. \A j : j \in Busy' <=> j = t
        BY <1>8, <1>10
  <2> QED BY <2>1, <1>9
<1> QED BY <1>7, <1>10 DEF GattInv, Back

\* The one busy removal, and what a step of it means for the applications.
LEMMA BusyStep ==
    ASSUME MockTypeOK, GattInv, NEW t \in Busy, NEW r \in Removals,
           rmTasks' = [rmTasks EXCEPT ![t] = r], r.pc \in {"unregister", "register"},
           UNCHANGED torn, ~torn => apps' = Back(r)
    PROVE  GattInv' /\ rmTasks' \in Seq(Removals)
<1>1. t \in DOMAIN rmTasks
      BY DEF Busy
<1>2. /\ rmTasks' \in Seq(Removals) /\ DOMAIN rmTasks' = DOMAIN rmTasks /\ rmTasks'[t] = r
      /\ \A j \in DOMAIN rmTasks \ {t} : rmTasks'[j] = rmTasks[j]
      BY <1>1, Moved
<1>3. \A j : j \in Busy' <=> j \in Busy
      BY <1>1, <1>2 DEF Busy
<1>4. ASSUME ~torn
      PROVE  \A j \in Busy' : j = t
      BY <1>3, <1>4 DEF GattInv
<1> QED BY <1>2, <1>3, <1>4 DEF GattInv, Back, AllApps

LEMMA UnregistersKept ==
    ASSUME MockAssumption, MockTypeOK, GattInv, NEW t \in DOMAIN rmTasks, RemovalUnregisters(t)
    PROVE  GattInv' /\ rmTasks' \in Seq(Removals)
<1>1. t \in Busy /\ rmTasks[t] \in Removals /\ Len(Apps) \in Nat
      BY RemovalsTyped, LenProperties DEF RemovalUnregisters, Busy, MockAssumption
<1>2. ~torn => apps' = {}
      BY <1>1 DEF GattInv, Back, RemovalUnregisters
<1>3. CASE rmTasks[t].i < Len(Apps)
  <2>1. PICK r : r = [rmTasks[t] EXCEPT !.i = rmTasks[t].i + 1, !.pc = rmTasks[t].pc]
        OBVIOUS
  <2>2. rmTasks[t].i \in 1..Len(Apps) /\ rmTasks[t].i + 1 \in 1..Len(Apps)
        BY <1>1, <1>3 DEF Removals
  <2>3. r \in Removals /\ r.pc = "unregister"
        BY <1>1, <2>1, <2>2 DEF Removals, RemovalUnregisters
  <2>4. rmTasks' = [rmTasks EXCEPT ![t] = r] /\ UNCHANGED torn
        BY <1>3, <2>1 DEF RemovalUnregisters
  <2>5. ~torn => apps' = Back(r)
        BY <1>2, <2>3 DEF Back
  <2> QED BY <1>1, <2>3, <2>4, <2>5, BusyStep
<1>4. CASE ~(rmTasks[t].i < Len(Apps))
  <2>1. PICK r : r = [rmTasks[t] EXCEPT !.i = 1, !.pc = "register"]
        OBVIOUS
  <2>2. 1 \in 1..Len(Apps)
        BY <1>1, EmptySeq DEF Removals, MockAssumption
  <2>3. r \in Removals /\ r.pc = "register" /\ r.i = 1
        BY <1>1, <2>1, <2>2 DEF Removals
  <2>4. rmTasks' = [rmTasks EXCEPT ![t] = r] /\ UNCHANGED torn
        BY <1>4, <2>1 DEF RemovalUnregisters
  <2>5. Back(r) = {}
        BY <2>3 DEF Back
  <2> QED BY <1>1, <1>2, <2>3, <2>4, <2>5, BusyStep
<1> QED BY <1>3, <1>4

\* The applications come back in their order, so none is refused: the removal ends
\* with the last one.
LEMMA RegistersKept ==
    ASSUME MockAssumption, MockTypeOK, GattInv, NEW t \in DOMAIN rmTasks, RemovalRegisters(t)
    PROVE  GattInv' /\ rmTasks' \in Seq(Removals)
<1>1. /\ t \in Busy /\ rmTasks[t] \in Removals /\ Len(Apps) \in Nat
      /\ DOMAIN Apps = 1..Len(Apps) /\ torn' = torn
      BY RemovalsTyped, LenProperties DEF RemovalRegisters, Busy, MockAssumption
<1>2. PICK i \in 1..Len(Apps) : i = rmTasks[t].i
      BY <1>1 DEF Removals
<1>3. ~torn => apps = {Apps[j] : j \in 1..(i - 1)} /\ \A u \in Busy : u = t
      BY <1>1, <1>2 DEF GattInv, Back, RemovalRegisters
<1>4. ~torn => Fresh(Apps[i])
  <2>1. \A j \in 1..(i - 1) : Apps[j] # Apps[i]
        BY <1>1 DEF MockAssumption
  <2> QED BY <1>3, <2>1 DEF Fresh
<1>5. {Apps[j] : j \in 1..(i - 1)} \cup {Apps[i]} = {Apps[j] : j \in 1..i}
  <2>1. \A j : j \in 1..i <=> j \in 1..(i - 1) \/ j = i
        BY <1>1
  <2> QED BY <2>1
<1>6. CASE Ends(t)
  <2>1. /\ rmTasks' \in Seq(Removals)
        /\ \A j \in Busy' : \E u \in Busy \ {t} : rmTasks'[j] = rmTasks[u]
        BY <1>6, BusyWithout
  <2>2. ~torn => Busy' = {}
        BY <1>3, <2>1
  <2>3. ~torn => apps' = AllApps
    <3>1. i < LastApp \/ i = Len(Apps)
          BY <1>1, <1>2 DEF LastApp
    <3>2. Len(rmTasks') = Len(rmTasks) - 1 /\ Len(rmTasks) \in Nat
          BY <1>6, BusyWithout, RemovalsTyped
    <3>3. ~(rmTasks' = [rmTasks EXCEPT ![t].i = @ + 1])
      <4>1. Len([rmTasks EXCEPT ![t].i = @ + 1]) = Len(rmTasks)
            BY RemovalsTyped
      <4> QED BY <4>1, <3>2
    <3>4. ~torn => i = Len(Apps) /\ apps' = apps \cup {Apps[i]}
          BY <1>2, <1>4, <3>1, <3>3 DEF RemovalRegisters
    <3> QED BY <1>1, <1>3, <1>5, <3>4 DEF AllApps, ToSet
  <2> QED BY <1>1, <2>1, <2>2, <2>3 DEF GattInv, AllApps
<1>7. CASE ~Ends(t)
  <2>1. /\ Fresh(Apps[i]) /\ apps' = apps \cup {Apps[i]} /\ i < LastApp
        /\ rmTasks' = [rmTasks EXCEPT ![t].i = @ + 1] /\ rmTasks[t].pc = "register"
        BY <1>2, <1>7 DEF RemovalRegisters
  <2>2. PICK r : r = [rmTasks[t] EXCEPT !.i = i + 1]
        OBVIOUS
  <2>3. i + 1 \in 1..Len(Apps) /\ (i + 1) - 1 = i
        BY <1>1, <2>1 DEF LastApp
  <2>4. r \in Removals /\ r.pc = "register" /\ r.i = i + 1
        BY <1>1, <2>1, <2>2, <2>3 DEF Removals
  <2>5. rmTasks' = [rmTasks EXCEPT ![t] = r]
        BY <1>2, <2>1, <2>2
  <2>6. Back(r) = {Apps[j] : j \in 1..i}
        BY <2>3, <2>4 DEF Back
  <2>7. ~torn => apps' = Back(r)
        BY <1>3, <1>5, <2>1, <2>6
  <2> QED BY <1>1, <2>4, <2>5, <2>7, BusyStep
<1> QED BY <1>6, <1>7

-----------------------------------------------------------------------------
\* The firmware update.

LEMMA UpdatesTyped ==
    ASSUME MockTypeOK, OneUpdate
    PROVE  /\ fwTasks \in Seq(Updates) /\ Len(fwTasks) \in 0..1
           /\ DOMAIN fwTasks = 1..Len(fwTasks)
           /\ \A t \in DOMAIN fwTasks : /\ t = 1 /\ Len(fwTasks) = 1
                                        /\ fwTasks[t] \in Updates
                                        /\ fw \in {"started", "rebooting"}
<1>1. /\ fwTasks \in Seq(Updates) /\ Len(fwTasks) \in Nat /\ DOMAIN fwTasks = 1..Len(fwTasks)
      /\ \A t \in 1..Len(fwTasks) : fwTasks[t] \in Updates
      BY LenProperties, ElementOfSeq DEF MockTypeOK
<1>2. Len(fwTasks) <= 1 /\ (fwTasks # <<>> => fw \in {"started", "rebooting"})
      BY DEF OneUpdate
<1> QED BY <1>1, <1>2

LEMMA UpdateBegins ==
    ASSUME MockTypeOK, OneUpdate, NEW r \in Updates, fw \in {"idle", "done"},
           fwTasks' = Append(fwTasks, r), fw' \in {"started", "rebooting"}
    PROVE  OneUpdate' /\ fwTasks' \in Seq(Updates)
<1>1. fwTasks = <<>>
      BY DEF OneUpdate
<1>2. fwTasks' = <<r>> /\ Len(fwTasks') = 1 /\ fwTasks' # <<>>
      BY <1>1
<1> QED BY <1>2 DEF OneUpdate

LEMMA UpdateMoves ==
    ASSUME MockTypeOK, OneUpdate, NEW t \in DOMAIN fwTasks, NEW r \in Updates,
           fwTasks' = [fwTasks EXCEPT ![t] = r], fw' \in {"started", "rebooting"}
    PROVE  OneUpdate' /\ fwTasks' \in Seq(Updates) /\ t \in DOMAIN fwTasks' /\ fwTasks'[t] = r
<1>1. /\ fwTasks' \in Seq(Updates) /\ Len(fwTasks') = 1 /\ t \in DOMAIN fwTasks'
      /\ fwTasks'[t] = r /\ fwTasks' # <<>>
      BY UpdatesTyped
<1> QED BY <1>1 DEF OneUpdate

LEMMA UpdateEnds ==
    ASSUME MockTypeOK, OneUpdate, NEW t \in DOMAIN fwTasks,
           fwTasks' = Without(fwTasks, t), fw' \in {"idle", "done"}
    PROVE  OneUpdate' /\ fwTasks' \in Seq(Updates)
<1>1. fwTasks' \in Seq(Updates) /\ Len(fwTasks') = 0
      BY UpdatesTyped, WithoutOne
<1>2. fwTasks' = <<>>
      BY <1>1
<1> QED BY <1>1, <1>2 DEF OneUpdate

\* The end of the flash window, and the ticks before it.
LEMMA RunKept ==
    ASSUME MockInv, NEW t \in DOMAIN fwTasks, UpdateRun(t)
    PROVE  OneUpdate' /\ fwTasks' \in Seq(Updates) /\ PagesInv'
<1>1. /\ MockTypeOK /\ OneUpdate /\ fwTasks[t] \in Updates
      /\ fw \in {"started", "rebooting"}
      BY UpdatesTyped DEF MockInv
<1>2. UNCHANGED <<cur, button, stored>>
      BY DEF UpdateRun, storeVars, linkVars, airVars
<1>3. CASE /\ fwTasks[t].n > 0
           /\ fwTasks' = [fwTasks EXCEPT ![t].n = @ - 1]
           /\ shown' = Snapshot
           /\ UNCHANGED fw
  <2>1. PICK r : r = [fwTasks[t] EXCEPT !.n = fwTasks[t].n - 1]
        OBVIOUS
  <2>2. fwTasks[t].n - 1 \in Nat
        BY <1>1, <1>3 DEF Updates
  <2>3. r \in Updates /\ fwTasks' = [fwTasks EXCEPT ![t] = r]
        BY <1>1, <1>3, <2>1, <2>2 DEF Updates
  <2>4. PagesInv'
        BY <1>2, <1>3 DEF PagesInv, Snapshot
  <2> QED BY <1>1, <1>3, <2>3, <2>4, UpdateMoves
<1>4. CASE AfterFlash(t) /\ shown' = [Snapshot EXCEPT !.fw = "done"] /\ fwTasks[t].auto
  <2>1. Finalize(TRUE) \in Updates /\ Finalize(TRUE).pc = "apply"
        BY DEF Finalize, Updates, Devs, NoDev
  <2>2. fw' = "rebooting" /\ fwTasks' = [fwTasks EXCEPT ![t] = Finalize(TRUE)]
        BY <1>4 DEF AfterFlash
  <2>3. /\ OneUpdate' /\ fwTasks' \in Seq(Updates) /\ t \in DOMAIN fwTasks'
        /\ fwTasks'[t].pc = "apply"
        BY <1>1, <2>1, <2>2, UpdateMoves
  <2> QED BY <2>3 DEF PagesInv
<1>5. CASE AfterFlash(t) /\ shown' = [Snapshot EXCEPT !.fw = "done"] /\ ~fwTasks[t].auto
  <2>1. fw' = "done" /\ fwTasks' = Without(fwTasks, t)
        BY <1>5 DEF AfterFlash
  <2>2. OneUpdate' /\ fwTasks' \in Seq(Updates)
        BY <1>1, <2>1, UpdateEnds
  <2>3. PagesInv'
        BY <1>2, <1>5, <2>1 DEF PagesInv, Snapshot
  <2> QED BY <2>2, <2>3
<1> QED BY <1>3, <1>4, <1>5 DEF UpdateRun

\* What a dispatched request does to the store and to the update.
LEMMA EffectKept ==
    ASSUME MockAssumption, MockInv, NEW p, Effect(p)
    PROVE  RestartKeeps' /\ OneUpdate' /\ fwTasks' \in Seq(Updates)
<1>1. MockTypeOK /\ OneUpdate /\ RestartKeeps /\ fwTasks \in Seq(Updates)
      BY DEF MockInv, MockTypeOK
<1>2. Run(FALSE) \in Updates /\ Finalize(FALSE) \in Updates
      BY DEF Run, Finalize, Updates, Devs, NoDev, MockAssumption
<1>3. CASE /\ \E ops \in SettingEdits : Perform(ops)
           /\ UNCHANGED fwVars
  <2>1. RestartKeeps'
        BY <1>1, <1>3, EditKept DEF EditOps
  <2> QED BY <1>1, <1>3, <2>1, UpdateKept DEF fwVars
<1>4. CASE StartUpdate /\ UNCHANGED storeVars
  <2>1. CASE fw = "idle"
        BY <1>1, <1>2, <1>4, <2>1, UpdateBegins, StoreKept DEF StartUpdate
  <2>2. CASE fw # "idle"
        BY <1>1, <1>4, <2>2, UpdateKept, StoreKept DEF StartUpdate, fwVars
  <2> QED BY <2>1, <2>2
<1>5. CASE /\ fw = "done"
           /\ fw' = "rebooting" /\ fwTasks' = Append(fwTasks, Finalize(FALSE))
           /\ UNCHANGED storeVars
      BY <1>1, <1>2, <1>5, UpdateBegins, StoreKept
<1>6. CASE UNCHANGED fwVars /\ UNCHANGED storeVars
      BY <1>1, <1>6, UpdateKept, StoreKept DEF fwVars
<1> QED BY <1>3, <1>4, <1>5, <1>6 DEF Effect

-----------------------------------------------------------------------------
\* The steps, by who takes them.

LEMMA ClientKept ==
    ASSUME MockAssumption, MockInv, Client
    PROVE  MockInv'
<1>1. /\ MockTypeOK /\ RestartKeeps /\ OneUpdate /\ AirInv /\ GattInv /\ PagesInv
      BY DEF MockInv
<1>2. ASSUME NEW d \in Devs, Connect(d)
      PROVE  MockInv'
  <2>1. UNCHANGED <<storeVars, fwVars, airVars, gattVars>>
        BY <1>2 DEF Connect
  <2>2. links' \subseteq Devs /\ cur' \in Devs \cup {NoDev} /\ gen' \in Nat
        BY <1>1, <1>2 DEF Connect, MockTypeOK
  <2>3. MockTypeOK'
        BY <1>1, <2>1, <2>2 DEF MockTypeOK, fwVars, airVars, gattVars
  <2>4. PagesInv'
    <3>1. (cur = NoDev) \in BOOLEAN /\ LogIf(cur = NoDev) /\ (cur = NoDev \/ UNCHANGED cur)
          BY <1>2 DEF Connect
    <3> QED BY <1>1, <2>1, <3>1, PagesKept DEF storeVars
  <2> QED BY <1>1, <2>1, <2>3, <2>4, StoreKept, UpdateKept, AirKept, GattKept DEF MockInv
<1>3. ASSUME NEW d \in Devs, Disconnect(d)
      PROVE  MockInv'
  <2>1. UNCHANGED <<storeVars, fwVars, airVars, apps, torn>>
        BY <1>3 DEF Disconnect
  <2>2. links' \subseteq Devs /\ cur' \in Devs \cup {NoDev} /\ gen' = gen
        BY <1>1, <1>3 DEF Disconnect, Gone, MockTypeOK
  <2>3. GattInv' /\ rmTasks' \in Seq(Removals)
        BY <1>1, <1>3, <2>1, QueuedKept DEF Disconnect
  <2>4. MockTypeOK'
        BY <1>1, <2>1, <2>2, <2>3 DEF MockTypeOK, fwVars, airVars
  <2>5. PagesInv'
    <3>1. (cur = d) \in BOOLEAN /\ LogIf(cur = d) /\ (cur = d \/ UNCHANGED cur)
          BY <1>3 DEF Disconnect, Gone
    <3> QED BY <1>1, <2>1, <3>1, PagesKept DEF storeVars
  <2> QED BY <1>1, <2>1, <2>3, <2>4, <2>5, StoreKept, UpdateKept, AirKept DEF MockInv
<1>4. ASSUME NEW c \in {"A5", "A6"}, Subscribe(c)
      PROVE  MockInv'
      BY <1>4, Quiet DEF Subscribe
<1>5. ASSUME NEW p \in Procs, Receive(p)
      PROVE  MockInv'
      BY <1>5, Quiet DEF Receive, linkVars
<1> QED BY <1>2, <1>3, <1>4, <1>5 DEF Client

LEMMA WebPageKept ==
    ASSUME MockAssumption, MockInv, WebPage
    PROVE  MockInv'
<1>1. /\ MockTypeOK /\ RestartKeeps /\ OneUpdate /\ AirInv /\ GattInv /\ PagesInv
      BY DEF MockInv
<1>2. CASE Edit
  <2>1. UNCHANGED <<fwVars, linkVars, airVars, gattVars>> /\ Log
        BY <1>2 DEF Edit
  <2>2. RestartKeeps'
        BY <1>1, <1>2, EditKept DEF Edit
  <2>3. MockTypeOK'
        BY <1>1, <2>1 DEF MockTypeOK, fwVars, linkVars, airVars, gattVars
  <2> QED BY <1>1, <2>1, <2>2, <2>3, UpdateKept, AirKept, GattKept, PagesTold DEF MockInv
<1>3. CASE TriggerUpdate
  <2>1. UNCHANGED <<storeVars, linkVars, airVars, gattVars>> /\ Log
        BY <1>3 DEF TriggerUpdate
  <2>2. Run(TRUE) \in Updates
        BY DEF Run, Updates, Devs, NoDev, MockAssumption
  <2>3. OneUpdate' /\ fwTasks' \in Seq(Updates)
        BY <1>1, <1>3, <2>2, UpdateBegins DEF TriggerUpdate
  <2>4. MockTypeOK'
        BY <1>1, <2>1, <2>3 DEF MockTypeOK, linkVars, airVars, gattVars
  <2> QED BY <1>1, <2>1, <2>3, <2>4, StoreKept, AirKept, GattKept, PagesTold DEF MockInv
<1>4. CASE Press
  <2>1. UNCHANGED <<storeVars, fwVars, linkVars, onAir, stayed, gattVars>> /\ Log
        BY <1>4 DEF Press, faultVars
  <2>2. Caller(<<"web">>, TRUE) \in Callers
        BY DEF Caller, Callers
  <2>3. AirInv' /\ advQ' \in Seq(Callers) /\ button' \in BOOLEAN
        BY <1>1, <1>4, <2>1, <2>2, CallerQueued DEF Press
  <2>4. MockTypeOK'
        BY <1>1, <2>1, <2>3 DEF MockTypeOK, fwVars, linkVars, gattVars
  <2> QED BY <1>1, <2>1, <2>3, <2>4, StoreKept, UpdateKept, GattKept, PagesTold DEF MockInv
<1> QED BY <1>2, <1>3, <1>4 DEF WebPage

LEMMA UpdateTaskKept ==
    ASSUME MockAssumption, MockInv, NEW t \in DOMAIN fwTasks,
           UpdateRun(t) \/ FinalizeApply(t) \/ FinalizeDrops(t) \/ FinalizeEnds(t)
    PROVE  MockInv'
<1>1. /\ MockTypeOK /\ RestartKeeps /\ OneUpdate /\ AirInv /\ GattInv /\ PagesInv
      BY DEF MockInv
<1>2. /\ t = 1 /\ Len(fwTasks) = 1 /\ DOMAIN fwTasks = {t}
      /\ fwTasks[t] \in Updates /\ fw \in {"started", "rebooting"}
      BY <1>1, UpdatesTyped
<1>3. CASE UpdateRun(t)
  <2>1. UNCHANGED <<storeVars, linkVars, airVars, gattVars>>
        BY <1>3 DEF UpdateRun
  <2>2. OneUpdate' /\ fwTasks' \in Seq(Updates) /\ PagesInv'
        BY <1>3, RunKept
  <2>3. MockTypeOK'
        BY <1>1, <2>1, <2>2 DEF MockTypeOK, linkVars, airVars, gattVars
  <2> QED BY <1>1, <2>1, <2>2, <2>3, StoreKept, AirKept, GattKept DEF MockInv
<1>4. CASE FinalizeApply(t)
  <2>1. UNCHANGED <<fw, linkVars, airVars, gattVars>> /\ Log
        BY <1>4 DEF FinalizeApply
  <2>2. ProfileOps("rs30") \in EditOps
        BY DEF EditOps, ProfileEdits
  <2>3. RestartKeeps'
        BY <1>1, <1>4, <2>2, EditKept DEF FinalizeApply
  <2>4. PICK r : r = [fwTasks[t] EXCEPT !.dev = cur,
                                        !.pc = IF cur = NoDev THEN "sleep" ELSE "drop"]
        OBVIOUS
  <2>5. r \in Updates
        BY <1>1, <1>2, <2>4 DEF Updates, MockTypeOK
  <2>6. fwTasks' = [fwTasks EXCEPT ![t] = r]
        BY <1>4, <2>4 DEF FinalizeApply
  <2>7. OneUpdate' /\ fwTasks' \in Seq(Updates)
        BY <1>1, <1>2, <2>1, <2>5, <2>6, UpdateMoves
  <2>8. MockTypeOK'
        BY <1>1, <2>1, <2>7 DEF MockTypeOK, linkVars, airVars, gattVars
  <2> QED BY <1>1, <2>1, <2>3, <2>7, <2>8, AirKept, GattKept, PagesTold DEF MockInv
<1>5. CASE FinalizeDrops(t)
  <2>1. UNCHANGED <<fw, storeVars, airVars, apps, torn>> /\ LogIf(cur = fwTasks[t].dev)
        BY <1>5 DEF FinalizeDrops
  <2>2. PICK r : r = [fwTasks[t] EXCEPT !.pc = "sleep"]
        OBVIOUS
  <2>3. r \in Updates /\ fwTasks' = [fwTasks EXCEPT ![t] = r]
        BY <1>2, <1>5, <2>2 DEF Updates, FinalizeDrops
  <2>4. OneUpdate' /\ fwTasks' \in Seq(Updates)
        BY <1>1, <1>2, <2>1, <2>3, UpdateMoves
  <2>5. links' \subseteq Devs /\ cur' \in Devs \cup {NoDev} /\ gen' = gen
        BY <1>1, <1>5 DEF FinalizeDrops, Gone, MockTypeOK
  <2>6. GattInv' /\ rmTasks' \in Seq(Removals)
    <3>1. CASE fwTasks[t].dev \in links
      <4>1. fwTasks[t].dev \in Devs
            BY <1>1, <3>1 DEF MockTypeOK
      <4> QED BY <1>1, <1>5, <2>1, <3>1, <4>1, QueuedKept DEF FinalizeDrops
    <3>2. CASE fwTasks[t].dev \notin links
      <4>1. UNCHANGED rmTasks
            BY <1>5, <3>2 DEF FinalizeDrops
      <4> QED BY <1>1, <2>1, <4>1, GattKept DEF gattVars, MockTypeOK
    <3> QED BY <3>1, <3>2
  <2>7. MockTypeOK'
        BY <1>1, <2>1, <2>4, <2>5, <2>6 DEF MockTypeOK, airVars
  <2>8. PagesInv'
    <3>1. CASE cur = fwTasks[t].dev
          BY <2>1, <3>1, PagesTold DEF LogIf
    <3>2. CASE cur # fwTasks[t].dev
      <4>1. cur' = cur /\ shown' = shown
            BY <1>5, <2>1, <3>2 DEF FinalizeDrops, Gone, LogIf
      <4>2. fwTasks[t].pc # "apply"
            BY <1>5 DEF FinalizeDrops
      <4>3. ~ \E u \in DOMAIN fwTasks : fwTasks[u].pc = "apply"
            BY <1>2, <4>2
      <4> QED BY <1>1, <2>1, <4>1, <4>3 DEF PagesInv, Snapshot, storeVars, airVars
    <3> QED BY <3>1, <3>2
  <2> QED BY <1>1, <2>1, <2>4, <2>6, <2>7, <2>8, StoreKept, AirKept DEF MockInv
<1>6. CASE FinalizeEnds(t)
  <2>1. UNCHANGED <<storeVars, linkVars, airVars, gattVars>> /\ Log
        BY <1>6 DEF FinalizeEnds
  <2>2. OneUpdate' /\ fwTasks' \in Seq(Updates)
        BY <1>1, <1>6, UpdateEnds DEF FinalizeEnds
  <2>3. MockTypeOK'
        BY <1>1, <2>1, <2>2 DEF MockTypeOK, linkVars, airVars, gattVars
  <2> QED BY <1>1, <2>1, <2>2, <2>3, StoreKept, AirKept, GattKept, PagesTold DEF MockInv
<1> QED BY <1>3, <1>4, <1>5, <1>6

LEMMA BurstKept ==
    ASSUME MockInv, NEW g \in Gens, BurstTask(g)
    PROVE  MockInv'
<1>1. /\ MockTypeOK /\ RestartKeeps /\ OneUpdate /\ AirInv /\ GattInv /\ PagesInv
      BY DEF MockInv
<1>2. CASE BurstWaits5(g)
      BY <1>2, Quiet DEF BurstWaits5, linkVars, LogIf
<1>3. CASE BurstSends(g)
      BY <1>3, Quiet DEF BurstSends, linkVars
<1>4. CASE BurstWaits6(g)
      BY <1>4, Quiet DEF BurstWaits6, linkVars
<1>5. CASE BurstReleases(g) /\ ~button
      BY <1>5, Quiet DEF BurstReleases, linkVars, airVars, faultVars
<1>6. CASE BurstReleases(g) /\ button
  <2>1. UNCHANGED <<storeVars, fwVars, linkVars, onAir, stayed, gattVars>>
        BY <1>6 DEF BurstReleases, faultVars
  <2>2. g \in Nat
        BY <1>1 DEF Gens, MockTypeOK
  <2>3. Caller(<<"burst", g>>, FALSE) \in Callers
        BY <2>2 DEF Caller, Callers
  <2>4. button' = FALSE /\ advQ' = Append(advQ, Caller(<<"burst", g>>, FALSE))
        BY <1>6 DEF BurstReleases
  <2>5. AirInv' /\ advQ' \in Seq(Callers) /\ advQ' # <<>>
        BY <1>1, <2>1, <2>3, <2>4, CallerQueued
  <2>6. MockTypeOK'
        BY <1>1, <2>1, <2>4, <2>5 DEF MockTypeOK, fwVars, linkVars, gattVars
  <2>7. PagesInv'
        BY <2>5 DEF PagesInv
  <2> QED BY <1>1, <2>1, <2>5, <2>6, <2>7, StoreKept, UpdateKept, GattKept DEF MockInv
<1> QED BY <1>2, <1>3, <1>4, <1>5, <1>6 DEF BurstTask

LEMMA ReconKept ==
    ASSUME MockInv, ReconTask
    PROVE  MockInv'
<1>1. PICK t \in DOMAIN recon : ReconStarts(t) \/ ReconSends(t)
      BY DEF ReconTask
<1>2. CASE ReconStarts(t)
      BY <1>2, Quiet DEF ReconStarts, linkVars
<1>3. CASE ReconSends(t)
      BY <1>3, Quiet DEF ReconSends, linkVars, LogIf
<1> QED BY <1>1, <1>2, <1>3

LEMMA RequestKept ==
    ASSUME MockAssumption, MockInv, Request
    PROVE  MockInv'
<1>1. /\ MockTypeOK /\ AirInv /\ GattInv
      BY DEF MockInv
<1>2. Answer
      BY DEF Request, AnswerInTime, AnswerLate
<1>3. UNCHANGED <<linkVars, airVars, gattVars>> /\ Log
      BY <1>2 DEF Answer
<1>4. RestartKeeps' /\ OneUpdate' /\ fwTasks' \in Seq(Updates)
      BY <1>2, EffectKept DEF Answer
<1>5. MockTypeOK'
      BY <1>1, <1>3, <1>4 DEF MockTypeOK, linkVars, airVars, gattVars
<1> QED BY <1>1, <1>3, <1>4, <1>5, AirKept, GattKept, PagesTold DEF MockInv

LEMMA AdvertKept ==
    ASSUME MockInv, NEW i \in Holders,
           AdvertUnregister(i) \/ AdvertRegister(i) \/ AdvertFails(i) \/ AdvertBreaks(i)
    PROVE  MockInv'
<1>1. /\ MockTypeOK /\ RestartKeeps /\ OneUpdate /\ AirInv /\ GattInv /\ PagesInv
      BY DEF MockInv
<1>2. UNCHANGED <<storeVars, fwVars, linkVars, button, gattVars>>
      BY DEF AdvertUnregister, AdvertRegister, AdvertFails, AdvertBreaks
<1>3. AirInv' /\ advQ' \in Seq(Callers) /\ stayed' \in BOOLEAN /\ PagesInv'
  <2>1. CASE AdvertUnregister(i)
    <3>1. onAir' = "nothing" \/ stayed'
          BY <2>1 DEF AdvertUnregister
    <3> QED BY <1>1, <2>1, <3>1, UnregisterKept DEF PagesInv
  <2>2. CASE AdvertRegister(i)
    <3>1. /\ advQ[i].pc = "register" /\ advQ' = Without(advQ, i)
          /\ UNCHANGED <<button, stayed>>
          /\ onAir' \in {onAir, IF advQ[i].s THEN "pressed" ELSE "idle"} /\ Log
          BY <2>2 DEF AdvertRegister, faultVars
    <3> QED BY <1>1, <3>1, HolderDone, PagesTold DEF MockTypeOK
  <2>3. CASE AdvertFails(i) \/ AdvertBreaks(i)
    <3>1. /\ advQ[i].pc = "register" /\ advQ' = Without(advQ, i)
          /\ UNCHANGED <<button, stayed>>
          /\ onAir' \in {onAir, IF advQ[i].s THEN "pressed" ELSE "idle"} /\ onAir' = onAir
          BY <2>3 DEF AdvertFails, AdvertBreaks, faultVars
    <3>2. AirInv' /\ advQ' \in Seq(Callers) /\ (onAir = "nothing" \/ stayed)
          BY <1>1, <3>1, HolderDone
    <3> QED BY <1>1, <3>1, <3>2 DEF PagesInv, MockTypeOK
  <2> QED BY <2>1, <2>2, <2>3
<1>4. MockTypeOK'
      BY <1>1, <1>2, <1>3 DEF MockTypeOK, fwVars, linkVars, gattVars
<1> QED BY <1>1, <1>2, <1>3, <1>4, StoreKept, UpdateKept, GattKept DEF MockInv

LEMMA RemovalKept ==
    ASSUME MockAssumption, MockInv, NEW t \in DOMAIN rmTasks,
           \/ RemovalReadsAddress(t) \/ RemovalRemoves(t) \/ RemovalFails(t)
           \/ RemovalUnregisters(t) \/ RemovalRegisters(t)
    PROVE  MockInv'
<1>1. /\ MockTypeOK /\ RestartKeeps /\ OneUpdate /\ AirInv /\ GattInv /\ PagesInv
      BY DEF MockInv
<1>2. UNCHANGED <<storeVars, fwVars, gen>>
      BY DEF RemovalReadsAddress, RemovalRemoves, RemovalFails, RemovalUnregisters,
             RemovalRegisters, Gone, linkVars
<1>3. CASE RemovalReadsAddress(t)
  <2>1. UNCHANGED <<linkVars, onAir, faultVars, apps, torn>>
        BY <1>3 DEF RemovalReadsAddress
  <2>2. GattInv' /\ rmTasks' \in Seq(Removals)
        BY <1>1, <1>3, AddressKept
  <2>3. AirInv' /\ advQ' \in Seq(Callers) /\ button' \in BOOLEAN /\ PagesInv'
    <3>1. CASE /\ button /\ button' = FALSE
               /\ advQ' = Append(advQ, Caller(<<"removal">>, FALSE))
      <4>1. Caller(<<"removal">>, FALSE) \in Callers
            BY DEF Caller, Callers
      <4>2. AirInv' /\ advQ' \in Seq(Callers) /\ advQ' # <<>>
            BY <1>1, <2>1, <3>1, <4>1, CallerQueued DEF faultVars
      <4> QED BY <3>1, <4>2 DEF PagesInv
    <3>2. CASE UNCHANGED <<button, advQ>>
      <4>1. Log
            BY <1>3, <3>2 DEF RemovalReadsAddress, LogIf
      <4> QED BY <1>1, <2>1, <3>2, <4>1, AirKept, PagesTold
              DEF airVars, faultVars, MockTypeOK
    <3>3. \/ UNCHANGED <<button, advQ>>
          \/ /\ button /\ button' = FALSE
             /\ advQ' = Append(advQ, Caller(<<"removal">>, FALSE))
          BY <1>1, <1>3 DEF RemovalReadsAddress, MockTypeOK
    <3> QED BY <3>1, <3>2, <3>3
  <2>4. MockTypeOK'
        BY <1>1, <1>2, <2>1, <2>2, <2>3 DEF MockTypeOK, fwVars, linkVars, faultVars
  <2> QED BY <1>1, <1>2, <2>2, <2>3, <2>4, StoreKept, UpdateKept DEF MockInv
<1>4. CASE RemovalRemoves(t)
  <2>1. UNCHANGED airVars /\ Log
        BY <1>4 DEF RemovalRemoves
  <2>2. links' \subseteq Devs /\ cur' \in Devs \cup {NoDev} /\ torn' \in BOOLEAN
        BY <1>1, <1>4 DEF RemovalRemoves, Gone, MockTypeOK
  <2>3. GattInv' /\ rmTasks' \in Seq(Removals)
        BY <1>1, <1>4, RemovesKept
  <2>4. MockTypeOK'
        BY <1>1, <1>2, <2>1, <2>2, <2>3 DEF MockTypeOK, fwVars, airVars
  <2> QED BY <1>1, <1>2, <2>1, <2>3, <2>4, StoreKept, UpdateKept, AirKept, PagesTold
          DEF MockInv
<1>5. CASE RemovalFails(t) \/ RemovalUnregisters(t) \/ RemovalRegisters(t)
  <2>1. UNCHANGED <<linkVars, airVars, torn>> /\ (Log \/ UNCHANGED shown)
        BY <1>5 DEF RemovalFails, RemovalUnregisters, RemovalRegisters, LogIf
  <2>2. GattInv' /\ rmTasks' \in Seq(Removals)
    <3>1. CASE RemovalFails(t)
      <4>1. t \notin Busy /\ Ends(t) /\ UNCHANGED <<apps, torn>>
            BY <3>1 DEF RemovalFails, Busy
      <4> QED BY <1>1, <4>1, EndsKept
    <3>2. CASE RemovalUnregisters(t)
          BY <1>1, <3>2, UnregistersKept
    <3>3. CASE RemovalRegisters(t)
          BY <1>1, <3>3, RegistersKept
    <3> QED BY <1>5, <3>1, <3>2, <3>3
  <2>3. MockTypeOK'
        BY <1>1, <1>2, <2>1, <2>2 DEF MockTypeOK, fwVars, linkVars, airVars
  <2>4. PagesInv'
    <3>1. CASE Log
          BY <3>1, PagesTold
    <3>2. CASE UNCHANGED shown
          BY <1>1, <1>2, <2>1, <3>2 DEF PagesInv, Snapshot, storeVars, fwVars, linkVars, airVars
    <3> QED BY <2>1, <3>1, <3>2
  <2> QED BY <1>1, <1>2, <2>1, <2>2, <2>3, <2>4, StoreKept, UpdateKept, AirKept DEF MockInv
<1> QED BY <1>3, <1>4, <1>5

LEMMA ExpireKept ==
    ASSUME MockInv, NEW d \in Devs, Expire(d)
    PROVE  MockInv'
<1>1. /\ MockTypeOK /\ RestartKeeps /\ OneUpdate /\ AirInv /\ GattInv /\ PagesInv
      BY DEF MockInv
<1>2. UNCHANGED <<storeVars, fwVars, links, cur, gen, airVars, rmTasks, shown>> /\ torn' = TRUE
      BY DEF Expire
<1>3. MockTypeOK' /\ GattInv'
      BY <1>1, <1>2 DEF MockTypeOK, GattInv, fwVars, airVars
<1>4. PagesInv'
      BY <1>1, <1>2 DEF PagesInv, Snapshot, storeVars, fwVars, airVars
<1> QED BY <1>1, <1>2, <1>3, <1>4, StoreKept, UpdateKept, AirKept DEF MockInv

\* A process that has just started.
LEMMA StartHolds ==
    ASSUME fw = "idle", fwTasks = <<>>, links = {}, cur = NoDev, gen = 0, button = FALSE,
           advQ = <<>>, onAir = "idle", apps = AllApps, rmTasks = <<>>, torn = FALSE,
           shown = Snapshot, stayed = FALSE, RestartKeeps
    PROVE  MockInv
<1>1. MockTypeOK
      BY EmptySeq DEF MockTypeOK
<1>2. OneUpdate
      BY DEF OneUpdate
<1>3. AirInv
  <2>1. \A i \in 2..Len(advQ) : FALSE
        OBVIOUS
  <2> QED BY <2>1 DEF AirInv
<1>4. Busy = {}
      BY DEF Busy
<1>5. GattInv /\ PagesInv
      BY <1>4 DEF GattInv, PagesInv
<1> QED BY <1>1, <1>2, <1>3, <1>5 DEF MockInv

LEMMA CrashKept ==
    ASSUME MockInv, Crash
    PROVE  MockInv'
<1>1. /\ fw' = "idle" /\ fwTasks' = <<>> /\ links' = {} /\ cur' = NoDev /\ gen' = 0
      /\ button' = FALSE /\ advQ' = <<>> /\ onAir' = "idle" /\ apps' = AllApps
      /\ rmTasks' = <<>> /\ torn' = FALSE /\ shown' = Snapshot' /\ stored' = Loaded(disk')
      /\ stayed' = FALSE
      BY DEF Crash, Log
<1>2. MockTypeOK'
      BY <1>1, EmptySeq DEF MockTypeOK
<1>3. RestartKeeps' /\ OneUpdate'
  <2>1. PICK ops \in EditOps : \E n \in 0..Len(ops) : Killed(ops, n)
        BY DEF Crash
  <2>2. RestartKeeps
        BY DEF MockInv
  <2>3. RestartKeeps'
        BY <1>1, <2>1, <2>2, KillKept
  <2> QED BY <1>1, <2>3 DEF OneUpdate
<1>4. AirInv'
  <2>1. \A i \in 2..Len(advQ') : FALSE
        BY <1>1
  <2> QED BY <1>1, <2>1 DEF AirInv
<1>5. Busy' = {}
      BY <1>1 DEF Busy
<1>6. GattInv' /\ PagesInv'
      BY <1>1, <1>5 DEF GattInv, PagesInv, AllApps
<1> QED BY <1>2, <1>3, <1>4, <1>6 DEF MockInv

LEMMA StutterKept ==
    ASSUME MockInv, UNCHANGED vars
    PROVE  MockInv'
BY Quiet DEF vars, linkVars

-----------------------------------------------------------------------------
\* The inductive invariant of the mock, for any budgets, numbers of frames and
\* applications.
THEOREM MockInvariant == Spec => []MockInv
<1>1. Init => MockInv
  <2>1. Init => RestartKeeps
        BY DEF Init, RestartKeeps, Loaded
  <2> QED BY <2>1, StartHolds DEF Init
<1>2. MockInv /\ [Next]_vars => MockInv'
  <2> SUFFICES ASSUME MockInv, [Next]_vars PROVE MockInv'
      OBVIOUS
  <2>1. CASE Client
        BY <2>1, MockAssumption, ClientKept
  <2>2. CASE WebPage
        BY <2>2, MockAssumption, WebPageKept
  <2>3. CASE UpdateTask
        BY <2>3, MockAssumption, UpdateTaskKept DEF UpdateTask
  <2>4. CASE ReconTask
        BY <2>4, ReconKept
  <2>5. CASE Request
        BY <2>5, MockAssumption, RequestKept
  <2>6. CASE Advert
        BY <2>6, AdvertKept DEF Advert
  <2>7. CASE Removal
        BY <2>7, MockAssumption, RemovalKept DEF Removal
  <2>8. CASE \E g \in Gens : BurstTask(g)
        BY <2>8, BurstKept
  <2>9. CASE \E d \in Devs : Expire(d)
        BY <2>9, ExpireKept
  <2>10. CASE Crash
        BY <2>10, CrashKept
  <2>11. CASE UNCHANGED vars
        BY <2>11, StutterKept
  <2> QED BY <2>1, <2>2, <2>3, <2>4, <2>5, <2>6, <2>7, <2>8, <2>9, <2>10, <2>11 DEF Next
<1> QED BY <1>1, <1>2, PTL DEF Spec

\* What the mock serves is what was last written, through any number of restarts: every
\* handler of _handle_write_*, _handle_factory_reset and _fw_update_finalize saves what
\* it assigns, and one that is killed after any of its commits leaves each value as it
\* was or as it was to be, but for the firmware rows of a factory reset that is cut short.
THEOREM RestartAlwaysKeeps == Spec => []RestartKeeps
<1>1. MockInv => RestartKeeps
      BY DEF MockInv
<1> QED BY <1>1, MockInvariant, PTL

\* Web page and clients together never have two updates under way, and
\* _fw_update_state says started or rebooting exactly while there is one.
THEOREM AlwaysOneUpdate == Spec => []OneUpdate
<1>1. MockInv => OneUpdate
      BY DEF MockInv
<1> QED BY <1>1, MockInvariant, PTL

\* When nothing is under way, the advertisement shows the button, the applications are
\* registered and the pages are up to date, whatever interleaving of _update_advert,
\* _force_remove_and_reregister, bursts, updates and crashes came before.
THEOREM SeenIsAlwaysTrue == Spec => []SeenIsTrue
<1>1. MockInv => SeenIsTrue
  <2> SUFFICES ASSUME MockInv PROVE SeenIsTrue
      OBVIOUS
  <2>1. advQ = <<>> /\ onAir # "nothing" => (onAir = "pressed") = button \/ stayed
        BY DEF MockInv, AirInv
  <2>2. rmTasks = <<>> => Busy = {}
        BY DEF Busy
  <2>3. rmTasks = <<>> /\ ~torn => apps = AllApps
        BY <2>2 DEF MockInv, GattInv
  <2>4. ASSUME NEW u \in DOMAIN fwTasks, fwTasks[u].pc = "apply"
        PROVE  \E t \in ToSet(fwTasks) : t.pc = "apply"
    <3>1. fwTasks[u] \in ToSet(fwTasks)
          BY DEF ToSet
    <3> QED BY <2>4, <3>1
  <2> QED BY <2>1, <2>3, <2>4 DEF MockInv, PagesInv, SeenIsTrue
<1> QED BY <1>1, MockInvariant, PTL
=============================================================================
