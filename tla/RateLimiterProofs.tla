------------------------- MODULE RateLimiterProofs -------------------------
(***************************************************************************)
(* Proofs about RateLimiter, for any keys, limit and window.               *)
(***************************************************************************)
EXTENDS RateLimiter, TLAPS

\* A sequence of requests that passed.
LEMMA PassedFacts ==
  ASSUME NEW s \in Seq(Passed)
  PROVE  /\ Len(s) \in Nat
         /\ \A i \in 1..Len(s) : s[i].at \in Nat /\ s[i].first \in Nat
<1>1. Len(s) \in Nat /\ \A i \in 1..Len(s) : s[i] \in Passed
  OBVIOUS
<1>2. \A q \in Passed : q.at \in Nat /\ q.first \in Nat
  BY DEF Passed
<1> QED BY <1>1, <1>2

\* What is appended comes after what was there.
LEMMA AppendFacts ==
  ASSUME NEW s \in Seq(Passed), NEW p \in Passed
  PROVE  /\ Len(Append(s, p)) = Len(s) + 1
         /\ \A i \in 1..Len(s) : Append(s, p)[i] = s[i]
         /\ Append(s, p)[Len(s) + 1] = p
OBVIOUS

\* The grouping of the requests, member by member.
LEMMA GroupsFacts ==
  ASSUME NEW s \in Seq(Passed), GroupsOk(s),
         NEW i \in 1..Len(s), NEW j \in 1..Len(s)
  PROVE  /\ s[i].first <= s[i].at /\ s[i].at <= s[i].first + Window
         /\ i < j => s[i].first = s[j].first \/ s[j].first > s[i].first + Window
         /\ s[i].at = s[i].first \/ (i > 1 /\ s[i - 1].first = s[i].first)
         /\ j = i + Max => s[j].first > s[i].first + Window
         /\ s[i].first \in Nat /\ s[i].at \in Nat
BY PassedFacts DEF GroupsOk

\* 2 * Max requests in a row are of three records, or start with a record and
\* are of two.
LEMMA GroupsSpread ==
  ASSUME NEW s \in Seq(Passed), GroupsOk(s),
         NEW i \in 1..Len(s), NEW last \in 1..Len(s), last = i + 2 * Max - 1
  PROVE  s[last].at > s[i].at + Window
<1>1. Max \in Nat \ {0} /\ Window \in Nat /\ Len(s) \in Nat
  BY LimiterAssumption, PassedFacts
<1>2. /\ s[last].first \in Nat /\ s[last].at \in Nat /\ s[i].at \in Nat
      /\ s[last].first <= s[last].at
      /\ s[i].at <= s[i].first + Window /\ s[i].first \in Nat
  BY GroupsFacts
<1>3. CASE s[i].at = s[i].first
  <2>1. i + Max \in 1..Len(s) /\ i + Max <= last
    BY <1>1
  <2>2. ASSUME NEW j \in 1..Len(s), j = i + Max
        PROVE  s[last].first > s[i].first + Window
    <3>1. s[j].first > s[i].first + Window /\ s[j].first \in Nat
      BY <2>2, GroupsFacts
    <3>2. CASE j = last
      BY <3>1, <3>2
    <3>3. CASE j < last
      <4>1. CASE s[last].first = s[j].first
        BY <4>1, <3>1
      <4>2. CASE s[last].first > s[j].first + Window
        <5>1. ASSUME NEW a \in Nat, NEW b \in Nat, NEW c \in Nat,
                     b > a + Window, c > b + Window
              PROVE  c > a + Window
          BY <5>1, <1>1
        <5> QED BY <4>2, <5>1, <3>1, <1>2
      <4> QED BY <4>1, <4>2, <3>3, GroupsFacts
    <3> QED BY <3>2, <3>3, <2>1, <2>2, <1>1
  <2>3. s[last].first > s[i].first + Window
    BY <2>1, <2>2
  <2> QED BY <2>3, <1>1, <1>2, <1>3
<1>4. CASE i > 1 /\ s[i - 1].first = s[i].first
  <2>1. /\ i - 1 \in 1..Len(s) /\ (i - 1) + Max \in 1..Len(s)
        /\ last = ((i - 1) + Max) + Max
    BY <1>1, <1>4
  <2>2. ASSUME NEW h \in 1..Len(s), NEW j \in 1..Len(s),
               h = i - 1, j = h + Max, last = j + Max
        PROVE  s[last].first > s[i].first + Window + Window
    <3>1. s[j].first > s[h].first + Window /\ s[j].first \in Nat
      BY <2>2, GroupsFacts
    <3>2. s[last].first > s[j].first + Window
      BY <2>2, GroupsFacts
    <3>3. s[h].first = s[i].first
      BY <1>4, <2>2
    <3>4. s[j].first > s[i].first + Window /\ s[j].first \in Nat
      BY <3>1, <3>3
    <3>5. ASSUME NEW a \in Nat, NEW b \in Nat, NEW c \in Nat,
                 b > a + Window, c > b + Window
          PROVE  c > a + Window + Window
      BY <3>5, <1>1
    <3> QED BY <3>2, <3>4, <3>5, <1>2
  <2>3. s[last].first > s[i].first + Window + Window
    BY <2>1, <2>2
  <2> QED BY SMTT(30), <2>3, <1>1, <1>2
<1> QED BY <1>3, <1>4, GroupsFacts

\* A key whose requests are grouped, and whose record counts fewer than Max of
\* them, may have one more counted in that record.
LEMMA GroupsAppend ==
  ASSUME NEW s \in Seq(Passed), NEW r \in Record \union {Absent},
         NEW first \in Nat, now \in Nat,
         GroupsOk(s), RecordOk(r, s),
         \/ first = now /\ (r # Absent => now > r.first + Window)
         \/ /\ r # Absent
            /\ first = r.first
            /\ now <= r.first + Window
            /\ r.count + 1 <= Max
  PROVE  GroupsOk(Append(s, [at |-> now, first |-> first]))
<1> DEFINE n == Len(s)
           t == Append(s, [at |-> now, first |-> first])
           old == n - Share(r)
<1>1. /\ n \in Nat
      /\ Len(t) = n + 1
      /\ \A i \in 1..n : t[i] = s[i] /\ s[i].at \in Nat /\ s[i].first \in Nat
      /\ t[n + 1].at = now /\ t[n + 1].first = first
  <2>1. [at |-> now, first |-> first] \in Passed
    BY DEF Passed
  <2> QED BY <2>1, PassedFacts, AppendFacts
<1>2. Max \in Nat \ {0} /\ Window \in Nat \ {0}
  BY LimiterAssumption
<1>3. r.count \in 0..(Max + 1) /\ r.first \in Nat /\ Share(r) \in 0..Max
  BY <1>2 DEF Record, Absent, Share
<1>4. old \in 0..n
  BY <1>1, <1>3 DEF RecordOk
<1>5. CASE first = now /\ (r # Absent => now > r.first + Window)
  <2>1. \A i \in 1..n : s[i].first + Window < now
    <3> SUFFICES ASSUME NEW i \in 1..n PROVE s[i].first + Window < now
      OBVIOUS
    <3>1. CASE r = Absent
      BY <3>1, <1>1, <1>2 DEF RecordOk, Share, Absent
    <3>2. CASE r # Absent /\ i > old
      <4>1. s[i].first = r.first
        BY <3>2, <1>1, <1>4 DEF RecordOk
      <4> QED BY <4>1, <3>2, <1>5
    <3>3. CASE r # Absent /\ i <= old
      <4>1. s[i].first + Window < r.first /\ r.first <= now
        BY <3>3, <1>1, <1>4 DEF RecordOk
      <4> QED BY <4>1, <1>1, <1>2, <1>3
    <3> QED BY <3>1, <3>2, <3>3, <1>1, <1>4
  <2> QED BY SMTT(30), <2>1, <1>1, <1>2, <1>5 DEF GroupsOk
<1>6. CASE /\ r # Absent
           /\ first = r.first
           /\ now <= r.first + Window
           /\ r.count + 1 <= Max
  <2>1. r.count \in Nat \ {0} /\ Share(r) = r.count /\ old = n - r.count
    BY <1>2, <1>3, <1>6 DEF Record, Absent, Share
  <2>2. /\ \A i \in 1..n : i > old => s[i].first = first
        /\ \A i \in 1..n : i <= old => s[i].first + Window < first
        /\ first <= now
    BY <1>1, <1>4, <1>6 DEF RecordOk
  <2>3. n >= 1 /\ s[n].first = first
    BY <2>1, <2>2, <1>1, <1>4
  <2>4. \A i \in 1..n : i + Max = n + 1 => s[i].first + Window < first
    BY <2>1, <2>2, <1>1, <1>2, <1>6
  <2>5. \A i \in 1..(n + 1) : t[i].first <= t[i].at /\ t[i].at <= t[i].first + Window
    BY <2>2, <1>1, <1>2, <1>6 DEF GroupsOk
  <2>6. \A i, j \in 1..(n + 1) :
          i < j => t[i].first = t[j].first \/ t[j].first > t[i].first + Window
    <3>1. \A i, j \in 1..n :
            i < j => s[i].first = s[j].first \/ s[j].first > s[i].first + Window
      BY DEF GroupsOk
    <3>2. \A i \in 1..n : s[i].first = first \/ first > s[i].first + Window
      BY <2>2, <1>1, <1>2, <1>4
    <3> SUFFICES ASSUME NEW i \in 1..(n + 1), NEW j \in 1..(n + 1), i < j
                 PROVE  \/ t[i].first = t[j].first
                        \/ t[j].first > t[i].first + Window
      OBVIOUS
    <3>3. i \in 1..n /\ t[i] = s[i]
      BY <1>1
    <3>4. CASE j \in 1..n
      BY <3>1, <3>3, <3>4, <1>1
    <3>5. CASE j = n + 1
      BY <3>2, <3>3, <3>5, <1>1
    <3>6. j \in 1..n \/ j = n + 1
      BY n \in Nat
    <3> QED BY <3>4, <3>5, <3>6
  <2>7. \A i \in 1..(n + 1) :
          t[i].at = t[i].first \/ (i > 1 /\ t[i - 1].first = t[i].first)
    BY <2>3, <1>1 DEF GroupsOk
  <2>8. \A i \in 1..(n + 1) :
          i + Max <= n + 1 => t[i + Max].first > t[i].first + Window
    <3> SUFFICES ASSUME NEW i \in 1..(n + 1), i + Max <= n + 1
                 PROVE  t[i + Max].first > t[i].first + Window
      OBVIOUS
    <3>1. i \in 1..n /\ i + Max \in 1..(n + 1) /\ t[i] = s[i]
      BY <1>1, <1>2
    <3>2. CASE i + Max = n + 1
      BY <3>1, <3>2, <2>4, <1>1
    <3>3. CASE i + Max \in 1..n
      <4>1. s[i + Max].first > s[i].first + Window
        BY <3>1, <3>3 DEF GroupsOk
      <4> QED BY <4>1, <3>1, <3>3, <1>1
    <3>4. i + Max = n + 1 \/ i + Max \in 1..n
      BY <3>1, n \in Nat
    <3> QED BY <3>2, <3>3, <3>4
  <2>9. Len(t) = n + 1
    BY <1>1
  <2>10. GroupsOk(t)
    <3> HIDE DEF t, n
    <3> QED BY <2>5, <2>6, <2>7, <2>8, <2>9 DEF GroupsOk
  <2> QED BY <2>10
<1> QED BY <1>5, <1>6

\* The record of a key after a request of it has passed.
LEMMA RecordAppend ==
  ASSUME NEW s \in Seq(Passed), NEW r \in Record \union {Absent},
         now \in Nat, RecordOk(r, s)
  PROVE  /\ (r # Absent => now > r.first + Window) =>
              RecordOk([count |-> 1, first |-> now],
                       Append(s, [at |-> now, first |-> now]))
         /\ r # Absent /\ r.count + 1 <= Max =>
              RecordOk([r EXCEPT !.count = @ + 1],
                       Append(s, [at |-> now, first |-> r.first]))
<1> DEFINE n == Len(s)
           old == n - Share(r)
<1>1. /\ n \in Nat
      /\ \A i \in 1..n : s[i].first \in Nat
      /\ Max \in Nat \ {0} /\ Window \in Nat \ {0}
      /\ \A p \in Passed :
           /\ Len(Append(s, p)) = n + 1
           /\ \A i \in 1..n : Append(s, p)[i] = s[i]
           /\ Append(s, p)[n + 1] = p
  BY LimiterAssumption, PassedFacts, AppendFacts
<1>2. r.count \in 0..(Max + 1) /\ r.first \in Nat /\ Share(r) \in 0..Max
  BY <1>1 DEF Record, Absent, Share
<1>3. /\ old \in 0..n
      /\ \A i \in 1..n : i > old => s[i].first = r.first
      /\ \A i \in 1..n : i <= old =>
           s[i].first + Window < IF r = Absent THEN now ELSE r.first
      /\ r.first <= now
  BY <1>1, <1>2 DEF RecordOk
<1>4. ASSUME r # Absent => now > r.first + Window
      PROVE  RecordOk([count |-> 1, first |-> now],
                      Append(s, [at |-> now, first |-> now]))
  <2> DEFINE q == [count |-> 1, first |-> now]
             t == Append(s, [at |-> now, first |-> now])
  <2>1. /\ Len(t) = n + 1
        /\ \A i \in 1..n : t[i] = s[i]
        /\ t[n + 1].first = now
    BY <1>1 DEF Passed
  <2>2. q # Absent /\ Share(q) = 1 /\ q.first = now
    BY <1>1 DEF Absent, Share
  <2>3. \A i \in 1..n : s[i].first + Window < now
    BY SMTT(30), <1>1, <1>2, <1>3, <1>4 DEF Absent, Share
  <2> QED BY <2>1, <2>2, <2>3, <1>1 DEF RecordOk
<1>5. ASSUME r # Absent, r.count + 1 <= Max
      PROVE  RecordOk([r EXCEPT !.count = @ + 1],
                      Append(s, [at |-> now, first |-> r.first]))
  <2> DEFINE q == [r EXCEPT !.count = @ + 1]
             t == Append(s, [at |-> now, first |-> r.first])
  <2>1. /\ Len(t) = n + 1
        /\ \A i \in 1..n : t[i] = s[i]
        /\ t[n + 1].first = r.first
    BY <1>1, <1>2 DEF Passed
  <2>2. /\ q.count = r.count + 1 /\ q.first = r.first
        /\ q # Absent
        /\ Share(q) = Share(r) + 1
    BY <1>1, <1>2, <1>5 DEF Record, Absent, Share
  <2>3. Len(t) - Share(q) = old
    BY <2>1, <2>2, <1>1, <1>2
  <2>4. \A i \in (old + 1)..Len(t) : t[i].first = q.first
    BY <2>1, <2>2, <1>1, <1>3
  <2>5. \A i \in 1..old : t[i].first + Window < q.first
    BY <2>1, <2>2, <1>1, <1>3, <1>5
  <2>6. q.first <= now /\ old >= 0
    BY <2>2, <1>3
  <2>7. RecordOk(q, t)
    <3> HIDE DEF q, t, old
    <3> QED BY <2>2, <2>3, <2>4, <2>5, <2>6 DEF RecordOk
  <2> QED BY <2>7
<1> QED BY <1>4, <1>5

-----------------------------------------------------------------------------

\* What the limiter does to one key keeps the other keys as they were.
LEMMA KeysKept ==
  ASSUME IInv, NEW k \in Key,
         NEW r \in Record \union {Absent}, NEW s \in Seq(Passed),
         GroupsOk(s), RecordOk(r, s),
         attempts' = [attempts EXCEPT ![k] = r],
         admitted' = [admitted EXCEPT ![k] = s],
         UNCHANGED <<now, tick, running>>
  PROVE  IInv'
<1>1. TypeOK'
  BY DEF IInv, TypeOK
<1>2. \A q, u : RecordOk(q, u)' <=> RecordOk(q, u)
  BY DEF RecordOk
<1>3. \A l \in Key : GroupsOk(admitted[l])' /\ RecordOk(attempts[l], admitted[l])'
  <2> SUFFICES ASSUME NEW l \in Key
               PROVE  GroupsOk(admitted[l])' /\ RecordOk(attempts[l], admitted[l])'
    OBVIOUS
  <2>1. CASE l = k
    <3>1. attempts'[l] = r /\ admitted'[l] = s
      BY <2>1 DEF IInv, TypeOK
    <3> QED BY <3>1 DEF GroupsOk, RecordOk
  <2>2. CASE l # k
    <3>1. attempts'[l] = attempts[l] /\ admitted'[l] = admitted[l]
      BY <2>2 DEF IInv, TypeOK
    <3> QED BY <3>1 DEF IInv, GroupsOk, RecordOk
  <2> QED BY <2>1, <2>2
<1> QED BY <1>1, <1>3 DEF IInv

LEMMA InitIInv == Init => IInv
BY LimiterAssumption
DEF Init, IInv, TypeOK, GroupsOk, RecordOk, Share, Absent, Record, Passed

\* A request that starts a record.
LEMMA AllowFirstStep == ASSUME IInv, NEW k \in Key, AllowFirst(k) PROVE IInv'
<1> DEFINE r == [count |-> 1, first |-> now]
           p == [at |-> now, first |-> now]
           s == Append(admitted[k], p)
<1>1. /\ now \in Nat
      /\ attempts[k] \in Record \union {Absent}
      /\ admitted[k] \in Seq(Passed)
      /\ GroupsOk(admitted[k]) /\ RecordOk(attempts[k], admitted[k])
  BY DEF IInv, TypeOK
<1>2. attempts[k] # Absent => now > attempts[k].first + Window
  BY <1>1, LimiterAssumption DEF AllowFirst, Known, Expired, Record, Absent
<1>3. r \in Record \union {Absent} /\ p \in Passed /\ s \in Seq(Passed)
  BY <1>1, LimiterAssumption DEF Record, Passed
<1>4. GroupsOk(s)
  BY <1>1, <1>2, GroupsAppend
<1>5. RecordOk(r, s)
  BY <1>1, <1>2, RecordAppend
<1> HIDE DEF r, s
<1> QED BY <1>3, <1>4, <1>5, KeysKept DEF AllowFirst, Admit, r, s

\* A request that is counted in the record of its key.
LEMMA AllowStep == ASSUME IInv, NEW k \in Key, Allow(k) PROVE IInv'
<1> DEFINE r == [attempts[k] EXCEPT !.count = @ + 1]
           p == [at |-> now, first |-> attempts[k].first]
           s == Append(admitted[k], p)
<1>1. /\ now \in Nat
      /\ attempts[k] \in Record
      /\ attempts[k] # Absent
      /\ attempts[k].count + 1 <= Max
      /\ admitted[k] \in Seq(Passed)
      /\ GroupsOk(admitted[k]) /\ RecordOk(attempts[k], admitted[k])
  BY DEF IInv, TypeOK, Allow, Known
<1>2. now <= attempts[k].first + Window
  BY <1>1, LimiterAssumption DEF Allow, Known, Expired, Record
<1>3. r \in Record \union {Absent} /\ p \in Passed /\ s \in Seq(Passed)
  BY <1>1, LimiterAssumption DEF Record, Passed
<1>4. GroupsOk(s)
  BY <1>1, <1>2, GroupsAppend DEF Record
<1>5. RecordOk(r, s)
  BY <1>1, RecordAppend
<1>6. attempts' = [attempts EXCEPT ![k] = r]
  BY DEF Allow, IInv, TypeOK
<1> HIDE DEF r, s
<1> QED BY <1>3, <1>4, <1>5, <1>6, KeysKept DEF Allow, Admit, s

\* A refused request leaves the start of the record as it is.
LEMMA RefuseStep == ASSUME IInv, NEW k \in Key, Refuse(k) PROVE IInv'
<1> DEFINE r == [attempts[k] EXCEPT !.count = Max + 1]
<1>1. /\ attempts[k] \in Record
      /\ attempts[k].count + 1 > Max
      /\ admitted[k] \in Seq(Passed)
      /\ GroupsOk(admitted[k]) /\ RecordOk(attempts[k], admitted[k])
  BY DEF IInv, TypeOK, Refuse, Known
<1>2. /\ r \in Record
      /\ r.first = attempts[k].first
      /\ Share(r) = Max /\ Share(attempts[k]) = Max
      /\ r # Absent /\ attempts[k] # Absent
  BY <1>1, LimiterAssumption DEF Record, Share, Absent
<1>3. RecordOk(r, admitted[k])
  BY <1>1, <1>2 DEF RecordOk
<1>4. admitted' = [admitted EXCEPT ![k] = admitted[k]]
  BY DEF Refuse, IInv, TypeOK
<1>5. attempts' = [attempts EXCEPT ![k] = r]
  BY DEF Refuse, IInv, TypeOK
<1> HIDE DEF r
<1> QED BY <1>1, <1>2, <1>3, <1>4, <1>5, KeysKept DEF Refuse

\* The cleanup takes expired records only.
LEMMA CleanupStep == ASSUME IInv, Cleanup PROVE IInv'
<1>1. TypeOK'
  BY LimiterAssumption DEF IInv, TypeOK, Cleanup
<1>2. ASSUME NEW k \in Key
      PROVE  GroupsOk(admitted[k])' /\ RecordOk(attempts[k], admitted[k])'
  <2>1. /\ now \in Nat
        /\ attempts[k] \in Record \union {Absent}
        /\ admitted[k] \in Seq(Passed)
        /\ GroupsOk(admitted[k]) /\ RecordOk(attempts[k], admitted[k])
        /\ now' = now /\ admitted' = admitted
    BY DEF IInv, TypeOK, Cleanup
  <2>2. GroupsOk(admitted[k])'
    BY <2>1 DEF GroupsOk
  <2>3. CASE attempts'[k] = attempts[k]
    BY <2>1, <2>2, <2>3 DEF RecordOk
  <2>4. CASE attempts'[k] = Absent /\ attempts[k] # Absent
    <3> DEFINE s == admitted[k]
               n == Len(s)
               old == n - Share(attempts[k])
    <3>1. /\ n \in Nat /\ Window \in Nat
          /\ \A i \in 1..n : s[i].first \in Nat
          /\ attempts[k].first \in Nat /\ Share(attempts[k]) \in Nat
      BY <2>1, LimiterAssumption, PassedFacts
      DEF Record, Absent, Share
    <3>2. now > attempts[k].first + Window
      BY <2>1, <2>4, <3>1 DEF Cleanup, Expired
    <3>3. \A i \in 1..n : s[i].first + Window < now
      <4>1. \A i \in 1..n : i > old => s[i].first = attempts[k].first
        BY <2>1, <3>1 DEF RecordOk
      <4>2. \A i \in 1..n : i <= old => s[i].first + Window < attempts[k].first
        <5>1. \A i \in 1..old : s[i].first + Window < attempts[k].first
          BY <2>1, <2>4 DEF RecordOk
        <5>2. old \in Int /\ n \in Nat
          BY <3>1
        <5> HIDE DEF old
        <5>3. \A i \in 1..n : i <= old => i \in 1..old
          BY <5>2
        <5> QED BY <5>1, <5>3
      <4>3. old \in Int /\ now \in Nat
        BY <2>1, <3>1
      <4> HIDE DEF old
      <4>4. ASSUME NEW i \in 1..n PROVE s[i].first + Window < now
        <5>1. CASE i > old
          BY <4>1, <3>1, <3>2, <4>3, <5>1
        <5>2. CASE i <= old
          BY <4>2, <3>1, <3>2, <4>3, <5>2
        <5> QED BY <5>1, <5>2, <4>3, <3>1
      <4> QED BY <4>4
    <3>4. Share(Absent) = 0 /\ Absent.first = 0
      BY LimiterAssumption DEF Share, Absent
    <3>5. RecordOk(Absent, s)'
      BY <3>1, <3>3, <3>4, <2>1 DEF RecordOk
    <3> QED BY <3>5, <2>1, <2>2, <2>4
  <2> QED BY <2>3, <2>4, <2>1 DEF Cleanup
<1> QED BY <1>1, <1>2 DEF IInv

\* Records only grow older.
LEMMA PassStep == ASSUME IInv, Pass PROVE IInv'
<1>1. TypeOK'
  BY DEF IInv, TypeOK, Pass
<1>2. ASSUME NEW k \in Key
      PROVE  GroupsOk(admitted[k])' /\ RecordOk(attempts[k], admitted[k])'
  <2>1. /\ now \in Nat /\ now' = now + 1
        /\ attempts[k] \in Record \union {Absent}
        /\ admitted[k] \in Seq(Passed)
        /\ GroupsOk(admitted[k]) /\ RecordOk(attempts[k], admitted[k])
        /\ attempts' = attempts /\ admitted' = admitted
    BY DEF IInv, TypeOK, Pass
  <2>2. /\ Len(admitted[k]) \in Nat /\ Window \in Nat
        /\ \A i \in 1..Len(admitted[k]) : admitted[k][i].first \in Nat
        /\ attempts[k].first \in Nat /\ Share(attempts[k]) \in Nat
    BY <2>1, LimiterAssumption, PassedFacts
    DEF Record, Absent, Share
  <2>3. GroupsOk(admitted[k])'
    BY <2>1 DEF GroupsOk
  <2>4. RecordOk(attempts[k], admitted[k])'
    <3> DEFINE s == admitted[k]
               old == Len(s) - Share(attempts[k])
    <3>1. /\ old >= 0
          /\ \A i \in (old + 1)..Len(s) : s[i].first = attempts[k].first
          /\ \A i \in 1..old :
               s[i].first + Window < IF attempts[k] = Absent THEN now
                                     ELSE attempts[k].first
          /\ attempts[k].first <= now
      BY <2>1 DEF RecordOk
    <3>2. \A i \in 1..old :
            s[i].first + Window < IF attempts[k] = Absent THEN now'
                                  ELSE attempts[k].first
      BY SMTT(30), <2>1, <2>2, <3>1
    <3>3. attempts[k].first <= now'
      BY <2>1, <2>2, <3>1
    <3>4. Share(attempts[k])' = Share(attempts[k])
      BY <2>1 DEF Share
    <3> QED BY <2>1, <3>1, <3>2, <3>3, <3>4 DEF RecordOk
  <2> QED BY <2>3, <2>4
<1> QED BY <1>1, <1>2 DEF IInv

\* Every step keeps the invariant.
LEMMA NextIInv == IInv /\ [Next]_vars => IInv'
<1> SUFFICES ASSUME IInv, [Next]_vars PROVE IInv'
  OBVIOUS
<1>1. CASE Stop
  <2>1. TypeOK'
    BY <1>1 DEF Stop, IInv, TypeOK
  <2>2. now' = now /\ attempts' = attempts /\ admitted' = admitted
    BY <1>1 DEF Stop
  <2>3. \A k \in Key : (GroupsOk(admitted[k]) /\ RecordOk(attempts[k], admitted[k]))'
    BY <2>2, Zenon DEF IInv, GroupsOk, RecordOk
  <2> QED BY <2>1, <2>3 DEF IInv
<1>2. CASE UNCHANGED vars
  BY <1>2 DEF vars, IInv, TypeOK, GroupsOk, RecordOk
<1> QED BY <1>1, <1>2, AllowFirstStep, AllowStep, RefuseStep, CleanupStep,
           PassStep DEF Next

\* The invariant holds in every behaviour of the limiter.
THEOREM Invariant == Spec => []IInv
<1>1. Init => IInv
  BY InitIInv
<1>2. IInv /\ [Next]_vars => IInv'
  BY NextIInv
<1> QED BY <1>1, <1>2, PTL DEF Spec

\* The variables keep their types.
THEOREM TypeCorrect == Spec => []TypeOK
<1>1. IInv => TypeOK
  BY DEF IInv
<1> QED BY <1>1, Invariant, PTL

\* Any 2 * Max requests in a row take longer than a window.
THEOREM SpreadOutHolds == Spec => []SpreadOut
<1>1. ASSUME IInv PROVE SpreadOut
  <2> SUFFICES ASSUME NEW k \in Key, NEW i \in 1..Len(admitted[k]),
                      i + 2 * Max - 1 <= Len(admitted[k])
               PROVE  admitted[k][i + 2 * Max - 1].at > admitted[k][i].at + Window
    BY DEF SpreadOut
  <2>1. admitted[k] \in Seq(Passed) /\ GroupsOk(admitted[k])
    BY <1>1 DEF IInv, TypeOK
  <2>2. i + 2 * Max - 1 \in 1..Len(admitted[k])
    BY <2>1, LimiterAssumption
  <2> QED BY <2>1, <2>2, GroupsSpread
<1> QED BY <1>1, Invariant, PTL

\* Where a request would be refused, Max requests passed within a window.
THEOREM RefusedHadShareHolds == Spec => []RefusedHadShare
<1>1. ASSUME IInv PROVE RefusedHadShare
  <2> SUFFICES ASSUME NEW k \in Key, Known(k), attempts[k].count >= Max
               PROVE  /\ Len(admitted[k]) >= Max
                      /\ admitted[k][Len(admitted[k]) - Max + 1].at + Window >= now
    BY DEF RefusedHadShare
  <2> DEFINE s == admitted[k]
             r == attempts[k]
  <2>1. /\ s \in Seq(Passed) /\ Len(s) \in Nat
        /\ now \in Nat /\ Max \in Nat \ {0} /\ Window \in Nat
        /\ \A j \in 1..Len(s) : s[j].first \in Nat /\ s[j].at \in Nat
        /\ r \in Record
        /\ GroupsOk(s) /\ RecordOk(r, s)
    BY <1>1, LimiterAssumption, PassedFacts
    DEF IInv, TypeOK, Known
  <2>2. Share(r) = Max /\ now <= r.first + Window /\ r.first \in Nat
    BY <2>1 DEF Share, Record, Known, Expired
  <2>3. /\ Len(s) - Max >= 0
        /\ \A j \in (Len(s) - Max + 1)..Len(s) : s[j].first = r.first
    BY <2>1, <2>2 DEF RecordOk
  <2>4. Len(s) - Max + 1 \in 1..Len(s)
    BY <2>1, <2>3
  <2>5. ASSUME NEW j \in 1..Len(s), j = Len(s) - Max + 1
        PROVE  s[j].at + Window >= now
    <3>1. s[j].first = r.first
      BY <2>1, <2>3, <2>5
    <3>2. s[j].first <= s[j].at /\ s[j].at \in Nat
      BY <2>1, GroupsFacts
    <3>3. now \in Nat /\ Window \in Nat
      BY <2>1
    <3> HIDE DEF s, r
    <3> QED BY <2>2, <3>1, <3>2, <3>3
  <2> QED BY <2>1, <2>3, <2>4, <2>5
<1> QED BY <1>1, Invariant, PTL

-----------------------------------------------------------------------------
(* The refinement of FixedWindow.                                          *)

\* What a key's record is worth.
Worth(k) ==
  IF Known(k) THEN [passed |-> Share(attempts[k]), first |-> attempts[k].first]
  ELSE [passed |-> 0, first |-> 0]

LEMMA KnownFacts ==
  ASSUME IInv, NEW k \in Key, Known(k)
  PROVE  /\ attempts[k] \in Record /\ attempts[k].count \in 1..(Max + 1)
         /\ attempts[k].first \in Nat /\ now \in Nat /\ Window \in Nat
         /\ Share(attempts[k]) \in 1..Max
         /\ now <= attempts[k].first + Window
<1>1. attempts[k] \in Record /\ now \in Nat /\ Window \in Nat /\ Max \in Nat \ {0}
  BY LimiterAssumption DEF IInv, TypeOK, Known
<1> QED BY <1>1 DEF Record, Share, Known, Expired

\* A request that passes opens the window, or takes a part of its share.
LEMMA AllowFirstRefines ==
  ASSUME IInv, NEW k \in Key, AllowFirst(k) PROVE W!Open(k)
<1>1. /\ now \in Nat /\ Window \in Nat /\ Max \in Nat \ {0}
      /\ attempts \in [Key -> Record \union {Absent}]
  BY LimiterAssumption DEF IInv, TypeOK
<1>2. /\ attempts'[k] = [count |-> 1, first |-> now] /\ now' = now
      /\ \A l \in Key \ {k} : attempts'[l] = attempts[l]
  BY <1>1 DEF AllowFirst
<1>3. Worth(k) = W!Closed
  BY DEF AllowFirst, Worth, W!Closed
<1>4. Known(k)' /\ Share(attempts'[k]) = 1
  BY <1>1, <1>2 DEF Known, Expired, Absent, Share
<1>5. Worth(k)' = [passed |-> 1, first |-> now]
  BY <1>2, <1>4 DEF Worth, Share
<1>6. \A l \in Key \ {k} : Worth(l)' = Worth(l)
  BY <1>2 DEF Worth, Known, Expired, Share
<1> QED BY <1>2, <1>3, <1>5, <1>6 DEF W!Open, W!Let, AllowFirst, Admit, Worth

LEMMA AllowRefines ==
  ASSUME IInv, NEW k \in Key, Allow(k) PROVE W!Take(k)
<1>1. /\ Known(k) /\ Max \in Nat \ {0} /\ attempts \in [Key -> Record \union {Absent}]
  BY LimiterAssumption DEF IInv, TypeOK, Allow
<1>2. /\ attempts'[k] = [attempts[k] EXCEPT !.count = @ + 1] /\ now' = now
      /\ \A l \in Key \ {k} : attempts'[l] = attempts[l]
      /\ attempts[k].count + 1 <= Max
  BY <1>1 DEF Allow
<1>3. /\ Worth(k) = [passed |-> attempts[k].count, first |-> attempts[k].first]
      /\ attempts[k].count \in 1..(Max - 1)
  BY <1>1, <1>2, KnownFacts DEF Worth, Share
<1>4. /\ attempts'[k].count = attempts[k].count + 1 /\ attempts'[k].first = attempts[k].first
  BY <1>1, <1>2, KnownFacts DEF Record
<1>5. Known(k)' /\ Share(attempts'[k]) = attempts[k].count + 1
  BY <1>1, <1>2, <1>3, <1>4 DEF Known, Expired, Absent, Share
<1>6. Worth(k)' = [passed |-> attempts[k].count + 1, first |-> attempts[k].first]
  BY <1>4, <1>5 DEF Worth, Share
<1>7. \A l \in Key \ {k} : Worth(l)' = Worth(l)
  BY <1>2 DEF Worth, Known, Expired, Share
<1>8. Worth(k) # W!Closed /\ Worth(k).passed < Max
  BY <1>1, <1>3 DEF W!Closed
<1>9. /\ UNCHANGED now
      /\ admitted' = [admitted EXCEPT ![k] = Append(@, [at |-> now, first |-> Worth(k).first])]
      /\ Worth(k)' = [passed |-> Worth(k).passed + 1, first |-> Worth(k).first]
  BY <1>2, <1>3, <1>6 DEF Allow, Admit
<1> DEFINE win == [l \in Key |-> Worth(l)]
<1>10. /\ win[k] # W!Closed /\ win[k].passed < Max
       /\ win' = [win EXCEPT ![k] = [passed |-> win[k].passed + 1, first |-> win[k].first]]
  BY <1>7, <1>8, <1>9
<1> QED BY <1>9, <1>10 DEF W!Take, W!Let, Worth

\* What a refusal, a cleanup or its end does to the map is worth nothing.
LEMMA MapOnly ==
  ASSUME IInv, (\E k \in Key : Refuse(k)) \/ Cleanup \/ Stop
  PROVE  UNCHANGED <<now, admitted>> /\ \A k \in Key : Worth(k)' = Worth(k)
<1>1. UNCHANGED <<now, admitted>>
  BY DEF Refuse, Cleanup, Stop
<1>2. attempts \in [Key -> Record \union {Absent}] /\ Max \in Nat \ {0}
  BY LimiterAssumption DEF IInv, TypeOK
<1>3. ASSUME NEW k \in Key PROVE Worth(k)' = Worth(k)
  <2>1. CASE attempts'[k] = attempts[k]
    BY <1>1, <2>1 DEF Worth, Known, Expired, Share
  <2>2. CASE Refuse(k)
    <3>1. /\ Known(k) /\ attempts[k].count + 1 > Max
          /\ attempts'[k] = [attempts[k] EXCEPT !.count = Max + 1]
      BY <1>2, <2>2 DEF Refuse
    <3>2. attempts'[k].count = Max + 1 /\ attempts'[k].first = attempts[k].first
      BY <3>1, KnownFacts DEF Record
    <3>3. Known(k)' /\ Share(attempts'[k]) = Share(attempts[k])
      BY <1>1, <1>2, <3>1, <3>2, KnownFacts DEF Known, Expired, Absent, Share
    <3> QED BY <3>1, <3>2, <3>3 DEF Worth, Share
  <2>3. CASE Cleanup /\ Expired(attempts[k])
    <3>1. ~Known(k) /\ attempts'[k] = Absent
      BY <2>3 DEF Cleanup, Known
    <3> QED BY <3>1 DEF Worth, Known
  <2> QED BY <1>2, <2>1, <2>2, <2>3 DEF Refuse, Cleanup, Stop
<1> QED BY <1>1, <1>3

\* Windows close as their records expire.
LEMMA PassRefines == ASSUME IInv, Pass PROVE W!Pass
<1>1. now' = now + 1 /\ UNCHANGED <<attempts, admitted>> /\ now \in Nat
  BY DEF Pass, IInv, TypeOK
<1>2. ASSUME NEW k \in Key
      PROVE  Worth(k)' = IF Worth(k) # W!Closed /\ now + 1 <= Worth(k).first + Window
                         THEN Worth(k) ELSE W!Closed
  <2>1. CASE Known(k)
    <3>1. /\ Worth(k) = [passed |-> Share(attempts[k]), first |-> attempts[k].first]
          /\ Worth(k).first = attempts[k].first /\ Worth(k) # W!Closed
      BY <2>1, KnownFacts DEF Worth, W!Closed
    <3>2. Known(k)' <=> now + 1 <= attempts[k].first + Window
      BY <1>1, <2>1, KnownFacts DEF Known, Expired
    <3> QED BY <1>1, <3>1, <3>2 DEF Worth, W!Closed, Share
  <2>2. CASE ~Known(k)
    <3>1. ~Known(k)'
      <4>1. CASE attempts[k] = Absent
        BY <1>1, <4>1 DEF Known
      <4>2. CASE attempts[k] \in Record /\ Expired(attempts[k])
        BY <1>1, <4>2, LimiterAssumption DEF Known, Expired, Record
      <4> QED BY <2>2, <4>1, <4>2 DEF Known, IInv, TypeOK
    <3> QED BY <2>2, <3>1 DEF Worth, W!Closed
  <2> QED BY <2>1, <2>2
<1> QED BY <1>1, <1>2 DEF W!Pass, Worth

\* WindowSpec: whatever the cleanup and its end do to the map, a key finds the window it
\* opened and its share of it, and nothing of a window that is over (ratelimit.go:36-58,
\* 74-94).
THEOREM RefinesFixedWindow == Spec => WindowSpec
<1>1. Init => W!Init
  BY DEF Init, W!Init, W!Closed, Known
<1>2. ASSUME IInv, [Next]_vars PROVE [W!Next]_(W!vars)
  <2>1. CASE \E k \in Key : AllowFirst(k) \/ Allow(k)
    BY <1>2, <2>1, AllowFirstRefines, AllowRefines DEF W!Next
  <2>2. CASE (\E k \in Key : Refuse(k)) \/ Cleanup \/ Stop
    BY <1>2, <2>2, MapOnly DEF W!vars, Worth
  <2>3. CASE Pass
    BY <1>2, <2>3, PassRefines DEF W!Next
  <2>4. CASE UNCHANGED vars
    BY <2>4 DEF vars, W!vars, Known, Expired, Share
  <2> QED BY <1>2, <2>1, <2>2, <2>3, <2>4 DEF Next
<1> QED BY <1>1, <1>2, Invariant, PTL DEF Spec, WindowSpec, W!Spec

=============================================================================
