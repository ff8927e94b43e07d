------------------------ MODULE SyncContentProofs -------------------------
(***************************************************************************)
(* Proofs about replication, second part: a cookie means content.          *)
(*                                                                         *)
(* Each link is looked at together with the responses that are on their    *)
(* way to its consumer: what counts is the cookie and the version of an    *)
(* entry after the first j of them.  q is the stream, ck the stored cookie,*)
(* seen what the worker has been told of the Present phase, x the CSN of   *)
(* the consumer's entry and 0 without one.                                 *)
(***************************************************************************)
EXTENDS SyncReplicationProofs

-----------------------------------------------------------------------------
(* What is stored and what is in flight.                                   *)

\* After j responses the cookie has reached z of server s.
Reached(ck, q, j, s, z) == z <= ck[s] \/ \E k \in 1..j : z <= q[k].cookie[s]

\* Response k is the entry u.
Sends(q, k, u) == q[k].kind = "entry" /\ u \in q[k].uuids

\* After j responses the consumer has been given the version z of u.
Given(x, q, j, u, z) == x = z \/ \E k \in 1..j : Sends(q, k, u) /\ q[k].csn = z

\* After j responses the worker has been told that u is still there.
Mentioned(seen, q, j, u) ==
    u \in seen \/ \E k \in 1..j : q[k].kind \in {"entry", "present"} /\ u \in q[k].uuids

\* A CSN that a vector covers, and a vector that another one covers.
CSNBelow(csn, v) == csn # NoCSN => SIDOf(csn) \in SIDs /\ csn <= v[SIDOf(csn)]
VectorBelow(v, w) == \A s \in SIDs : v[s] <= w[s]

\* An entry that the search returns in version c: a response neither deletes
\* that version nor lets the Present phase forget it.
InMessage(q, seen, k, u, c) ==
    /\ Sends(q, k, u) => q[k].csn <= c
    /\ q[k].kind = "delete" /\ u \in q[k].uuids
         => q[k].csn < c /\ (q[k].csn = NoCSN => \A s \in SIDs : q[k].cookie[s] < c)
    /\ q[k].kind = "refreshDone" /\ ~q[k].refreshDeletes /\ c <= q[k].cookie[SIDOf(c)]
         => Mentioned(seen, q, k - 1, u)

\* ... and no cookie reaches c before the consumer has that version.
InStream(q, ck, seen, x, u, c) ==
    /\ x <= c
    /\ \A k \in 1..Len(q) : InMessage(q, seen, k, u, c)
    /\ \A j \in 0..Len(q) : Reached(ck, q, j, SIDOf(c), c) => Given(x, q, j, u, c)

\* An entry that last left the search at d, of server s: it is sent only while
\* the cookie has not reached d, and the response with which the cookie reaches
\* d takes the consumer's version away.
OutMessage(q, ck, seen, x, k, u, s, d) ==
    /\ Sends(q, k, u) => q[k].csn < d /\ ~Reached(ck, q, k, s, d)
    /\ d <= q[k].cookie[s] =>
         \/ Reached(ck, q, k - 1, s, d)
         \/ q[k].kind = "delete" /\ u \in q[k].uuids /\ q[k].csn \in {d, NoCSN}
         \/ /\ q[k].kind = "refreshDone" /\ ~q[k].refreshDeletes
            /\ ~Mentioned(seen, q, k - 1, u) /\ CSNBelow(x, q[k].cookie)

OutStream(q, ck, seen, x, u, s, d) ==
    /\ x # NoCSN => x < d /\ ck[s] < d
    /\ \A k \in 1..Len(q) : OutMessage(q, ck, seen, x, k, u, s, d)

-----------------------------------------------------------------------------
(* The worker takes a response from the stream.                            *)

\* What the worker has been told, after the first response.
Told(seen, q) == IF q[1].kind \in {"entry", "present"} THEN seen \cup q[1].uuids ELSE seen

\* The rest of the stream with the cookie merged is the stream.
LEMMA DequeueFacts ==
    ASSUME NEW q \in Seq(Responses), q # <<>>, NEW ck \in CSNState, NEW seen
    PROVE  LET r == Tail(q)
               ck2 == Merge(ck, q[1].cookie)
           IN  /\ Len(q) \in Nat /\ Len(q) >= 1 /\ Len(r) = Len(q) - 1
               /\ \A k \in 1..Len(r) : k + 1 \in 1..Len(q) /\ r[k] = q[k + 1]
               /\ \A k \in 1..Len(q) : q[k] \in Responses
               /\ \A j \in 0..Len(r), s \in SIDs, z \in Nat :
                     Reached(ck2, r, j, s, z) <=> Reached(ck, q, j + 1, s, z)
               /\ \A j \in 0..Len(r), u \in UUIDs :
                     Mentioned(Told(seen, q), r, j, u) <=> Mentioned(seen, q, j + 1, u)
<1> DEFINE r == Tail(q)
           ck2 == Merge(ck, q[1].cookie)
<1>1. /\ Len(q) \in Nat /\ Len(q) >= 1 /\ Len(r) = Len(q) - 1
      /\ \A k \in 1..Len(r) : k + 1 \in 1..Len(q) /\ r[k] = q[k + 1]
      /\ \A k \in 1..Len(q) : q[k] \in Responses
  OBVIOUS
<1> HIDE DEF r
<1>2. ASSUME NEW j \in 0..Len(r) PROVE /\ \A k \in 1..j : k + 1 \in 1..(j + 1) /\ r[k] = q[k + 1]
                                       /\ \A k \in 1..(j + 1) : k = 1 \/ (k - 1 \in 1..j /\ r[k - 1] = q[k])
                                       /\ 1 \in 1..(j + 1)
  <2>1. \A k \in 1..j : k \in 1..Len(r) /\ k + 1 \in 1..(j + 1)
    BY <1>1
  <2>2. \A k \in 1..(j + 1) : k = 1 \/ (k - 1 \in 1..j /\ (k - 1) + 1 = k)
    BY <1>1
  <2>3. 1 \in 1..(j + 1)
    BY <1>1
  <2>4. \A k \in 1..j : r[k] = q[k + 1]
    BY <1>1, <2>1
  <2>. QED  BY <2>1, <2>2, <2>3, <2>4
<1>3. ASSUME NEW j \in 0..Len(r), NEW s \in SIDs, NEW z \in Nat
      PROVE  Reached(ck2, r, j, s, z) <=> Reached(ck, q, j + 1, s, z)
  <2>1. q[1] \in Responses /\ q[1].cookie \in CSNState
    BY <1>1 DEF Responses
  <2>2. ck[s] \in Nat /\ q[1].cookie[s] \in Nat
    BY <2>1 DEF CSNState
  <2>3. ck2[s] = IF ck[s] > q[1].cookie[s] THEN ck[s] ELSE q[1].cookie[s]
    BY DEF Merge
  <2>4. z <= ck2[s] <=> z <= ck[s] \/ z <= q[1].cookie[s]
    BY <2>2, <2>3
  <2> HIDE DEF ck2
  <2>. QED  BY <1>2, <2>4, Zenon DEF Reached
<1>4. ASSUME NEW j \in 0..Len(r), NEW u \in UUIDs
      PROVE  Mentioned(Told(seen, q), r, j, u) <=> Mentioned(seen, q, j + 1, u)
  BY <1>2, Zenon DEF Mentioned, Told
<1>. QED  BY <1>1, <1>3, <1>4 DEF r

\* An entry of the search survives the first response.
LEMMA InDequeue ==
    ASSUME NEW q \in Seq(Responses), q # <<>>, NEW ck \in CSNState, NEW seen, NEW u \in UUIDs,
           NEW c \in Nat, SIDOf(c) \in SIDs, NEW x, NEW x2, InStream(q, ck, seen, x, u, c),
           x2 <= c, x = c => x2 = c, Sends(q, 1, u) /\ q[1].csn = c => x2 = c
    PROVE  InStream(Tail(q), Merge(ck, q[1].cookie), Told(seen, q), x2, u, c)
<1> DEFINE r == Tail(q)
           ck2 == Merge(ck, q[1].cookie)
           told == Told(seen, q)
<1>1. /\ Len(q) \in Nat /\ Len(q) >= 1 /\ Len(r) = Len(q) - 1
      /\ \A k \in 1..Len(r) : k + 1 \in 1..Len(q) /\ r[k] = q[k + 1]
      /\ \A j \in 0..Len(r) : Reached(ck2, r, j, SIDOf(c), c) <=> Reached(ck, q, j + 1, SIDOf(c), c)
      /\ \A j \in 0..Len(r) : Mentioned(told, r, j, u) <=> Mentioned(seen, q, j + 1, u)
  BY DequeueFacts
<1> HIDE DEF r, ck2, told
<1>2. ASSUME NEW k \in 1..Len(r) PROVE InMessage(r, told, k, u, c)
  <2>1. k + 1 \in 1..Len(q) /\ r[k] = q[k + 1] /\ (k + 1) - 1 = k /\ k - 1 \in 0..Len(r) /\ (k - 1) + 1 = k
    BY <1>1
  <2>2. InMessage(q, seen, k + 1, u, c)
    BY <2>1 DEF InStream
  <2>3. Mentioned(told, r, k - 1, u) <=> Mentioned(seen, q, k, u)
    BY <1>1, <2>1
  <2>. QED  BY <2>1, <2>2, <2>3 DEF InMessage, Sends
<1>3. ASSUME NEW j \in 0..Len(r), Reached(ck2, r, j, SIDOf(c), c) PROVE Given(x2, r, j, u, c)
  <2>1. j + 1 \in 0..Len(q)
    BY <1>1
  <2>2. Given(x, q, j + 1, u, c)
    BY <1>1, <1>3, <2>1 DEF InStream
  <2>3. CASE x = c
    BY <2>3 DEF Given
  <2>4. ASSUME NEW k \in 1..(j + 1), Sends(q, k, u), q[k].csn = c PROVE Given(x2, r, j, u, c)
    <3>1. CASE k = 1
      BY <2>4, <3>1 DEF Given
    <3>2. CASE k # 1
      <4>1. k - 1 \in 1..j /\ k - 1 \in 1..Len(r) /\ (k - 1) + 1 = k
        BY <1>1, <3>2
      <4>2. r[k - 1] = q[k]
        BY <1>1, <4>1
      <4>. QED  BY <2>4, <4>1, <4>2 DEF Given, Sends
    <3>. QED  BY <3>1, <3>2
  <2>. QED  BY <2>2, <2>3, <2>4 DEF Given
<1>4. InStream(r, ck2, told, x2, u, c)
  BY <1>2, <1>3 DEF InStream
<1>. QED  BY <1>4 DEF r, ck2, told

\* An entry that left is gone when the cookie reaches its departure.
LEMMA OutDequeue ==
    ASSUME NEW q \in Seq(Responses), q # <<>>, NEW ck \in CSNState, NEW seen, NEW u \in UUIDs,
           NEW s \in SIDs, NEW d \in Nat, NEW x \in Nat, NEW x2 \in Nat, OutStream(q, ck, seen, x, u, s, d),
           x2 \in {NoCSN, x} \/ (Sends(q, 1, u) /\ x2 = q[1].csn),
           /\ q[1].kind = "delete" /\ u \in q[1].uuids /\ q[1].csn \in {d, NoCSN}
           /\ d <= q[1].cookie[s] /\ ck[s] < d /\ x < d
           => x2 = NoCSN,
           /\ q[1].kind = "refreshDone" /\ ~q[1].refreshDeletes /\ u \notin seen
           /\ CSNBelow(x, q[1].cookie)
           => x2 = NoCSN
    PROVE  OutStream(Tail(q), Merge(ck, q[1].cookie), Told(seen, q), x2, u, s, d)
<1> DEFINE r == Tail(q)
           ck2 == Merge(ck, q[1].cookie)
           told == Told(seen, q)
<1>1. /\ Len(q) \in Nat /\ Len(q) >= 1 /\ Len(r) = Len(q) - 1
      /\ \A k \in 1..Len(r) : k + 1 \in 1..Len(q) /\ r[k] = q[k + 1]
      /\ \A j \in 0..Len(r) : Reached(ck2, r, j, s, d) <=> Reached(ck, q, j + 1, s, d)
      /\ \A j \in 0..Len(r) : Mentioned(told, r, j, u) <=> Mentioned(seen, q, j + 1, u)
  BY DequeueFacts
<1>2. ck2 \in CSNState /\ ck[s] \in Nat /\ ck2[s] \in Nat /\ q[1].cookie[s] \in Nat
  <2>1. q[1] \in Responses
    BY DequeueFacts
  <2>2. q[1].cookie \in CSNState
    BY <2>1 DEF Responses
  <2>3. ck2 \in CSNState
    BY <2>2, VectorsTyped
  <2>. QED  BY <2>2, <2>3 DEF CSNState
<1>3. ck2[s] = IF ck[s] > q[1].cookie[s] THEN ck[s] ELSE q[1].cookie[s]
  BY DEF Merge
<1> HIDE DEF r, ck2, told
<1>4. OutMessage(q, ck, seen, x, 1, u, s, d)
  BY <1>1 DEF OutStream
<1>5. /\ Reached(ck, q, 0, s, d) <=> d <= ck[s]
      /\ d <= q[1].cookie[s] => Reached(ck, q, 1, s, d)
      /\ d <= ck[s] => Reached(ck, q, 1, s, d)
      /\ Mentioned(seen, q, 0, u) <=> u \in seen
  <2>1. 1..0 = {} /\ 1 \in 1..1
    OBVIOUS
  <2>. QED  BY <2>1 DEF Reached, Mentioned
<1>6. ASSUME x2 # NoCSN PROVE x2 < d /\ ck2[s] < d
  <2>1. CASE Sends(q, 1, u) /\ x2 = q[1].csn
    <3>1. q[1].csn < d /\ ~(d <= q[1].cookie[s]) /\ ~(d <= ck[s])
      BY <1>4, <1>5, <2>1 DEF OutMessage
    <3>. QED  BY <1>2, <1>3, <2>1, <3>1
  <2>2. CASE x2 = x
    <3>1. x < d /\ ck[s] < d
      BY <1>6, <2>2 DEF OutStream
    <3>2. SUFFICES ASSUME d <= q[1].cookie[s] PROVE FALSE
      BY <1>2, <1>3, <2>2, <3>1
    <3>3. ~Reached(ck, q, 0, s, d)
      BY <1>2, <1>5, <3>1
    <3>. QED  BY <1>4, <1>5, <1>6, <3>1, <3>2, <3>3 DEF OutMessage
  <2>. QED  BY <1>6, <2>1, <2>2
<1>7. ASSUME NEW k \in 1..Len(r) PROVE OutMessage(r, ck2, told, x2, k, u, s, d)
  <2>1. k + 1 \in 1..Len(q) /\ r[k] = q[k + 1] /\ (k + 1) - 1 = k /\ k - 1 \in 0..Len(r) /\ (k - 1) + 1 = k
        /\ k \in 0..Len(r) /\ 1 \in 1..k
    BY <1>1
  <2>2. OutMessage(q, ck, seen, x, k + 1, u, s, d)
    BY <2>1 DEF OutStream
  <2>3. /\ Mentioned(told, r, k - 1, u) <=> Mentioned(seen, q, k, u)
        /\ Reached(ck2, r, k, s, d) <=> Reached(ck, q, k + 1, s, d)
        /\ Reached(ck2, r, k - 1, s, d) <=> Reached(ck, q, k, s, d)
    BY <1>1, <2>1
  <2>4. ~Mentioned(seen, q, k, u) => x2 \in {NoCSN, x}
    BY <2>1 DEF Mentioned, Sends
  <2>5. \A v : CSNBelow(x, v) /\ x2 \in {NoCSN, x} => CSNBelow(x2, v)
    BY DEF CSNBelow
  <2>. QED  BY <2>1, <2>2, <2>3, <2>4, <2>5 DEF OutMessage, Sends
<1>8. OutStream(r, ck2, told, x2, u, s, d)
  BY <1>6, <1>7 DEF OutStream
<1>. QED  BY <1>8 DEF r, ck2, told

\* A connection that is dropped takes its stream with it.
LEMMA DropStream ==
    ASSUME NEW q \in Seq(Responses), NEW ck, NEW seen, NEW seen2, NEW x, NEW u
    PROVE  /\ \A c : InStream(q, ck, seen, x, u, c) => InStream(<<>>, ck, seen2, x, u, c)
           /\ \A s, d : OutStream(q, ck, seen, x, u, s, d) => OutStream(<<>>, ck, seen2, x, u, s, d)
<1>1. Len(q) \in Nat /\ Len(<<>>) = 0 /\ 1..0 = {} /\ 0 \in 0..Len(q) /\ \A j \in 0..0 : j = 0
  OBVIOUS
<1>2. ASSUME NEW c, InStream(q, ck, seen, x, u, c) PROVE InStream(<<>>, ck, seen2, x, u, c)
  <2>1. Reached(ck, <<>>, 0, SIDOf(c), c) <=> Reached(ck, q, 0, SIDOf(c), c)
    BY <1>1 DEF Reached
  <2>2. Given(x, <<>>, 0, u, c) <=> Given(x, q, 0, u, c)
    BY <1>1 DEF Given
  <2>3. Reached(ck, q, 0, SIDOf(c), c) => Given(x, q, 0, u, c)
    BY <1>1, <1>2 DEF InStream
  <2>. QED  BY <1>1, <1>2, <2>1, <2>2, <2>3 DEF InStream
<1>3. ASSUME NEW s, NEW d, OutStream(q, ck, seen, x, u, s, d) PROVE OutStream(<<>>, ck, seen2, x, u, s, d)
  BY <1>1, <1>3 DEF OutStream
<1>. QED  BY <1>2, <1>3

-----------------------------------------------------------------------------
(* What a refresh consists of.                                             *)

\* Sorted lists every number of the set.
LEMMA SortedCovers ==
    ASSUME NEW S \in SUBSET Nat, IsFiniteSet(S), NEW x \in S
    PROVE  \E i \in 1..Cardinality(S) : Sorted(S)[i] = x
<1> DEFINE n == Cardinality(S)
           f == Sorted(S)
<1>1. n \in Nat /\ f \in [1..n -> S] /\ \A i, j \in 1..n : i < j => f[i] < f[j]
  BY SortedFacts
<1>2. IsFiniteSet(1..n) /\ Cardinality(1..n) = n
  BY <1>1, FS_Interval
<1> HIDE DEF f, n
<1>3. f \in Injection(1..n, S)
  <2>1. ASSUME NEW i \in 1..n, NEW j \in 1..n, f[i] = f[j] PROVE i = j
    <3>1. i < j \/ j < i \/ i = j
      BY <1>1
    <3>2. f[i] \in Nat /\ f[j] \in Nat
      BY <1>1
    <3>3. ~(f[i] < f[j]) /\ ~(f[j] < f[i])
      BY <2>1, <3>2
    <3>. QED  BY <1>1, <3>1, <3>3
  <2>. QED  BY <1>1, <2>1 DEF Injection, IsInjective
<1>4. f \in Surjection(1..n, S)
  BY <1>2, <1>3, FS_Injection DEF n
<1>. QED  BY <1>4 DEF Surjection, f, n

\* UUIDs that did not change, an entry that did, UUIDs that left at one CSN.
IsPresent(m, view) ==
    /\ m.kind = "present" /\ m.cookie = NoState /\ m.csn = NoCSN
    /\ \A u \in m.uuids : view[u].visibility = "in"
IsEntry(m, view) ==
    /\ m.kind = "entry" /\ m.cookie = NoState
    /\ \E u \in UUIDs : m.uuids = {u} /\ view[u].visibility = "in" /\ m.csn = view[u].csn
IsDelete(m, view, ck, R) ==
    /\ m.kind = "delete" /\ m.csn # NoCSN
    /\ \E v \in UUIDs : LeftAt(R, v) = m.csn
    /\ \A u \in m.uuids : view[u].visibility # "in"
    /\ \A s \in SIDs : \/ m.cookie[s] = ck[s]
                       \/ /\ m.cookie[s] <= m.csn /\ SIDOf(m.cookie[s]) = s
                          /\ \E v \in UUIDs : LeftAt(R, v) = m.cookie[s] /\ LeftAt(R, v) # NoCSN

PresentPart(A, view, ck, rd) ==
    /\ A \in Seq(Responses) /\ \A k \in 1..Len(A) : IsPresent(A[k], view)
    /\ ~rd => \A u \in UUIDs : view[u].visibility = "in" /\ ~EntryChanged(ck, view[u].csn)
                               => \E k \in 1..Len(A) : u \in A[k].uuids
EntryPart(B, view, ck) ==
    /\ B \in Seq(Responses) /\ \A k \in 1..Len(B) : IsEntry(B[k], view)
    /\ \A u \in UUIDs : view[u].visibility = "in" /\ EntryChanged(ck, view[u].csn)
                        => \E k \in 1..Len(B) : B[k].uuids = {u} /\ B[k].csn = view[u].csn
\* ... by their CSNs, each with the cookie up to it.
Deletes(m, u, R) ==
    /\ u \in m.uuids /\ m.csn = LeftAt(R, u)
    /\ \A s \in SIDs : s = SIDOf(m.csn) => m.csn <= m.cookie[s]
DeletePart(D, view, ck, R) ==
    /\ D \in Seq(Responses) /\ \A k \in 1..Len(D) : IsDelete(D[k], view, ck, R)
    /\ \A i, j \in 1..Len(D) : i < j => D[i].csn < D[j].csn
    /\ \A u \in UUIDs : view[u].visibility # "in" /\ LeftAt(R, u) # NoCSN
                        => \E k \in 1..Len(D) : Deletes(D[k], u, R)

LEMMA PresentFacts ==
    ASSUME NEW view \in [UUIDs -> Entries], NEW ck, NEW rd \in BOOLEAN,
           NEW present, present = {u \in UUIDs : view[u].visibility = "in" /\ ~EntryChanged(ck, view[u].csn)}
    PROVE  PresentPart(IF rd \/ present = {} THEN <<>>
                       ELSE <<Response("present", present, NoCSN, NoState, FALSE)>>, view, ck, rd)
<1> DEFINE m == Response("present", present, NoCSN, NoState, FALSE)
<1>1. m.kind = "present" /\ m.uuids = present /\ m.csn = NoCSN /\ m.cookie = NoState
  BY DEF Response
<1>2. m \in Responses
  <2>1. NoState \in CSNState /\ NoCSN \in Nat /\ present \in SUBSET UUIDs
    BY VectorsTyped DEF NoCSN
  <2>. QED  BY <2>1, ResponseTyped
<1> HIDE DEF m
<1>3. CASE rd \/ present = {}
  <2>1. <<>> \in Seq(Responses) /\ Len(<<>>) = 0 /\ 1..0 = {}
    OBVIOUS
  <2>2. PresentPart(<<>>, view, ck, rd)
    BY <1>3, <2>1 DEF PresentPart, IsPresent
  <2>. QED  BY <1>3, <2>2
<1>4. CASE ~(rd \/ present = {})
  <2>1. <<m>> \in Seq(Responses) /\ Len(<<m>>) = 1 /\ <<m>>[1] = m /\ \A k \in 1..1 : k = 1
    BY <1>2
  <2>2. 1 \in 1..1
    OBVIOUS
  <2>3. PresentPart(<<m>>, view, ck, rd)
    BY <1>1, <2>1, <2>2 DEF PresentPart, IsPresent
  <2>. QED  BY <1>4, <2>3 DEF m
<1>. QED  BY <1>3, <1>4

LEMMA EntryFacts ==
    ASSUME NEW view \in [UUIDs -> Entries], NEW ck,
           NEW changed, changed = {u \in UUIDs : view[u].visibility = "in" /\ EntryChanged(ck, view[u].csn)}
    PROVE  EntryPart([i \in 1..Cardinality(changed) |->
                        LET u == Sorted(changed)[i]
                        IN  Response("entry", {u}, view[u].csn, NoState, FALSE)], view, ck)
<1> DEFINE n == Cardinality(changed)
           f == Sorted(changed)
           B == [i \in 1..n |-> LET u == f[i] IN Response("entry", {u}, view[u].csn, NoState, FALSE)]
<1>1. changed \in SUBSET UUIDs /\ changed \in SUBSET Nat /\ IsFiniteSet(changed)
  BY FS_Subset, BoundsAssumption
<1>2. n \in Nat /\ f \in [1..n -> changed] /\ \A x \in changed : \E i \in 1..n : f[i] = x
  BY <1>1, SortedFacts, SortedCovers
<1> HIDE DEF n, f
<1>3. ASSUME NEW i \in 1..n
      PROVE  /\ B[i].kind = "entry" /\ B[i].uuids = {f[i]} /\ B[i].csn = view[f[i]].csn /\ B[i].cookie = NoState
             /\ B[i] \in Responses /\ f[i] \in changed
  <2> DEFINE u == f[i]
  <2>1. u \in UUIDs /\ u \in changed
    BY <1>1, <1>2
  <2>2. view[u].csn \in Nat /\ NoState \in CSNState
    BY <2>1, EntryTyped, VectorsTyped
  <2>3. B[i] = Response("entry", {u}, view[u].csn, NoState, FALSE)
    OBVIOUS
  <2> HIDE DEF B, u
  <2>4. Response("entry", {u}, view[u].csn, NoState, FALSE) \in Responses
    BY <2>1, <2>2, ResponseTyped
  <2>5. /\ B[i].kind = "entry" /\ B[i].uuids = {u} /\ B[i].csn = view[u].csn /\ B[i].cookie = NoState
        /\ B[i] \in Responses /\ u \in changed
    BY <2>1, <2>3, <2>4 DEF Response
  <2>. QED  BY <2>5 DEF u
<1>4. B = [i \in 1..n |-> B[i]]
  OBVIOUS
<1> HIDE DEF B
<1>5. B \in Seq(Responses) /\ Len(B) = n
  BY <1>2, <1>3, <1>4, SequenceOf
<1>6. ASSUME NEW u \in changed PROVE \E k \in 1..Len(B) : B[k].uuids = {u} /\ B[k].csn = view[u].csn
  BY <1>2, <1>3, <1>5
<1>7. ASSUME NEW k \in 1..Len(B)
      PROVE  /\ B[k].kind = "entry" /\ B[k].cookie = NoState
             /\ \E u \in UUIDs : B[k].uuids = {u} /\ view[u].visibility = "in" /\ B[k].csn = view[u].csn
  BY <1>1, <1>3, <1>5
<1>8. EntryPart(B, view, ck)
  BY <1>5, <1>6, <1>7 DEF EntryPart, IsEntry
<1>. QED  BY <1>8 DEF B, n, f

\* The deletes of a refresh, from the ascending list of the CSNs at which UUIDs left.
DeleteResponses(at, left, ck, R) ==
    [i \in 1..Len(at) |->
        Response("delete", {u \in left : LeftAt(R, u) = at[i]}, at[i],
                 [s \in SIDs |-> Max({ck[s]} \cup {at[j] : j \in {k \in 1..i : SIDOf(at[k]) = s}})],
                 FALSE)]

\* Part of a list of numbers is finite.
LEMMA PartOfList ==
    ASSUME NEW at \in Seq(Nat), NEW K, K \subseteq 1..Len(at)
    PROVE  IsFiniteSet({at[x] : x \in K})
<1>1. IsFiniteSet(K)
  <2>1. Len(at) \in Int /\ 1 \in Int
    OBVIOUS
  <2>2. IsFiniteSet(1..Len(at))
    BY <2>1, FS_Interval
  <2>. QED  BY <2>2, FS_Subset
<1>2. K \subseteq DOMAIN at
  OBVIOUS
<1>. QED  BY <1>1, <1>2, FiniteImage

LEMMA DeleteSequence ==
    ASSUME NEW view, NEW ck \in CSNState, NEW R, NEW left \in SUBSET UUIDs, NEW at \in Seq(Nat),
           \A u \in UUIDs : u \in left <=> view[u].visibility # "in" /\ LeftAt(R, u) # NoCSN,
           \A i \in 1..Len(at) : \E u \in left : at[i] = LeftAt(R, u),
           \A u \in left : \E i \in 1..Len(at) : at[i] = LeftAt(R, u),
           \A i, j \in 1..Len(at) : i < j => at[i] < at[j]
    PROVE  DeletePart(DeleteResponses(at, left, ck, R), view, ck, R)
<1> DEFINE Here(s, i) == {ck[s]} \cup {at[j] : j \in {k \in 1..i : SIDOf(at[k]) = s}}
           upTo(i) == [s \in SIDs |-> Max(Here(s, i))]
           Gone(i) == {u \in left : LeftAt(R, u) = at[i]}
           D == [i \in 1..Len(at) |-> Response("delete", Gone(i), at[i], upTo(i), FALSE)]
           Listed(y) == \E u \in left : y = LeftAt(R, u)
<1>8. /\ Len(at) \in Nat /\ DOMAIN at = 1..Len(at)
      /\ \A i \in 1..Len(at) : at[i] \in Nat /\ Listed(at[i])
  OBVIOUS
<1> HIDE DEF Listed
<1> HIDE DEF Here
<1>9. ASSUME NEW i \in 1..Len(at), NEW s \in SIDs
      PROVE  /\ Max(Here(s, i)) \in Here(s, i) /\ Max(Here(s, i)) \in Nat
             /\ \A y \in Here(s, i) : Max(Here(s, i)) >= y
             /\ \A y \in Here(s, i) : \/ y = ck[s]
                                      \/ SIDOf(y) = s /\ y <= at[i] /\ Listed(y)
  <2> DEFINE K == {k \in 1..i : SIDOf(at[k]) = s}
  <2>1. IsFiniteSet(K) /\ K \subseteq 1..Len(at)
    <3>1. i \in Int /\ Len(at) \in Nat /\ i <= Len(at)
      BY <1>8
    <3>2. IsFiniteSet(1..i) /\ 1..i \subseteq 1..Len(at)
      BY <3>1, FS_Interval
    <3>. QED  BY <3>2, FS_Subset
  <2>2. \A k \in K : at[k] \in Nat /\ Listed(at[k]) /\ SIDOf(at[k]) = s
    BY <1>8, <2>1
  <2>3. \A k \in K : at[k] <= at[i]
    <3>1. ASSUME NEW k \in K PROVE at[k] <= at[i]
      <4>1. k \in 1..Len(at) /\ (k < i \/ k = i)
        BY <1>8, <2>1
      <4>2. at[k] \in Nat /\ at[i] \in Nat /\ (k < i => at[k] < at[i])
        BY <1>8, <4>1
      <4>3. \A x, y \in Nat : x < y \/ x = y => x <= y
        OBVIOUS
      <4>4. at[k] < at[i] \/ at[k] = at[i]
        BY <4>1, <4>2, Zenon
      <4>. QED  BY <4>2, <4>3, <4>4, Zenon
    <3>. QED  BY <3>1
  <2>4. Here(s, i) = {ck[s]} \cup {at[x] : x \in K}
    BY DEF Here
  <2> HIDE DEF K
  <2>5. IsFiniteSet({at[x] : x \in K})
    BY <2>1, PartOfList
  <2>6. IsFiniteSet({ck[s]} \cup {at[x] : x \in K})
    BY <2>5, FS_Singleton, FS_Union
  <2>7. ck[s] \in Nat
    BY DEF CSNState
  <2>8. Here(s, i) \in SUBSET Nat /\ Here(s, i) # {} /\ IsFiniteSet(Here(s, i))
    BY <2>2, <2>4, <2>6, <2>7
  <2>9. Max(Here(s, i)) \in Here(s, i) /\ \A y \in Here(s, i) : Max(Here(s, i)) >= y
    BY <2>8, GreatestNumber
  <2>10. \A y \in Here(s, i) : y = ck[s] \/ (SIDOf(y) = s /\ y <= at[i] /\ Listed(y))
    BY <2>2, <2>3, <2>4
  <2>. QED  BY <2>8, <2>9, <2>10
<1>10. ASSUME NEW i \in 1..Len(at), NEW s \in SIDs, s = SIDOf(at[i]) PROVE at[i] <= Max(Here(s, i))
  <2>1. i \in 1..i
    BY <1>8
  <2>2. at[i] \in Here(s, i)
    BY <1>10, <2>1 DEF Here
  <2>. QED  BY <1>8, <1>9, <2>2
<1>11. ASSUME NEW i \in 1..Len(at)
       PROVE  /\ upTo(i) \in CSNState /\ \A s \in SIDs : upTo(i)[s] = Max(Here(s, i))
  BY <1>9 DEF CSNState
<1> HIDE DEF upTo
<1>12. ASSUME NEW i \in 1..Len(at)
       PROVE  /\ D[i].kind = "delete" /\ D[i].uuids = Gone(i) /\ D[i].csn = at[i] /\ D[i].cookie = upTo(i)
              /\ D[i] \in Responses
  <2>1. at[i] \in Nat /\ upTo(i) \in CSNState /\ Gone(i) \in SUBSET UUIDs
    BY <1>8, <1>11
  <2>2. D[i] = Response("delete", Gone(i), at[i], upTo(i), FALSE)
    OBVIOUS
  <2> HIDE DEF D, Gone
  <2>3. Response("delete", Gone(i), at[i], upTo(i), FALSE) \in Responses
    BY <2>1, ResponseTyped
  <2>. QED  BY <2>2, <2>3 DEF Response
<1>13. D = [i \in 1..Len(at) |-> D[i]]
  OBVIOUS
<1>14. \A i, u : u \in Gone(i) <=> u \in left /\ LeftAt(R, u) = at[i]
  OBVIOUS
<1> HIDE DEF D, Gone
<1>15. D \in Seq(Responses) /\ Len(D) = Len(at)
  BY <1>8, <1>12, <1>13, SequenceOf
<1>16. ASSUME NEW k \in 1..Len(D)
       PROVE  /\ D[k].kind = "delete" /\ D[k].csn # NoCSN
              /\ \E v \in UUIDs : LeftAt(R, v) = D[k].csn
              /\ \A u \in D[k].uuids : view[u].visibility # "in"
  <2>1. k \in 1..Len(at)
    BY <1>15
  <2>2. PICK v \in left : at[k] = LeftAt(R, v)
    BY <2>1
  <2>3. D[k].kind = "delete" /\ D[k].uuids = Gone(k) /\ D[k].csn = at[k]
    BY <1>12, <2>1
  <2>. QED  BY <1>14, <2>2, <2>3
<1>17. ASSUME NEW k \in 1..Len(D), NEW s \in SIDs
       PROVE  \/ D[k].cookie[s] = ck[s]
              \/ /\ D[k].cookie[s] <= D[k].csn /\ SIDOf(D[k].cookie[s]) = s
                 /\ \E v \in UUIDs : LeftAt(R, v) = D[k].cookie[s] /\ LeftAt(R, v) # NoCSN
  <2>1. k \in 1..Len(at)
    BY <1>15
  <2>2. D[k].cookie[s] = Max(Here(s, k)) /\ D[k].csn = at[k]
    BY <1>11, <1>12, <2>1
  <2>3. D[k].cookie[s] = ck[s] \/ (SIDOf(D[k].cookie[s]) = s /\ D[k].cookie[s] <= at[k] /\ Listed(D[k].cookie[s]))
    BY <1>9, <2>1, <2>2
  <2>4. \A x : Listed(x) => \E v \in UUIDs : LeftAt(R, v) = x /\ LeftAt(R, v) # NoCSN
    BY DEF Listed
  <2>. QED  BY <2>2, <2>3, <2>4
<1>18. \A i, j \in 1..Len(D) : i < j => D[i].csn < D[j].csn
  BY <1>8, <1>12, <1>15, SMTT(30)
<1>19. ASSUME NEW u \in UUIDs, view[u].visibility # "in", LeftAt(R, u) # NoCSN
       PROVE  \E k \in 1..Len(D) : /\ u \in D[k].uuids /\ D[k].csn = LeftAt(R, u)
                                   /\ \A s \in SIDs : s = SIDOf(D[k].csn) => D[k].csn <= D[k].cookie[s]
  <2>1. u \in left
    BY <1>19
  <2>2. PICK k \in 1..Len(at) : at[k] = LeftAt(R, u)
    BY <2>1
  <2>3. D[k].uuids = Gone(k) /\ D[k].csn = at[k] /\ D[k].cookie = upTo(k)
    BY <1>12
  <2>4. u \in D[k].uuids
    BY <1>14, <2>1, <2>2, <2>3
  <2>5. \A s \in SIDs : s = SIDOf(D[k].csn) => D[k].csn <= D[k].cookie[s]
    BY <1>10, <1>11, <2>3
  <2>. QED  BY <1>15, <2>2, <2>3, <2>4, <2>5
<1>20. DeletePart(D, view, ck, R)
  BY <1>15, <1>16, <1>17, <1>18, <1>19 DEF DeletePart, IsDelete, Deletes
<1>. QED  BY <1>20 DEF D, Gone, upTo, Here, DeleteResponses

LEMMA DeleteFacts ==
    ASSUME NEW view \in [UUIDs -> Entries], NEW ck \in CSNState, NEW R \in SUBSET Changes, IsFiniteSet(R),
           NEW left, left = {u \in UUIDs : view[u].visibility # "in" /\ LeftAt(R, u) # NoCSN},
           NEW at, at = Sorted({LeftAt(R, u) : u \in left})
    PROVE  DeletePart(DeleteResponses(at, left, ck, R), view, ck, R)
<1> DEFINE leftAt == [u \in UUIDs |-> LeftAt(R, u)]
           L == {LeftAt(R, u) : u \in left}
<1>1. IsFiniteSet(left) /\ left \subseteq UUIDs
  BY FS_Subset, BoundsAssumption
<1>2. \A u \in UUIDs : leftAt[u] = LeftAt(R, u) /\ LeftAt(R, u) \in Nat
  BY LeftAtTyped
<1>3. IsFiniteSet(L) /\ L \in SUBSET Nat
  <2>1. left \subseteq DOMAIN leftAt
    BY <1>1
  <2>2. L = {leftAt[x] : x \in left}
    BY <1>1
  <2> HIDE DEF leftAt
  <2>3. IsFiniteSet({leftAt[x] : x \in left})
    BY <1>1, <2>1, FiniteImage
  <2>. QED  BY <1>1, <1>2, <2>2, <2>3
<1>4. /\ Cardinality(L) \in Nat /\ at \in [1..Cardinality(L) -> L]
      /\ \A i, j \in 1..Cardinality(L) : i < j => at[i] < at[j]
      /\ \A x \in L : \E i \in 1..Cardinality(L) : at[i] = x
  BY <1>3, SortedFacts, SortedCovers, ZenonT(40)
<1>5. \A x \in L : x \in Nat /\ \E u \in left : x = LeftAt(R, u)
  BY <1>3
<1>6. \A u \in left : LeftAt(R, u) \in L
  OBVIOUS
<1> HIDE DEF L
<1>7. at \in Seq(Nat) /\ Len(at) = Cardinality(L)
  <2> DEFINE a == at
  <2>1. a \in [1..Cardinality(L) -> L]
    BY <1>4
  <2> HIDE DEF a
  <2>2. a = [i \in 1..Cardinality(L) |-> a[i]] /\ \A i \in 1..Cardinality(L) : a[i] \in Nat
    BY <1>5, <2>1
  <2>3. a \in Seq(Nat) /\ Len(a) = Cardinality(L)
    BY <1>4, <2>2, SequenceOf
  <2>. QED  BY <2>3 DEF a
<1>8. \A i \in 1..Len(at) : \E u \in left : at[i] = LeftAt(R, u)
  <2>1. \A i \in 1..Len(at) : at[i] \in L
    BY <1>4, <1>7
  <2>. QED  BY <1>5, <2>1, Zenon
<1>9. \A u \in left : \E i \in 1..Len(at) : at[i] = LeftAt(R, u)
  BY <1>4, <1>6, <1>7, Zenon
<1>10. \A i, j \in 1..Len(at) : i < j => at[i] < at[j]
  BY <1>4, <1>7, Zenon
<1>11. \A u \in UUIDs : u \in left <=> view[u].visibility # "in" /\ LeftAt(R, u) # NoCSN
  OBVIOUS
<1>12. left \in SUBSET UUIDs
  BY <1>1
<1>. QED  BY <1>7, <1>8, <1>9, <1>10, <1>11, <1>12, DeleteSequence, ZenonT(40)

\* Four parts one after the other, the last of them a single response.
Placed(q, A, B, D, e, a, b, d) ==
    /\ a \in Nat /\ b \in Nat /\ d \in Nat /\ a <= b /\ b <= d
    /\ a = Len(A) /\ b = a + Len(B) /\ d = b + Len(D) /\ Len(q) = d + 1 /\ q[d + 1] = e
    /\ \A k \in 1..Len(A) : q[k] = A[k]
    /\ \A k \in 1..Len(B) : q[a + k] = B[k]
    /\ \A k \in 1..Len(D) : q[b + k] = D[k]

LEMMA TwoParts ==
    ASSUME NEW T, NEW A \in Seq(T), NEW B \in Seq(T)
    PROVE  /\ A \o B \in Seq(T) /\ Len(A \o B) = Len(A) + Len(B)
           /\ \A k \in 1..Len(A) : (A \o B)[k] = A[k]
           /\ \A k \in 1..Len(B) : (A \o B)[Len(A) + k] = B[k]
           /\ Len(A) \in Nat /\ Len(B) \in Nat
  OBVIOUS

LEMMA OneMore ==
    ASSUME NEW T, NEW Q \in Seq(T), NEW e \in T
    PROVE  /\ Q \o <<e>> \in Seq(T)
           /\ \A k \in 1..Len(Q) : (Q \o <<e>>)[k] = Q[k]
           /\ (Q \o <<e>>)[Len(Q) + 1] = e /\ Len(Q \o <<e>>) = Len(Q) + 1
  OBVIOUS

LEMMA FourParts ==
    ASSUME NEW T, NEW A \in Seq(T), NEW B \in Seq(T), NEW D \in Seq(T), NEW e \in T
    PROVE  /\ A \o B \o D \o <<e>> \in Seq(T)
           /\ \E a, b, d : Placed(A \o B \o D \o <<e>>, A, B, D, e, a, b, d)
<1> DEFINE Q1 == A \o B
           Q2 == Q1 \o D
           Q3 == Q2 \o <<e>>
<1>2. /\ Q1 \in Seq(T) /\ Len(Q1) = Len(A) + Len(B)
      /\ \A k \in 1..Len(A) : Q1[k] = A[k]
      /\ \A k \in 1..Len(B) : Q1[Len(A) + k] = B[k]
      /\ Len(A) \in Nat /\ Len(B) \in Nat
  BY TwoParts, Zenon
<1> HIDE DEF Q1
<1>3. /\ Q2 \in Seq(T) /\ Len(Q2) = Len(Q1) + Len(D)
      /\ \A k \in 1..Len(Q1) : Q2[k] = Q1[k]
      /\ \A k \in 1..Len(D) : Q2[Len(Q1) + k] = D[k]
      /\ Len(Q1) \in Nat /\ Len(D) \in Nat
  BY <1>2, TwoParts, Zenon
<1> HIDE DEF Q2
<1>4. /\ Q3 \in Seq(T)
      /\ \A k \in 1..Len(Q2) : Q3[k] = Q2[k]
      /\ Q3[Len(Q2) + 1] = e /\ Len(Q3) = Len(Q2) + 1
  <2>1. Q2 \in Seq(T)
    BY <1>3
  <2>. QED  BY <2>1, OneMore
<1> HIDE DEF Q3
<1>5. Q3[Len(Q2) + 1] = e /\ Len(Q3) = Len(Q2) + 1
  BY <1>4
<1> DEFINE a == Len(A)
           b == a + Len(B)
           d == b + Len(D)
<1>6. \A k \in 1..Len(A) : k \in 1..Len(Q1) /\ k \in 1..Len(Q2)
  BY <1>2, <1>3
<1>7. \A k \in 1..Len(B) : a + k \in 1..Len(Q1) /\ a + k \in 1..Len(Q2)
  BY <1>2, <1>3
<1>8. \A k \in 1..Len(D) : b + k \in 1..Len(Q2)
  BY <1>2, <1>3
<1>9. a \in Nat /\ b \in Nat /\ d \in Nat /\ a <= b /\ b <= d /\ Len(Q2) = d /\ Len(Q1) = b
  BY <1>2, <1>3
<1> HIDE DEF a, b, d
<1>10. \A k \in 1..Len(A) : Q3[k] = A[k]
  BY <1>2, <1>3, <1>4, <1>6, Zenon
<1>11. \A k \in 1..Len(B) : Q3[a + k] = B[k]
  BY <1>2, <1>3, <1>4, <1>7, Zenon DEF a
<1>12. \A k \in 1..Len(D) : Q3[b + k] = D[k]
  BY <1>3, <1>4, <1>8, <1>9, Zenon
<1>13. a = Len(A) /\ b = a + Len(B) /\ d = b + Len(D) /\ Len(Q3) = d + 1 /\ Q3[d + 1] = e
  BY <1>5, <1>9, Zenon DEF a, b, d
<1>14. Placed(Q3, A, B, D, e, a, b, d)
  BY <1>9, <1>10, <1>11, <1>12, <1>13, Zenon DEF Placed
<1>. QED  BY <1>4, <1>14, Zenon DEF Q3, Q2, Q1

\* writeSyncSearch: what the consumer receives, and in which order.
RefreshSequence(q, view, ck, S, R, rd) ==
    /\ q \in Seq(Responses) /\ Len(q) \in Nat /\ Len(q) >= 1
    /\ LET m == q[Len(q)] IN m.kind = "refreshDone" /\ m.cookie = S /\ m.refreshDeletes = rd /\ m.csn = NoCSN
    /\ \A k \in 1..(Len(q) - 1) : IsPresent(q[k], view) \/ IsEntry(q[k], view) \/ IsDelete(q[k], view, ck, R)
    /\ \A u \in UUIDs : view[u].visibility = "in" /\ EntryChanged(ck, view[u].csn)
          => \E j \in 1..(Len(q) - 1) :
                /\ Sends(q, j, u) /\ q[j].csn = view[u].csn
                /\ \A k \in 1..Len(q) : q[k].kind \in {"delete", "refreshDone"} => j < k
    /\ ~rd => \A u \in UUIDs : view[u].visibility = "in" /\ ~EntryChanged(ck, view[u].csn)
          => \E j \in 1..(Len(q) - 1) : q[j].kind = "present" /\ u \in q[j].uuids
    /\ \A u \in UUIDs : view[u].visibility # "in" /\ LeftAt(R, u) # NoCSN
          => \E j \in 1..(Len(q) - 1) :
                /\ q[j].kind = "delete" /\ Deletes(q[j], u, R)
                /\ \A k \in 1..Len(q) : q[k].kind = "delete" /\ LeftAt(R, u) <= q[k].csn => j <= k

LEMMA SequenceOfParts ==
    ASSUME NEW view, NEW ck, NEW S \in CSNState, NEW R, NEW rd \in BOOLEAN, NEW A, NEW B, NEW D,
           PresentPart(A, view, ck, rd), EntryPart(B, view, ck), DeletePart(D, view, ck, R),
           \A u \in UUIDs : LeftAt(R, u) \in Nat
    PROVE  RefreshSequence(A \o B \o D \o <<Response("refreshDone", {}, NoCSN, S, rd)>>, view, ck, S, R, rd)
<1> DEFINE e == Response("refreshDone", {}, NoCSN, S, rd)
           q == A \o B \o D \o <<e>>
<1>1. e.kind = "refreshDone" /\ e.cookie = S /\ e.refreshDeletes = rd /\ e.csn = NoCSN
  BY DEF Response
<1>2. e \in Responses
  <2>1. NoCSN \in Nat /\ {} \in SUBSET UUIDs
    BY DEF NoCSN
  <2>. QED  BY <2>1, ResponseTyped
<1> HIDE DEF e
<1>3. A \in Seq(Responses) /\ B \in Seq(Responses) /\ D \in Seq(Responses)
  BY DEF PresentPart, EntryPart, DeletePart
<1>a. q \in Seq(Responses) /\ \E a, b, d : Placed(q, A, B, D, e, a, b, d)
  BY <1>2, <1>3, FourParts, Zenon
<1> HIDE DEF q
<1>b. PICK a, b, d : Placed(q, A, B, D, e, a, b, d)
  BY <1>a
<1>c. Len(A) \in Nat /\ Len(B) \in Nat /\ Len(D) \in Nat /\ \A k \in 1..Len(D) : D[k] \in Responses
  BY <1>3
<1>d. \A m \in Responses : m.csn \in Nat
  BY DEF Responses
<1>4. /\ a \in Nat /\ b \in Nat /\ d \in Nat /\ a <= b /\ b <= d
      /\ a = Len(A) /\ b = a + Len(B) /\ d = b + Len(D) /\ Len(q) = d + 1 /\ q[d + 1] = e
      /\ Len(A) \in Nat /\ Len(B) \in Nat /\ Len(D) \in Nat
      /\ \A k \in 1..Len(A) : q[k] = A[k]
      /\ \A k \in 1..Len(B) : q[a + k] = B[k]
      /\ \A k \in 1..Len(D) : q[b + k] = D[k]
  BY <1>b, <1>c, Zenon DEF Placed
<1>5. \A k \in 1..d : \/ k \in 1..Len(A)
                      \/ k - a \in 1..Len(B) /\ a + (k - a) = k
                      \/ k - b \in 1..Len(D) /\ b + (k - b) = k
  BY <1>4
<1>6. /\ \A k \in 1..Len(A) : k \in 1..d
      /\ \A k \in 1..Len(B) : a + k \in 1..d
      /\ \A k \in 1..Len(D) : b + k \in 1..d
      /\ \A k \in 1..(d + 1) : k \in 1..d \/ k = d + 1
      /\ Len(q) - 1 = d /\ d + 1 \in 1..(d + 1) /\ \A k \in 1..d : k \in 1..(d + 1) /\ k < d + 1
  <2>1. \A k \in 1..Len(A) : k \in 1..d
    BY <1>4
  <2>2. \A k \in 1..Len(B) : a + k \in 1..d
    BY <1>4
  <2>3. \A k \in 1..Len(D) : b + k \in 1..d
    BY <1>4
  <2>4. Len(q) - 1 = d /\ d + 1 \in 1..(d + 1)
    BY <1>4
  <2>a. d \in Nat
    BY <1>4
  <2>5. \A k \in 1..(d + 1) : k \in 1..d \/ k = d + 1
    BY <2>a
  <2>6. \A k \in 1..d : k \in 1..(d + 1) /\ k < d + 1
    BY <1>4
  <2>. QED  BY <2>1, <2>2, <2>3, <2>4, <2>5, <2>6, Zenon
<1>7. /\ \A k \in 1..Len(A) : IsPresent(q[k], view)
      /\ \A k \in 1..Len(B) : IsEntry(q[a + k], view)
      /\ \A k \in 1..Len(D) : IsDelete(q[b + k], view, ck, R)
  BY <1>4 DEF PresentPart, EntryPart, DeletePart
<1>8. \A k \in 1..d : \/ k \in 1..Len(A) /\ q[k].kind = "present"
                      \/ k - a \in 1..Len(B) /\ a + (k - a) = k /\ q[k].kind = "entry"
                      \/ k - b \in 1..Len(D) /\ b + (k - b) = k /\ q[k].kind = "delete"
  <2>1. ASSUME NEW k \in 1..d
        PROVE  \/ k \in 1..Len(A) /\ q[k].kind = "present"
               \/ k - a \in 1..Len(B) /\ a + (k - a) = k /\ q[k].kind = "entry"
               \/ k - b \in 1..Len(D) /\ b + (k - b) = k /\ q[k].kind = "delete"
    <3>1. CASE k \in 1..Len(A)
      BY <1>7, <3>1 DEF IsPresent
    <3>2. CASE k - a \in 1..Len(B) /\ a + (k - a) = k
      <4>1. IsEntry(q[a + (k - a)], view)
        BY <1>7, <3>2, Zenon
      <4>. QED  BY <3>2, <4>1 DEF IsEntry
    <3>3. CASE k - b \in 1..Len(D) /\ b + (k - b) = k
      <4>1. IsDelete(q[b + (k - b)], view, ck, R)
        BY <1>7, <3>3, Zenon
      <4>. QED  BY <3>3, <4>1 DEF IsDelete
    <3>. QED  BY <1>5, <3>1, <3>2, <3>3
  <2>. QED  BY <2>1
<1>9. \A k \in 1..Len(q) : q[k].kind \in {"delete", "refreshDone"} => k > b
  <2>1. ASSUME NEW k \in 1..Len(q), q[k].kind \in {"delete", "refreshDone"} PROVE k > b
    <3>1. CASE k = d + 1
      BY <1>4, <3>1
    <3>2. CASE k \in 1..d
      <4>1. k - b \in 1..Len(D)
        BY <1>8, <2>1, <3>2
      <4>. QED  BY <1>4, <4>1
    <3>. QED  BY <1>4, <1>6, <3>1, <3>2
  <2>. QED  BY <2>1
<1>10. \A k \in 1..d : IsPresent(q[k], view) \/ IsEntry(q[k], view) \/ IsDelete(q[k], view, ck, R)
  BY <1>5, <1>7
<1>11. ASSUME NEW u \in UUIDs, view[u].visibility = "in", EntryChanged(ck, view[u].csn)
       PROVE  \E j \in 1..d : /\ Sends(q, j, u) /\ q[j].csn = view[u].csn
                              /\ \A k \in 1..Len(q) : q[k].kind \in {"delete", "refreshDone"} => j < k
  <2>1. PICK i \in 1..Len(B) : B[i].uuids = {u} /\ B[i].csn = view[u].csn
    BY <1>11 DEF EntryPart
  <2>2. a + i \in 1..d /\ q[a + i] = B[i] /\ q[a + i].kind = "entry"
    BY <1>4, <1>6, <1>7 DEF IsEntry
  <2>3. \A k \in 1..Len(q) : k > b => a + i < k
    BY <1>4
  <2>. QED  BY <1>9, <2>1, <2>2, <2>3 DEF Sends
<1>12. ASSUME ~rd, NEW u \in UUIDs, view[u].visibility = "in", ~EntryChanged(ck, view[u].csn)
       PROVE  \E j \in 1..d : q[j].kind = "present" /\ u \in q[j].uuids
  <2>1. PICK i \in 1..Len(A) : u \in A[i].uuids
    BY <1>12 DEF PresentPart
  <2>. QED  BY <1>4, <1>6, <1>7, <2>1 DEF IsPresent
<1>13. ASSUME NEW u \in UUIDs, view[u].visibility # "in", LeftAt(R, u) # NoCSN
       PROVE  \E j \in 1..d : /\ q[j].kind = "delete" /\ Deletes(q[j], u, R)
                              /\ \A k \in 1..Len(q) : q[k].kind = "delete" /\ LeftAt(R, u) <= q[k].csn => j <= k
  <2>1. PICK i \in 1..Len(D) : Deletes(D[i], u, R)
    BY <1>13 DEF DeletePart
  <2>2. b + i \in 1..d /\ q[b + i] = D[i] /\ q[b + i].kind = "delete"
    BY <1>4, <1>6, <1>7 DEF IsDelete
  <2>3. ASSUME NEW k \in 1..Len(q), q[k].kind = "delete", LeftAt(R, u) <= q[k].csn PROVE b + i <= k
    <3>1. k \in 1..d
      BY <1>1, <1>4, <1>6, <2>3
    <3>2. k - b \in 1..Len(D) /\ b + (k - b) = k
      BY <1>8, <2>3, <3>1
    <3>3. q[k] = D[k - b]
      BY <1>4, <3>2
    <3>4. ~(k - b < i)
      <4>1. SUFFICES ASSUME k - b < i PROVE FALSE
        OBVIOUS
      <4>2. D[k - b].csn < D[i].csn
        BY <3>2, <4>1 DEF DeletePart
      <4>3. D[i].csn = LeftAt(R, u) /\ LeftAt(R, u) \in Nat
        BY <2>1 DEF Deletes
      <4>4. D[k - b].csn \in Nat
        BY <1>c, <1>d, <3>2, Zenon
      <4>. QED  BY <2>3, <3>3, <4>2, <4>3, <4>4
    <3>. QED  BY <1>4, <3>2, <3>4
  <2>. QED  BY <2>1, <2>2, <2>3
<1>14. RefreshSequence(q, view, ck, S, R, rd)
  <2>1. q \in Seq(Responses) /\ Len(q) \in Nat /\ Len(q) >= 1 /\ Len(q) = d + 1 /\ q[Len(q)] = e
    BY <1>4, <1>a
  <2>. QED  BY <1>1, <1>6, <1>10, <1>11, <1>12, <1>13, <2>1 DEF RefreshSequence
<1>. QED  BY <1>14 DEF q, e

LEMMA RefreshFacts ==
    ASSUME NEW view \in [UUIDs -> Entries], NEW ck \in CSNState, NEW S \in CSNState,
           NEW R \in SUBSET Changes, IsFiniteSet(R), NEW rd \in BOOLEAN
    PROVE  RefreshSequence(RefreshResponses(view, ck, S, R, rd), view, ck, S, R, rd)
<1> DEFINE current == {u \in UUIDs : view[u].visibility = "in"}
           changed == {u \in current : EntryChanged(ck, view[u].csn)}
           left == {u \in UUIDs \ current : LeftAt(R, u) # NoCSN}
           at == Sorted({LeftAt(R, u) : u \in left})
           present == current \ changed
           A == IF rd \/ present = {} THEN <<>>
                ELSE <<Response("present", present, NoCSN, NoState, FALSE)>>
           B == [i \in 1..Cardinality(changed) |->
                   LET u == Sorted(changed)[i] IN Response("entry", {u}, view[u].csn, NoState, FALSE)]
           D == DeleteResponses(at, left, ck, R)
<1>1. RefreshResponses(view, ck, S, R, rd) = A \o B \o D \o <<Response("refreshDone", {}, NoCSN, S, rd)>>
  BY DEF RefreshResponses, DeleteResponses
<1>2. /\ present = {u \in UUIDs : view[u].visibility = "in" /\ ~EntryChanged(ck, view[u].csn)}
      /\ changed = {u \in UUIDs : view[u].visibility = "in" /\ EntryChanged(ck, view[u].csn)}
      /\ left = {u \in UUIDs : view[u].visibility # "in" /\ LeftAt(R, u) # NoCSN}
  OBVIOUS
<1> HIDE DEF present, changed, left
<1>3. PresentPart(A, view, ck, rd)
  BY <1>2, PresentFacts
<1>4. EntryPart(B, view, ck)
  BY <1>2, EntryFacts
<1>5. DeletePart(D, view, ck, R)
  BY <1>2, DeleteFacts
<1>6. \A u \in UUIDs : LeftAt(R, u) \in Nat
  BY LeftAtTyped
<1> HIDE DEF A, B, D
<1>. QED  BY <1>1, <1>3, <1>4, <1>5, <1>6, SequenceOfParts

-----------------------------------------------------------------------------
(* A refresh, as the consumer's entry meets it.                            *)

\* What the refresh was made from is behind the snapshot.
RefreshBehind(view, from, ck, S, R) ==
    /\ view \in [UUIDs -> Entries] /\ from \in CSNState /\ ck \in CSNState /\ S \in CSNState
    /\ VectorBelow(from, ck) /\ VectorBelow(ck, S)
    /\ \A v \in UUIDs : CSNBelow(view[v].csn, S) /\ LeftAt(R, v) \in Nat /\ CSNBelow(LeftAt(R, v), S)

\* No response goes past the snapshot.
LEMMA RefreshBelow ==
    ASSUME NEW q, NEW view, NEW from, NEW ck, NEW S, NEW R, NEW rd,
           RefreshBehind(view, from, ck, S, R), RefreshSequence(q, view, from, S, R, rd)
    PROVE  \A k \in 1..Len(q) : /\ VectorBelow(q[k].cookie, S) /\ CSNBelow(q[k].csn, S)
                                /\ q[k].kind = "entry" => q[k].csn # NoCSN
<1>1. /\ \A s \in SIDs : from[s] \in Nat /\ ck[s] \in Nat /\ S[s] \in Nat /\ from[s] <= ck[s] /\ ck[s] <= S[s]
      /\ \A s \in SIDs : NoState[s] = 0 /\ from[s] <= S[s]
  BY DEF RefreshBehind, VectorBelow, CSNState, NoState, NoCSN
<1>2. ASSUME NEW k \in 1..Len(q)
      PROVE /\ VectorBelow(q[k].cookie, S) /\ CSNBelow(q[k].csn, S)
            /\ q[k].kind = "entry" => q[k].csn # NoCSN
  <2>0. Len(q) \in Nat
    BY DEF RefreshSequence
  <2>1. CASE k = Len(q)
    <3>1. q[k].cookie = S /\ q[k].csn = NoCSN /\ q[k].kind = "refreshDone"
      BY <2>1 DEF RefreshSequence
    <3>2. VectorBelow(S, S)
      BY <1>1 DEF VectorBelow
    <3>. QED  BY <3>1, <3>2 DEF CSNBelow
  <2>2. CASE k # Len(q)
    <3>0. k \in 1..(Len(q) - 1)
      BY <2>0, <2>2
    <3>1. CASE IsPresent(q[k], view)
      BY <1>1, <3>1 DEF IsPresent, CSNBelow, VectorBelow
    <3>2. CASE IsEntry(q[k], view)
      <4>1. PICK v \in UUIDs : q[k].csn = view[v].csn /\ view[v].visibility = "in"
        BY <3>2 DEF IsEntry
      <4>2. view[v] \in Entries /\ CSNBelow(view[v].csn, S)
        BY DEF RefreshBehind
      <4>3. view[v] # Absent
        BY <4>1 DEF Absent
      <4>4. view[v].csn # NoCSN
        BY <4>2, <4>3, EntryTyped
      <4>5. VectorBelow(q[k].cookie, S)
        BY <1>1, <3>2 DEF IsEntry, VectorBelow
      <4>. QED  BY <4>1, <4>2, <4>4, <4>5
    <3>3. CASE IsDelete(q[k], view, from, R)
      <4>1. CSNBelow(q[k].csn, S) /\ q[k].kind # "entry"
        BY <3>3 DEF IsDelete, RefreshBehind
      <4>2. ASSUME NEW s \in SIDs PROVE q[k].cookie[s] <= S[s]
        <5>1. CASE q[k].cookie[s] = from[s]
          BY <1>1, <5>1
        <5>2. ASSUME NEW v \in UUIDs, LeftAt(R, v) = q[k].cookie[s], LeftAt(R, v) # NoCSN, SIDOf(q[k].cookie[s]) = s
              PROVE  q[k].cookie[s] <= S[s]
          BY <5>2 DEF RefreshBehind, CSNBelow
        <5>. QED  BY <3>3, <5>1, <5>2 DEF IsDelete
      <4>. QED  BY <4>1, <4>2 DEF VectorBelow
    <3>. QED  BY <3>0, <3>1, <3>2, <3>3 DEF RefreshSequence
  <2>. QED  BY <2>1, <2>2
<1>. QED  BY <1>2

\* An entry of the search: sent, or said to be present, unless it is newer than the snapshot.
LEMMA RefreshIn ==
    ASSUME NEW q, NEW view, NEW from, NEW ck, NEW S, NEW R, NEW rd \in BOOLEAN,
           RefreshBehind(view, from, ck, S, R), RefreshSequence(q, view, from, S, R, rd),
           NEW u \in UUIDs, NEW c \in Nat, c # NoCSN, SIDOf(c) \in SIDs, NEW x \in Nat, x <= c,
           c <= ck[SIDOf(c)] => x = c,
           \/ view[u].visibility = "in" /\ view[u].csn = c
           \/ \A s \in SIDs : S[s] < c
    PROVE  InStream(q, ck, {}, x, u, c)
<1>0. Len(q) \in Nat /\ Len(q) >= 1 /\ q \in Seq(Responses)
  BY DEF RefreshSequence
<1>1. /\ \A s \in SIDs : from[s] \in Nat /\ ck[s] \in Nat /\ S[s] \in Nat /\ from[s] <= ck[s] /\ ck[s] <= S[s]
      /\ \A s \in SIDs : NoState[s] = 0
      /\ \A v \in UUIDs : view[v].csn \in Nat
  BY EntryTyped DEF RefreshBehind, VectorBelow, CSNState, NoState, NoCSN
<1>2. \A k \in 1..Len(q) : /\ VectorBelow(q[k].cookie, S) /\ CSNBelow(q[k].csn, S)
                           /\ q[k].cookie \in CSNState /\ q[k].csn \in Nat
  <2>1. \A k \in 1..Len(q) : q[k] \in Responses
    BY <1>0
  <2>. QED  BY <2>1, RefreshBelow DEF Responses
<1>3. c <= S[SIDOf(c)] => view[u].visibility = "in" /\ view[u].csn = c
  BY <1>1
<1>4. ASSUME NEW k \in 1..Len(q) PROVE InMessage(q, {}, k, u, c)
  <2>1. CASE k = Len(q)
    <3>1. q[k].kind = "refreshDone" /\ q[k].cookie = S /\ q[k].refreshDeletes = rd
      BY <2>1 DEF RefreshSequence
    <3>2. ASSUME ~rd, c <= S[SIDOf(c)] PROVE Mentioned({}, q, k - 1, u)
      <4>1. CASE EntryChanged(from, view[u].csn)
        <5>1. PICK j \in 1..(Len(q) - 1) : Sends(q, j, u)
          BY <1>3, <3>2, <4>1 DEF RefreshSequence
        <5>. QED  BY <2>1, <5>1 DEF Mentioned, Sends
      <4>2. CASE ~EntryChanged(from, view[u].csn)
        <5>1. PICK j \in 1..(Len(q) - 1) : q[j].kind = "present" /\ u \in q[j].uuids
          BY <1>3, <3>2, <4>2 DEF RefreshSequence
        <5>. QED  BY <2>1, <5>1 DEF Mentioned
      <4>. QED  BY <4>1, <4>2
    <3>. QED  BY <3>1, <3>2 DEF InMessage, Sends
  <2>2. CASE k # Len(q)
    <3>0. k \in 1..(Len(q) - 1)
      BY <1>0, <2>2
    <3>1. CASE IsPresent(q[k], view)
      BY <3>1 DEF IsPresent, InMessage, Sends
    <3>2. CASE IsEntry(q[k], view)
      <4>1. Sends(q, k, u) => q[k].csn = view[u].csn /\ view[u].visibility = "in"
        BY <3>2 DEF IsEntry, Sends
      <4>2. Sends(q, k, u) => q[k].csn <= c
        <5>1. CASE view[u].csn = c
          BY <4>1, <5>1
        <5>2. CASE \A s \in SIDs : S[s] < c
          <6>1. q[k].csn \in Nat /\ CSNBelow(q[k].csn, S)
            BY <1>2
          <6>. QED  BY <1>1, <5>2, <6>1 DEF CSNBelow, NoCSN
        <5>. QED  BY <5>1, <5>2
      <4>. QED  BY <3>2, <4>2 DEF IsEntry, InMessage
    <3>3. CASE IsDelete(q[k], view, from, R)
      <4>1. u \in q[k].uuids => q[k].csn < c
        <5>1. SUFFICES ASSUME u \in q[k].uuids PROVE q[k].csn < c
          OBVIOUS
        <5>2. \A s \in SIDs : S[s] < c
          BY <3>3, <5>1 DEF IsDelete
        <5>3. q[k].csn \in Nat /\ CSNBelow(q[k].csn, S) /\ q[k].csn # NoCSN
          BY <1>2, <3>3 DEF IsDelete
        <5>. QED  BY <1>1, <5>2, <5>3 DEF CSNBelow
      <4>. QED  BY <3>3, <4>1 DEF IsDelete, InMessage, Sends
    <3>. QED  BY <3>0, <3>1, <3>2, <3>3 DEF RefreshSequence
  <2>. QED  BY <2>1, <2>2
<1>5. ASSUME NEW j \in 0..Len(q), Reached(ck, q, j, SIDOf(c), c) PROVE Given(x, q, j, u, c)
  <2>1. CASE c <= ck[SIDOf(c)]
    BY <2>1 DEF Given
  <2>2. CASE ~(c <= ck[SIDOf(c)])
    <3>1. PICK k \in 1..j : c <= q[k].cookie[SIDOf(c)]
      BY <1>5, <2>2 DEF Reached
    <3>2. k \in 1..Len(q)
      BY <1>0
    <3>3. q[k].cookie[SIDOf(c)] \in Nat /\ q[k].cookie[SIDOf(c)] <= S[SIDOf(c)]
      BY <1>2, <3>2 DEF VectorBelow, CSNState
    <3>4. view[u].visibility = "in" /\ view[u].csn = c
      BY <1>1, <1>3, <3>1, <3>3
    <3>5. EntryChanged(from, view[u].csn)
      BY <1>1, <2>2, <3>4 DEF EntryChanged
    <3>6. PICK i \in 1..(Len(q) - 1) : /\ Sends(q, i, u) /\ q[i].csn = view[u].csn
                                      /\ \A m \in 1..Len(q) : q[m].kind \in {"delete", "refreshDone"} => i < m
      BY <3>4, <3>5 DEF RefreshSequence
    <3>7. q[k].kind \in {"delete", "refreshDone"}
      <4>1. CASE k = Len(q)
        BY <4>1 DEF RefreshSequence
      <4>2. CASE k # Len(q)
        <5>1. k \in 1..(Len(q) - 1)
          BY <1>0, <3>2, <4>2
        <5>2. q[k].cookie # NoState
          BY <1>1, <3>1 DEF NoCSN
        <5>. QED  BY <5>1, <5>2 DEF RefreshSequence, IsPresent, IsEntry, IsDelete
      <4>. QED  BY <4>1, <4>2
    <3>8. i \in 1..j
      BY <1>0, <3>2, <3>6, <3>7
    <3>. QED  BY <3>4, <3>6, <3>8 DEF Given
  <2>. QED  BY <2>1, <2>2
<1>. QED  BY <1>4, <1>5 DEF InStream

\* An entry that left: named by the log's replay, or not mentioned by the Present phase.
LEMMA RefreshOut ==
    ASSUME NEW q, NEW view, NEW from, NEW ck, NEW S, NEW R, NEW rd \in BOOLEAN,
           RefreshBehind(view, from, ck, S, R), RefreshSequence(q, view, from, S, R, rd),
           NEW u \in UUIDs, NEW s \in SIDs, NEW d \in Nat, d # NoCSN => SIDOf(d) = s,
           NEW x \in Nat, CSNBelow(x, S), x # NoCSN => x < d /\ ck[s] < d,
           view[u].visibility = "in" => S[s] < d /\ view[u].csn < d,
           rd /\ ck[s] < d /\ d <= S[s] => LeftAt(R, u) = d,
           ~rd => \A v \in UUIDs : LeftAt(R, v) = NoCSN
    PROVE  OutStream(q, ck, {}, x, u, s, d)
<1>0. Len(q) \in Nat /\ Len(q) >= 1 /\ q \in Seq(Responses)
  BY DEF RefreshSequence
<1>1. /\ from[s] \in Nat /\ ck[s] \in Nat /\ S[s] \in Nat /\ from[s] <= ck[s] /\ ck[s] <= S[s]
      /\ NoState[s] = 0
      /\ \A v \in UUIDs : view[v].csn \in Nat
  BY EntryTyped DEF RefreshBehind, VectorBelow, CSNState, NoState, NoCSN
<1>2. \A k \in 1..Len(q) : q[k].cookie[s] <= S[s] /\ q[k].cookie[s] \in Nat /\ q[k].csn \in Nat
  <2>1. \A k \in 1..Len(q) : q[k] \in Responses
    BY <1>0
  <2>2. \A m \in Responses : m.cookie[s] \in Nat /\ m.csn \in Nat
    BY DEF Responses, CSNState
  <2>. QED  BY <2>1, <2>2, RefreshBelow DEF VectorBelow
<1>3. ASSUME NEW k \in 1..Len(q), Sends(q, k, u) PROVE q[k].csn < d /\ ~Reached(ck, q, k, s, d)
  <2>1. k # Len(q)
    BY <1>3 DEF RefreshSequence, Sends
  <2>2. k \in 1..(Len(q) - 1)
    BY <1>0, <2>1
  <2>3. IsEntry(q[k], view)
    BY <1>3, <2>2 DEF RefreshSequence, IsPresent, IsDelete, Sends
  <2>4. view[u].visibility = "in" /\ q[k].csn = view[u].csn
    BY <1>3, <2>3 DEF IsEntry, Sends
  <2>5. S[s] < d /\ q[k].csn < d
    BY <2>4
  <2>6. \A i \in 1..k : i \in 1..Len(q)
    BY <1>0
  <2>7. \A i \in 1..k : ~(d <= q[i].cookie[s])
    BY <1>1, <1>2, <2>5, <2>6
  <2>. QED  BY <1>1, <2>5, <2>7 DEF Reached
<1>4. ASSUME NEW k \in 1..(Len(q) - 1) PROVE q[k].kind \in {"entry", "present"} /\ u \in q[k].uuids => view[u].visibility = "in"
  BY DEF RefreshSequence, IsPresent, IsEntry, IsDelete
<1>5. ASSUME ck[s] < d, d <= S[s], rd
      PROVE  \E j \in 1..(Len(q) - 1) :
                /\ q[j].kind = "delete" /\ u \in q[j].uuids /\ q[j].csn = d /\ d <= q[j].cookie[s]
                /\ \A k \in 1..Len(q) : q[k].kind = "delete" /\ d <= q[k].csn => j <= k
  <2>1. d # NoCSN /\ LeftAt(R, u) = d /\ view[u].visibility # "in" /\ SIDOf(d) = s
    BY <1>1, <1>5 DEF NoCSN
  <2>2. PICK j \in 1..(Len(q) - 1) : /\ q[j].kind = "delete" /\ Deletes(q[j], u, R)
                                     /\ \A k \in 1..Len(q) : q[k].kind = "delete" /\ LeftAt(R, u) <= q[k].csn => j <= k
    BY <2>1 DEF RefreshSequence
  <2>. QED  BY <2>1, <2>2 DEF Deletes
<1>6. ASSUME NEW k \in 1..Len(q), d <= q[k].cookie[s], ~Reached(ck, q, k - 1, s, d)
      PROVE  \/ q[k].kind = "delete" /\ u \in q[k].uuids /\ q[k].csn \in {d, NoCSN}
             \/ /\ q[k].kind = "refreshDone" /\ ~q[k].refreshDeletes
                /\ ~Mentioned({}, q, k - 1, u) /\ CSNBelow(x, q[k].cookie)
  <2>1. ck[s] < d /\ d <= S[s] /\ view[u].visibility # "in"
    <3>1. ck[s] < d
      BY <1>1, <1>6 DEF Reached
    <3>. QED  BY <1>1, <1>2, <1>6, <3>1
  <2>2. CASE k = Len(q)
    <3>1. q[k].kind = "refreshDone" /\ q[k].cookie = S /\ q[k].refreshDeletes = rd
      BY <2>2 DEF RefreshSequence
    <3>2. ~rd
      <4>1. SUFFICES ASSUME rd PROVE FALSE
        OBVIOUS
      <4>2. PICK j \in 1..(Len(q) - 1) : d <= q[j].cookie[s]
        BY <1>5, <2>1, <4>1
      <4>. QED  BY <1>6, <2>2, <4>2 DEF Reached
    <3>3. ~Mentioned({}, q, k - 1, u)
      BY <1>4, <2>1, <2>2 DEF Mentioned
    <3>. QED  BY <3>1, <3>2, <3>3
  <2>3. CASE k # Len(q)
    <3>0. k \in 1..(Len(q) - 1)
      BY <1>0, <2>3
    <3>1. q[k].cookie # NoState
      BY <1>1, <1>6, <2>1
    <3>2. IsDelete(q[k], view, from, R)
      BY <3>0, <3>1 DEF RefreshSequence, IsPresent, IsEntry
    <3>3. rd
      BY <3>2 DEF IsDelete
    <3>4. q[k].cookie[s] <= q[k].csn
      BY <1>1, <1>2, <1>6, <2>1, <3>2 DEF IsDelete
    <3>5. d <= q[k].csn
      BY <1>2, <1>6, <3>4
    <3>6. PICK j \in 1..(Len(q) - 1) : /\ u \in q[j].uuids /\ q[j].csn = d /\ d <= q[j].cookie[s] /\ j <= k
      BY <1>5, <2>1, <3>2, <3>3, <3>5 DEF IsDelete
    <3>7. ~(j \in 1..(k - 1))
      BY <1>6, <3>6 DEF Reached
    <3>8. j = k
      BY <1>0, <3>6, <3>7
    <3>. QED  BY <3>2, <3>6, <3>8 DEF IsDelete
  <2>. QED  BY <2>2, <2>3
<1>7. \A k \in 1..Len(q) : OutMessage(q, ck, {}, x, k, u, s, d)
  BY <1>3, <1>6 DEF OutMessage
<1>. QED  BY <1>7 DEF OutStream

-----------------------------------------------------------------------------
(* The persist phase appends a response.                                   *)

LEMMA AppendFacts ==
    ASSUME NEW q \in Seq(Responses), NEW m \in Responses
    PROVE  LET r == Append(q, m)
           IN  /\ r \in Seq(Responses) /\ Len(q) \in Nat /\ Len(r) = Len(q) + 1
               /\ \A k \in 1..Len(q) : r[k] = q[k]
               /\ r[Len(q) + 1] = m
               /\ \A k \in 1..Len(r) : k \in 1..Len(q) \/ k = Len(q) + 1
  OBVIOUS

\* What holds after the first j responses does not depend on the ones behind them.
LEMMA Prefix ==
    ASSUME NEW q, NEW r, NEW j, \A k \in 1..j : r[k] = q[k]
    PROVE  /\ \A ck, s, z : Reached(ck, r, j, s, z) <=> Reached(ck, q, j, s, z)
           /\ \A x, u, z : Given(x, r, j, u, z) <=> Given(x, q, j, u, z)
           /\ \A seen, u : Mentioned(seen, r, j, u) <=> Mentioned(seen, q, j, u)
<1>1. ASSUME NEW ck, NEW s, NEW z PROVE Reached(ck, r, j, s, z) <=> Reached(ck, q, j, s, z)
  BY DEF Reached
<1>2. ASSUME NEW x, NEW u, NEW z PROVE Given(x, r, j, u, z) <=> Given(x, q, j, u, z)
  BY Zenon DEF Given, Sends
<1>3. ASSUME NEW seen, NEW u PROVE Mentioned(seen, r, j, u) <=> Mentioned(seen, q, j, u)
  BY Zenon DEF Mentioned
<1>. QED  BY <1>1, <1>2, <1>3

LEMMA InAppend ==
    ASSUME NEW q \in Seq(Responses), NEW m \in Responses, NEW ck, NEW seen, NEW x, NEW u, NEW c,
           InStream(q, ck, seen, x, u, c), m.kind # "refreshDone",
           m.kind = "entry" /\ u \in m.uuids => m.csn <= c,
           m.kind = "delete" /\ u \in m.uuids
             => m.csn < c /\ (m.csn = NoCSN => \A s \in SIDs : m.cookie[s] < c),
           c <= m.cookie[SIDOf(c)] => \/ Reached(ck, q, Len(q), SIDOf(c), c)
                                      \/ m.kind = "entry" /\ u \in m.uuids /\ m.csn = c
    PROVE  InStream(Append(q, m), ck, seen, x, u, c)
<1> DEFINE r == Append(q, m)
           n == Len(q)
<1>1. /\ n \in Nat /\ Len(r) = n + 1 /\ \A k \in 1..n : r[k] = q[k]
      /\ r[n + 1] = m /\ \A k \in 1..Len(r) : k \in 1..n \/ k = n + 1
  BY AppendFacts
<1> HIDE DEF r
<1>2. ASSUME NEW j \in 0..n
      PROVE  /\ Reached(ck, r, j, SIDOf(c), c) <=> Reached(ck, q, j, SIDOf(c), c)
             /\ Given(x, r, j, u, c) <=> Given(x, q, j, u, c)
             /\ Mentioned(seen, r, j, u) <=> Mentioned(seen, q, j, u)
  <2>1. \A k \in 1..j : k \in 1..n
    BY <1>1
  <2>2. \A k \in 1..j : r[k] = q[k]
    BY <1>1, <2>1
  <2>. QED  BY <2>2, Prefix, Zenon
<1>3. ASSUME NEW k \in 1..Len(r) PROVE InMessage(r, seen, k, u, c)
  <2>1. CASE k \in 1..n
    <3>1. InMessage(q, seen, k, u, c) /\ r[k] = q[k]
      BY <1>1, <2>1 DEF InStream
    <3>2. k - 1 \in 0..n
      BY <1>1, <2>1
    <3>3. Mentioned(seen, r, k - 1, u) <=> Mentioned(seen, q, k - 1, u)
      BY <1>2, <3>2
    <3>. QED  BY <3>1, <3>3 DEF InMessage, Sends
  <2>2. CASE k = n + 1
    BY <1>1, <2>2 DEF InMessage, Sends
  <2>. QED  BY <1>1, <2>1, <2>2
<1>4. ASSUME NEW j \in 0..Len(r), Reached(ck, r, j, SIDOf(c), c) PROVE Given(x, r, j, u, c)
  <2>1. CASE j \in 0..n
    BY <1>2, <1>4, <2>1 DEF InStream
  <2>2. CASE j = n + 1
    <3>0. n \in 0..n /\ n + 1 \in 1..j /\ \A k \in 1..n : k \in 1..j
      BY <1>1, <2>2
    <3>1. CASE Reached(ck, q, n, SIDOf(c), c)
      <4>1. Given(x, r, n, u, c)
        BY <1>2, <3>0, <3>1 DEF InStream
      <4>. QED  BY <3>0, <4>1 DEF Given
    <3>2. CASE ~Reached(ck, q, n, SIDOf(c), c)
      <4>1. ~Reached(ck, r, n, SIDOf(c), c)
        BY <1>2, <3>0, <3>2
      <4>2. c <= r[n + 1].cookie[SIDOf(c)]
        <5>1. \A k \in 1..j : k \in 1..n \/ k = n + 1
          BY <1>1, <2>2
        <5>. QED  BY <1>4, <4>1, <5>1 DEF Reached
      <4>. QED  BY <1>1, <3>0, <3>2, <4>2 DEF Given, Sends
    <3>. QED  BY <3>1, <3>2
  <2>3. j \in 0..n \/ j = n + 1
    BY <1>1
  <2>. QED  BY <2>1, <2>2, <2>3
<1>5. InStream(r, ck, seen, x, u, c)
  BY <1>3, <1>4 DEF InStream
<1>. QED  BY <1>5 DEF r

LEMMA OutAppend ==
    ASSUME NEW q \in Seq(Responses), NEW m \in Responses, NEW ck, NEW seen, NEW x, NEW u, NEW s, NEW d,
           OutStream(q, ck, seen, x, u, s, d),
           m.kind = "entry" /\ u \in m.uuids
             => m.csn < d /\ ~Reached(ck, q, Len(q), s, d) /\ ~(d <= m.cookie[s]),
           d <= m.cookie[s] => \/ Reached(ck, q, Len(q), s, d)
                               \/ m.kind = "delete" /\ u \in m.uuids /\ m.csn \in {d, NoCSN}
    PROVE  OutStream(Append(q, m), ck, seen, x, u, s, d)
<1> DEFINE r == Append(q, m)
           n == Len(q)
<1>1. /\ n \in Nat /\ Len(r) = n + 1 /\ \A k \in 1..n : r[k] = q[k]
      /\ r[n + 1] = m /\ \A k \in 1..Len(r) : k \in 1..n \/ k = n + 1
  BY AppendFacts
<1> HIDE DEF r
<1>2. ASSUME NEW j \in 0..n
      PROVE  /\ Reached(ck, r, j, s, d) <=> Reached(ck, q, j, s, d)
             /\ Mentioned(seen, r, j, u) <=> Mentioned(seen, q, j, u)
  <2>1. \A k \in 1..j : k \in 1..n
    BY <1>1
  <2>2. \A k \in 1..j : r[k] = q[k]
    BY <1>1, <2>1
  <2>. QED  BY <2>2, Prefix, Zenon
<1>3. ASSUME NEW k \in 1..Len(r) PROVE OutMessage(r, ck, seen, x, k, u, s, d)
  <2>1. CASE k \in 1..n
    <3>1. OutMessage(q, ck, seen, x, k, u, s, d) /\ r[k] = q[k]
      BY <1>1, <2>1 DEF OutStream
    <3>2. k - 1 \in 0..n /\ k \in 0..n
      BY <1>1, <2>1
    <3>3. /\ Mentioned(seen, r, k - 1, u) <=> Mentioned(seen, q, k - 1, u)
          /\ Reached(ck, r, k - 1, s, d) <=> Reached(ck, q, k - 1, s, d)
          /\ Reached(ck, r, k, s, d) <=> Reached(ck, q, k, s, d)
      BY <1>2, <3>2
    <3>. QED  BY <3>1, <3>3 DEF OutMessage, Sends
  <2>2. CASE k = n + 1
    <3>1. n \in 0..n /\ k - 1 = n /\ \A i \in 1..k : i \in 1..n \/ i = n + 1
      BY <1>1, <2>2
    <3>2. Reached(ck, r, n, s, d) <=> Reached(ck, q, n, s, d)
      BY <1>2, <3>1
    <3>3. Reached(ck, r, k, s, d) => Reached(ck, r, n, s, d) \/ d <= m.cookie[s]
      BY <1>1, <3>1 DEF Reached
    <3>4. r[k] = m
      BY <1>1, <2>2
    <3>. QED  BY <3>1, <3>2, <3>3, <3>4 DEF OutMessage, Sends
  <2>. QED  BY <1>1, <2>1, <2>2
<1>4. OutStream(r, ck, seen, x, u, s, d)
  BY <1>3 DEF OutStream
<1>. QED  BY <1>4 DEF r

-----------------------------------------------------------------------------
(* One link: what its provider and its consumer have.                      *)

ProviderOf(p) ==
    [held |-> entries[p], tombs |-> tombstones[p], top |-> context[p], ceil |-> Ceiling(p),
     log |-> log[p], unpub |-> Unpublished(p), sid |-> ServerID[p]]
ConsumerOf(l) == [s |-> session[l], ck |-> cookie[l], held |-> entries[l[2]], tombs |-> tombstones[l[2]]]

ProviderStates ==
    [held : [UUIDs -> Entries], tombs : [UUIDs -> Nat], top : CSNState, ceil : Nat,
     log : SessionLogs, unpub : SUBSET Changes, sid : SIDs]
ConsumerStates == [s : Sessions, ck : CSNState, held : [UUIDs -> Entries], tombs : [UUIDs -> Nat]]

\* The CSN of the latest change of an entry.
Newest(P, u) == IF P.held[u] = Absent THEN P.tombs[u] ELSE P.held[u].csn

\* What the earlier invariants say of a provider.
Clocked(P) ==
    /\ \A s \in SIDs : P.top[s] < P.ceil
    /\ \A u \in UUIDs : CSNBelow(P.tombs[u], P.top)
    /\ \A r \in P.unpub : \A s \in SIDs : P.log.latest[s] < r.csn
    /\ \A r1, r2 \in P.unpub : r1 = r2

\* Its context covers its entries, and what it publishes is its own.
ServerBehind(P) ==
    /\ \A u \in UUIDs : CSNBelow(P.held[u].csn, P.top)
    /\ \A r \in Range(P.log.changes) : r.csn < P.ceil /\ SIDOf(r.csn) = P.sid
    /\ \A r \in P.unpub : r.csn # NoCSN /\ SIDOf(r.csn) = P.sid /\ r.csn <= P.top[P.sid]

\* A consumer, and what is on its way to it, is behind its provider.
ConsumerBehind(P, C) ==
    /\ VectorBelow(C.ck, P.top)
    /\ \A k \in 1..Len(C.s.stream) :
          LET m == C.s.stream[k]
          IN  /\ VectorBelow(m.cookie, P.top) /\ m.csn < P.ceil
              /\ m.kind = "entry" => m.csn # NoCSN /\ CSNBelow(m.csn, P.top)
    /\ \A u \in UUIDs : CSNBelow(C.held[u].csn, P.top) /\ C.tombs[u] < P.ceil

\* The channel has the provider's changes in the order of their CSNs.
ChannelOrdered(P, C) ==
    LET ev == C.s.events
    IN  /\ \A i, j \in 1..Len(ev) : i < j => ev[i].csn < ev[j].csn
        /\ \A i \in 1..Len(ev) :
              /\ ev[i].csn # NoCSN /\ SIDOf(ev[i].csn) = P.sid /\ ev[i].csn <= P.top[P.sid]
              /\ \A r \in P.unpub : ev[i].csn < r.csn

\* A search and its snapshot.
SearchShape(P, C) ==
    LET q == C.s.stream
        S == C.s.snapshot
    IN  /\ C.s.phase \in {"idle", "subscribed", "reading"} => q = <<>> /\ C.s.seen = {}
        /\ C.s.mode = "refreshOnly" => \A k \in 1..Len(q) : q[k].kind = "refreshDone" => k = Len(q)
        /\ C.s.phase \in {"reading", "persist"} =>
             /\ VectorBelow(S, P.top) /\ VectorBelow(C.ck, S)
             /\ \A k \in 1..Len(q) : VectorBelow(q[k].cookie, S)
        /\ C.s.phase = "reading" =>
             \A u \in UUIDs : CSNBelow(C.held[u].csn, S) /\ CSNBelow(C.s.view[u].csn, S)
        /\ C.s.phase = "persist" => \A i \in SIDs : Reached(C.ck, q, Len(q), i, S[i])

\* A change of u after the snapshot reaches the channel, unless that overflows first.
Follows(P, C, u, i, z) ==
    C.s.phase \in {"reading", "persist"} /\ C.s.mode = "refreshAndPersist" /\ z > C.s.snapshot[i]
    => \/ \E r \in Range(C.s.events) \cup P.unpub : r.uuid = u /\ r.csn = z /\ "in" \in {r.before, r.after}
       \/ C.s.overflow /\ \A r \in Range(C.s.events) : r.csn < z

\* An entry that the search returns.
InRecord(r, u, c) == r.uuid = u => r.csn <= c /\ (r.csn = c => r.after = "in")

InLink(P, C, u, c) ==
    /\ \A r \in Range(C.s.events) \cup P.unpub : InRecord(r, u, c)
    /\ C.s.phase = "reading" => C.s.view[u] = P.held[u] \/ \A i \in SIDs : C.s.snapshot[i] < c
    /\ Follows(P, C, u, SIDOf(c), c)
    /\ InStream(C.s.stream, C.ck, C.s.seen, C.held[u].csn, u, c)
    /\ C.tombs[u] < c

\* An entry that last left the search at d, and at 0 if it never was there.
Leaves(r, u, d) == r.uuid = u /\ r.csn = d /\ r.before = "in" /\ r.after # "in"
WentOut(r, u, d) == r.uuid = u /\ "in" \in {r.before, r.after} => r.csn < d \/ Leaves(r, u, d)

OutServer(P, u, d) ==
    /\ d # NoCSN => SIDOf(d) = P.sid /\ SIDOf(Newest(P, u)) = P.sid
    /\ \A r \in Range(P.log.changes) \cup P.unpub : WentOut(r, u, d)
    /\ LogSize > 0 => \/ d <= P.log.base[P.sid]
                      \/ \E r \in Range(P.log.changes) \cup P.unpub : Leaves(r, u, d)

OutLink(P, C, u, d) ==
    /\ \A r \in Range(C.s.events) : WentOut(r, u, d)
    /\ C.s.phase = "reading" /\ C.s.view[u].visibility = "in" => C.s.snapshot[P.sid] < d /\ C.s.view[u].csn < d
    /\ Follows(P, C, u, P.sid, d)
    /\ OutStream(C.s.stream, C.ck, C.s.seen, C.held[u].csn, u, P.sid, d)

ContentOf(P, C, u) ==
    IF P.held[u].visibility = "in"
    THEN InLink(P, C, u, P.held[u].csn)
    ELSE \E d \in 0..Newest(P, u) : OutServer(P, u, d) /\ OutLink(P, C, u, d)

LinkOK(P, C) ==
    /\ ServerBehind(P) /\ ConsumerBehind(P, C) /\ ChannelOrdered(P, C) /\ SearchShape(P, C)
    /\ \A u \in UUIDs : ContentOf(P, C, u)

\* The third hypothesis: a consumer has one provider.
SingleSource == \A l, m \in Links : l[2] = m[2] => l = m

ContentInv == LogInv /\ \A l \in Links : LinkOK(ProviderOf(l[1]), ConsumerOf(l))

-----------------------------------------------------------------------------
(* The types of a link.                                                    *)

LEMMA ProviderFields ==
    ASSUME NEW P \in ProviderStates
    PROVE  /\ P.held \in [UUIDs -> Entries] /\ P.tombs \in [UUIDs -> Nat]
           /\ P.top \in CSNState /\ P.ceil \in Nat /\ P.log \in SessionLogs
           /\ P.log.changes \in Seq(Changes) /\ P.unpub \in SUBSET Changes /\ P.sid \in SIDs
           /\ \A s \in SIDs : P.top[s] \in Nat /\ P.log.base[s] \in Nat /\ P.log.latest[s] \in Nat
           /\ \A u \in UUIDs : P.held[u] \in Entries /\ P.held[u].csn \in Nat /\ P.tombs[u] \in Nat
           /\ \A u \in UUIDs : Newest(P, u) \in Nat /\ (P.held[u].visibility = "in" => P.held[u].csn # NoCSN)
<1>1. /\ P.held \in [UUIDs -> Entries] /\ P.tombs \in [UUIDs -> Nat]
      /\ P.top \in CSNState /\ P.ceil \in Nat /\ P.log \in SessionLogs
      /\ P.unpub \in SUBSET Changes /\ P.sid \in SIDs
  BY DEF ProviderStates
<1>2. P.log.changes \in Seq(Changes) /\ P.log.base \in CSNState /\ P.log.latest \in CSNState
  BY <1>1 DEF SessionLogs
<1>3. \A s \in SIDs : P.top[s] \in Nat /\ P.log.base[s] \in Nat /\ P.log.latest[s] \in Nat
  BY <1>1, <1>2 DEF CSNState
<1>4. \A u \in UUIDs : P.held[u] \in Entries /\ P.tombs[u] \in Nat
  BY <1>1
<1>5. \A u \in UUIDs : P.held[u].csn \in Nat /\ (P.held[u] = Absent <=> P.held[u].csn = NoCSN)
  BY <1>4, EntryTyped
<1>6. \A u \in UUIDs : Newest(P, u) \in Nat
  BY <1>4, <1>5 DEF Newest
<1>7. \A u \in UUIDs : P.held[u].visibility = "in" => P.held[u].csn # NoCSN
  BY <1>5 DEF Absent
<1>. QED  BY <1>1, <1>2, <1>3, <1>4, <1>5, <1>6, <1>7

LEMMA ConsumerFields ==
    ASSUME NEW C \in ConsumerStates
    PROVE  /\ C.s.stream \in Seq(Responses) /\ C.s.events \in Seq(Changes)
           /\ C.s.snapshot \in CSNState /\ C.ck \in CSNState /\ C.s.seen \in SUBSET UUIDs
           /\ \A s \in SIDs : C.ck[s] \in Nat /\ C.s.snapshot[s] \in Nat
           /\ Len(C.s.stream) \in Nat /\ Len(C.s.events) \in Nat
           /\ \A k \in 1..Len(C.s.stream) :
                 /\ C.s.stream[k] \in Responses /\ C.s.stream[k].csn \in Nat
                 /\ \A s \in SIDs : C.s.stream[k].cookie[s] \in Nat
           /\ \A k \in 1..Len(C.s.events) : C.s.events[k] \in Changes /\ C.s.events[k].csn \in Nat
           /\ \A u \in UUIDs : C.held[u] \in Entries /\ C.held[u].csn \in Nat /\ C.tombs[u] \in Nat
           /\ \A u \in UUIDs : C.held[u] = Absent <=> C.held[u].csn = NoCSN
<1>1. /\ C.s \in Sessions /\ C.ck \in CSNState /\ C.held \in [UUIDs -> Entries] /\ C.tombs \in [UUIDs -> Nat]
  BY DEF ConsumerStates
<1>2. /\ C.s.stream \in Seq(Responses) /\ C.s.events \in Seq(Changes)
      /\ C.s.snapshot \in CSNState /\ C.s.seen \in SUBSET UUIDs
  BY <1>1 DEF Sessions
<1>3. \A s \in SIDs : C.ck[s] \in Nat /\ C.s.snapshot[s] \in Nat
  BY <1>1, <1>2 DEF CSNState
<1>4. \A m \in Responses : m.csn \in Nat /\ \A s \in SIDs : m.cookie[s] \in Nat
  BY DEF Responses, CSNState
<1>5. \A r \in Changes : r.csn \in Nat
  BY DEF Changes
<1>6. \A k \in 1..Len(C.s.stream) : C.s.stream[k] \in Responses
  BY <1>2
<1>7. \A k \in 1..Len(C.s.events) : C.s.events[k] \in Changes
  BY <1>2
<1>8. Len(C.s.stream) \in Nat /\ Len(C.s.events) \in Nat
  BY <1>2
<1>9. \A u \in UUIDs : C.held[u] \in Entries /\ C.tombs[u] \in Nat
  BY <1>1
<1>10. \A u \in UUIDs : C.held[u].csn \in Nat /\ (C.held[u] = Absent <=> C.held[u].csn = NoCSN)
  BY <1>9, EntryTyped
<1>. QED  BY <1>1, <1>2, <1>3, <1>4, <1>5, <1>6, <1>7, <1>8, <1>9, <1>10

\* What the worker keeps in the database.
SameStore(C, C2) == C2.ck = C.ck /\ C2.held = C.held /\ C2.tombs = C.tombs

\* The first and the other elements of a channel.
LEMMA RangeIndex ==
    ASSUME NEW T, NEW q \in Seq(T)
    PROVE  /\ \A r \in Range(q) : \E k \in 1..Len(q) : r = q[k]
           /\ \A k \in 1..Len(q) : q[k] \in Range(q)
  BY DEF Range

\* A content invariant that the search takes no part in.
LEMMA ClosedSearch ==
    ASSUME NEW P, NEW C, C.s.phase \notin {"reading", "persist"}
    PROVE  \A u, i, z : Follows(P, C, u, i, z)
  BY DEF Follows

\* Both sides drop the search.
LEMMA LinkDrop ==
    ASSUME NEW P \in ProviderStates, NEW C \in ConsumerStates, NEW C2 \in ConsumerStates, LinkOK(P, C),
           SameStore(C, C2), C2.s.phase = "idle", C2.s.events = <<>>, C2.s.stream = <<>>, C2.s.seen = {}
    PROVE  LinkOK(P, C2)
<1>1. Len(<<>>) = 0 /\ 1..0 = {} /\ Range(<<>>) = {}
  BY DEF Range
<1>2. ConsumerBehind(P, C2)
  BY <1>1 DEF LinkOK, ConsumerBehind, SameStore
<1>3. ChannelOrdered(P, C2) /\ SearchShape(P, C2)
  BY <1>1 DEF ChannelOrdered, SearchShape
<1>4. ASSUME NEW u \in UUIDs PROVE ContentOf(P, C2, u)
  <2>1. /\ \A i, z : Follows(P, C2, u, i, z)
        /\ C2.held[u] = C.held[u] /\ C2.tombs[u] = C.tombs[u] /\ C2.ck = C.ck
    BY ClosedSearch DEF SameStore
  <2>2. /\ \A c : InStream(C.s.stream, C.ck, C.s.seen, C.held[u].csn, u, c)
                  => InStream(<<>>, C.ck, {}, C.held[u].csn, u, c)
        /\ \A s, d : OutStream(C.s.stream, C.ck, C.s.seen, C.held[u].csn, u, s, d)
                  => OutStream(<<>>, C.ck, {}, C.held[u].csn, u, s, d)
    <3> DEFINE q == C.s.stream
               ck == C.ck
               seen == C.s.seen
               x == C.held[u].csn
               none == {}
    <3>1. q \in Seq(Responses)
      BY ConsumerFields
    <3> HIDE DEF q, ck, seen, x, none
    <3>2. /\ \A c : InStream(q, ck, seen, x, u, c) => InStream(<<>>, ck, none, x, u, c)
          /\ \A s, d : OutStream(q, ck, seen, x, u, s, d) => OutStream(<<>>, ck, none, x, u, s, d)
      BY <3>1, DropStream
    <3>. QED  BY <3>2 DEF q, ck, seen, x, none
  <2>3. \A c : InLink(P, C, u, c) => InLink(P, C2, u, c)
    BY <1>1, <2>1, <2>2 DEF InLink
  <2>4. \A d : OutLink(P, C, u, d) => OutLink(P, C2, u, d)
    BY <1>1, <2>1, <2>2 DEF OutLink
  <2>5. ContentOf(P, C, u)
    BY DEF LinkOK
  <2>. QED  BY <2>3, <2>4, <2>5 DEF ContentOf
<1>. QED  BY <1>2, <1>3, <1>4 DEF LinkOK

\* prepareSyncSearch opens a search.
LEMMA LinkConnect ==
    ASSUME NEW P \in ProviderStates, NEW C \in ConsumerStates, NEW C2 \in ConsumerStates, LinkOK(P, C),
           SameStore(C, C2), C.s.phase = "idle", C2.s.phase = "subscribed", C2.s.events = C.s.events,
           C2.s.stream = C.s.stream, C2.s.seen = C.s.seen, C2.s.mode = C.s.mode
    PROVE  LinkOK(P, C2)
<1>1. ConsumerBehind(P, C2)
  BY DEF LinkOK, ConsumerBehind, SameStore
<1>2. ChannelOrdered(P, C2)
  BY DEF LinkOK, ChannelOrdered
<1>3. SearchShape(P, C2)
  BY DEF LinkOK, SearchShape
<1>4. ASSUME NEW u \in UUIDs PROVE ContentOf(P, C2, u)
  <2>1. /\ \A i, z : Follows(P, C2, u, i, z)
        /\ C2.held[u] = C.held[u] /\ C2.tombs[u] = C.tombs[u] /\ C2.ck = C.ck
    BY ClosedSearch DEF SameStore
  <2>2. \A c : InLink(P, C, u, c) => InLink(P, C2, u, c)
    BY <2>1 DEF InLink
  <2>3. \A d : OutLink(P, C, u, d) => OutLink(P, C2, u, d)
    BY <2>1 DEF OutLink
  <2>4. ContentOf(P, C, u)
    BY DEF LinkOK
  <2>. QED  BY <2>2, <2>3, <2>4 DEF ContentOf
<1>. QED  BY <1>1, <1>2, <1>3, <1>4 DEF LinkOK

\* The latest change of an entry is covered by the stored context.
LEMMA NewestBelow ==
    ASSUME NEW P \in ProviderStates, NEW u \in UUIDs, Clocked(P), ServerBehind(P)
    PROVE  CSNBelow(Newest(P, u), P.top)
  BY DEF Clocked, ServerBehind, Newest

\* captureSnapshot.
LEMMA LinkCapture ==
    ASSUME NEW P \in ProviderStates, NEW C \in ConsumerStates, NEW C2 \in ConsumerStates, Clocked(P), LinkOK(P, C),
           SameStore(C, C2), C.s.phase = "subscribed", C2.s.phase = "reading", C2.s.events = C.s.events,
           C2.s.stream = C.s.stream, C2.s.seen = C.s.seen, C2.s.mode = C.s.mode,
           C2.s.view = P.held, C2.s.snapshot = P.top
    PROVE  LinkOK(P, C2)
<1>0. C.s.stream = <<>> /\ C.s.seen = {} /\ Len(<<>>) = 0 /\ 1..0 = {}
  BY DEF LinkOK, SearchShape
<1>1. ConsumerBehind(P, C2)
  BY DEF LinkOK, ConsumerBehind, SameStore
<1>2. ChannelOrdered(P, C2)
  BY DEF LinkOK, ChannelOrdered
<1>a. \A s \in SIDs : P.top[s] \in Nat
  BY ProviderFields
<1>3. SearchShape(P, C2)
  <2>1. VectorBelow(P.top, P.top)
    BY <1>a DEF VectorBelow
  <2>. QED  BY <1>0, <2>1 DEF LinkOK, SearchShape, ConsumerBehind, ServerBehind, SameStore
<1>4. ASSUME NEW u \in UUIDs PROVE ContentOf(P, C2, u)
  <2>1. C2.held[u] = C.held[u] /\ C2.tombs[u] = C.tombs[u] /\ C2.ck = C.ck
    BY DEF SameStore
  <2>2. CASE P.held[u].visibility = "in"
    <3> DEFINE c == P.held[u].csn
    <3>1. c \in Nat /\ c # NoCSN /\ CSNBelow(c, P.top)
      BY <2>2, ProviderFields DEF LinkOK, ServerBehind
    <3>2. InLink(P, C, u, c)
      BY <2>2 DEF LinkOK, ContentOf
    <3> HIDE DEF c
    <3>3. Follows(P, C2, u, SIDOf(c), c)
      BY <1>a, <3>1 DEF Follows, CSNBelow
    <3>4. InLink(P, C2, u, c)
      BY <2>1, <3>2, <3>3 DEF InLink
    <3>. QED  BY <2>2, <3>4 DEF ContentOf, c
  <2>3. CASE P.held[u].visibility # "in"
    <3>1. PICK d \in 0..Newest(P, u) : OutServer(P, u, d) /\ OutLink(P, C, u, d)
      BY <2>3 DEF LinkOK, ContentOf
    <3>2. CSNBelow(Newest(P, u), P.top) /\ Newest(P, u) \in Nat /\ P.sid \in SIDs
      BY NewestBelow, ProviderFields DEF LinkOK
    <3>3. d <= P.top[P.sid]
      BY <1>a, <3>1, <3>2 DEF OutServer, CSNBelow, NoCSN
    <3>4. Follows(P, C2, u, P.sid, d)
      BY <1>a, <3>2, <3>3 DEF Follows
    <3>5. OutLink(P, C2, u, d)
      BY <2>1, <2>3, <3>1, <3>4 DEF OutLink
    <3>. QED  BY <2>3, <3>1, <3>5 DEF ContentOf
  <2>. QED  BY <2>2, <2>3
<1>. QED  BY <1>1, <1>2, <1>3, <1>4 DEF LinkOK

\* A response that ends the search.
LEMMA FailedFields ==
    /\ Failed \in Responses /\ Failed.kind = "failed" /\ Failed.csn = NoCSN
    /\ \A s \in SIDs : Failed.cookie[s] = 0
<1>1. NoState \in CSNState /\ NoCSN \in Nat /\ {} \in SUBSET UUIDs /\ \A s \in SIDs : NoState[s] = 0
  BY VectorsTyped DEF NoCSN, NoState
<1>2. Failed.kind = "failed" /\ Failed.csn = NoCSN /\ Failed.cookie = NoState
  BY DEF Failed, Response
<1>3. Failed \in Responses
  BY <1>1, ResponseTyped DEF Failed
<1>. QED  BY <1>1, <1>2, <1>3

\* A provider ends the search with a result other than success.
LEMMA LinkFails ==
    ASSUME NEW P \in ProviderStates, NEW C \in ConsumerStates, NEW C2 \in ConsumerStates, Clocked(P), LinkOK(P, C),
           SameStore(C, C2), C2.s.phase = "ended", C2.s.events = C.s.events,
           C2.s.stream = Append(C.s.stream, Failed), C2.s.seen = C.s.seen, C2.s.mode = C.s.mode,
           C.s.mode = "refreshOnly" => C.s.stream = <<>>
    PROVE  LinkOK(P, C2)
<1> DEFINE q == C.s.stream
           r == C2.s.stream
<1>0. /\ q \in Seq(Responses) /\ Failed \in Responses /\ Failed.kind = "failed" /\ Failed.csn = NoCSN
      /\ \A s \in SIDs : Failed.cookie[s] = 0
  BY ConsumerFields, FailedFields
<1>1. /\ Len(q) \in Nat /\ Len(r) = Len(q) + 1
      /\ \A k \in 1..Len(q) : r[k] = q[k]
      /\ r[Len(q) + 1] = Failed
      /\ \A k \in 1..Len(r) : k \in 1..Len(q) \/ k = Len(q) + 1
  BY <1>0, AppendFacts
<1>2. \A s \in SIDs : P.top[s] \in Nat /\ P.top[s] < P.ceil /\ P.ceil \in Nat
  BY ProviderFields DEF Clocked
<1>3. ConsumerBehind(P, C2)
  <2>1. NoCSN < P.ceil
    <3>1. P.sid \in SIDs
      BY ProviderFields
    <3>. QED  BY <1>2, <3>1 DEF NoCSN
  <2>2. VectorBelow(Failed.cookie, P.top) /\ CSNBelow(NoCSN, P.top)
    BY <1>0, <1>2 DEF VectorBelow, CSNBelow
  <2>3. ASSUME NEW k \in 1..Len(r)
        PROVE  /\ VectorBelow(r[k].cookie, P.top) /\ r[k].csn < P.ceil
               /\ r[k].kind = "entry" => r[k].csn # NoCSN /\ CSNBelow(r[k].csn, P.top)
    <3>1. CASE k \in 1..Len(q)
      BY <1>1, <3>1 DEF LinkOK, ConsumerBehind
    <3>2. CASE k = Len(q) + 1
      BY <1>0, <1>1, <2>1, <2>2, <3>2
    <3>. QED  BY <1>1, <3>1, <3>2
  <2>. QED  BY <2>3 DEF LinkOK, ConsumerBehind, SameStore
<1>4. ChannelOrdered(P, C2)
  BY DEF LinkOK, ChannelOrdered
<1>5. SearchShape(P, C2)
  <2>1. ASSUME C2.s.mode = "refreshOnly", NEW k \in 1..Len(r), r[k].kind = "refreshDone" PROVE k = Len(r)
    <3>1. q = <<>>
      BY <2>1
    <3>2. Len(q) = 0
      BY <3>1
    <3>. QED  BY <1>1, <3>2
  <2>. QED  BY <2>1 DEF SearchShape
<1>6. ASSUME NEW u \in UUIDs PROVE ContentOf(P, C2, u)
  <2>1. /\ C2.held[u] = C.held[u] /\ C2.tombs[u] = C.tombs[u] /\ C2.ck = C.ck
        /\ \A i, z : Follows(P, C2, u, i, z)
    BY ClosedSearch DEF SameStore
  <2>2. CASE P.held[u].visibility = "in"
    <3> DEFINE c == P.held[u].csn
    <3>1. c \in Nat /\ c # NoCSN /\ SIDOf(c) \in SIDs
      BY <2>2, ProviderFields DEF LinkOK, ServerBehind, CSNBelow
    <3>2. InLink(P, C, u, c)
      BY <2>2 DEF LinkOK, ContentOf
    <3> HIDE DEF c
    <3>3. ~(c <= Failed.cookie[SIDOf(c)])
      BY <1>0, <3>1 DEF NoCSN
    <3>4. InStream(q, C.ck, C.s.seen, C.held[u].csn, u, c)
      BY <3>2 DEF InLink
    <3>5. InStream(Append(q, Failed), C.ck, C.s.seen, C.held[u].csn, u, c)
      BY <1>0, <3>3, <3>4, InAppend
    <3>6. InLink(P, C2, u, c)
      BY <2>1, <3>2, <3>5 DEF InLink
    <3>. QED  BY <2>2, <3>6 DEF ContentOf, c
  <2>3. CASE P.held[u].visibility # "in"
    <3>1. PICK d \in 0..Newest(P, u) : OutServer(P, u, d) /\ OutLink(P, C, u, d)
      BY <2>3 DEF LinkOK, ContentOf
    <3>2. Newest(P, u) \in Nat /\ P.sid \in SIDs
      BY ProviderFields
    <3>3. d <= Failed.cookie[P.sid] => Reached(C.ck, q, Len(q), P.sid, d)
      <4>1. C.ck[P.sid] \in Nat
        BY <3>2, ConsumerFields
      <4>. QED  BY <1>0, <3>1, <3>2, <4>1 DEF Reached
    <3>4. OutStream(q, C.ck, C.s.seen, C.held[u].csn, u, P.sid, d)
      BY <3>1 DEF OutLink
    <3>5. OutStream(Append(q, Failed), C.ck, C.s.seen, C.held[u].csn, u, P.sid, d)
      BY <1>0, <3>3, <3>4, OutAppend
    <3>6. OutLink(P, C2, u, d)
      BY <2>1, <3>1, <3>5 DEF OutLink
    <3>. QED  BY <2>3, <3>1, <3>6 DEF ContentOf
  <2>. QED  BY <2>2, <2>3
<1>. QED  BY <1>3, <1>4, <1>5, <1>6 DEF LinkOK

\* The changes that a replay names.
LEMMA ReplayNames ==
    ASSUME NEW R \in SUBSET Changes, IsFiniteSet(R), NEW u, NEW d \in Nat, d # NoCSN,
           \A r \in R : WentOut(r, u, d), \E r \in R : Leaves(r, u, d)
    PROVE  LeftAt(R, u) = d
<1> DEFINE mine == {r \in R : r.uuid = u /\ "in" \in {r.before, r.after}}
           csns == {r.csn : r \in mine}
<1>1. IsFiniteSet(mine) /\ mine \subseteq Changes
  BY FS_Subset
<1>2. IsFiniteSet(csns)
  <2> DEFINE f == [r \in Changes |-> r.csn]
  <2>1. csns = {f[r] : r \in mine} /\ mine \subseteq DOMAIN f
    BY <1>1
  <2> HIDE DEF f, csns, mine
  <2>. QED  BY <1>1, <2>1, FiniteImage
<1>3. \A r \in mine : r.csn \in Nat /\ r.csn <= d /\ (r.csn = d => r.after # "in")
  <2>1. ASSUME NEW r \in mine PROVE r.csn \in Nat /\ r.csn <= d /\ (r.csn = d => r.after # "in")
    <3>1. r.csn \in Nat
      BY <1>1 DEF Changes
    <3>2. r.csn < d \/ Leaves(r, u, d)
      BY DEF WentOut
    <3>. QED  BY <3>1, <3>2 DEF Leaves
  <2>. QED  BY <2>1
<1>4. PICK r0 \in mine : r0.csn = d
  BY DEF Leaves
<1> HIDE DEF mine
<1>5. csns \in SUBSET Nat /\ d \in csns /\ \A y \in csns : y <= d
  BY <1>3, <1>4
<1>6. Max(csns) = d
  <2>1. csns # {}
    BY <1>5
  <2>2. Max(csns) \in csns /\ \A y \in csns : Max(csns) >= y
    BY <1>2, <1>5, <2>1, GreatestNumber
  <2> HIDE DEF csns
  <2>3. Max(csns) \in Nat /\ Max(csns) <= d /\ Max(csns) >= d
    BY <1>5, <2>2
  <2>. QED  BY <2>3
<1>7. LeftAt(R, u) = IF mine = {} \/ \E r \in mine : r.csn = Max(csns) /\ r.after = "in" THEN NoCSN ELSE Max(csns)
  BY DEF LeftAt, mine
<1>8. ~(mine = {} \/ \E r \in mine : r.csn = Max(csns) /\ r.after = "in")
  BY <1>3, <1>4, <1>6
<1>. QED  BY <1>6, <1>7, <1>8

\* A replay names nothing but changes, and nothing without changes.
LEMMA LeftAtChange ==
    ASSUME NEW R \in SUBSET Changes, IsFiniteSet(R), NEW u
    PROVE  LeftAt(R, u) # NoCSN => \E r \in R : r.csn = LeftAt(R, u)
<1> DEFINE mine == {r \in R : r.uuid = u /\ "in" \in {r.before, r.after}}
           csns == {r.csn : r \in mine}
<1>1. IsFiniteSet(mine) /\ mine \subseteq Changes
  BY FS_Subset
<1>2. IsFiniteSet(csns)
  <2> DEFINE f == [r \in Changes |-> r.csn]
  <2>1. csns = {f[r] : r \in mine} /\ mine \subseteq DOMAIN f
    BY <1>1
  <2> HIDE DEF f, csns, mine
  <2>. QED  BY <1>1, <2>1, FiniteImage
<1>3. csns \in SUBSET Nat
  BY <1>1 DEF Changes
<1>4. LeftAt(R, u) = IF mine = {} \/ \E r \in mine : r.csn = Max(csns) /\ r.after = "in" THEN NoCSN ELSE Max(csns)
  BY DEF LeftAt
<1>5. mine # {} => Max(csns) \in csns
  <2>1. mine # {} => csns # {}
    OBVIOUS
  <2> HIDE DEF csns
  <2>. QED  BY <1>2, <1>3, <2>1, GreatestNumber
<1>6. \A y \in csns : \E r \in R : r.csn = y
  OBVIOUS
<1> HIDE DEF csns, mine
<1>. QED  BY <1>4, <1>5, <1>6

\* The search of a reading or persisting link that keeps its channel.
LEMMA SameFollows ==
    ASSUME NEW P, NEW C, NEW C2, C2.s.events = C.s.events, C2.s.overflow = C.s.overflow, C2.s.mode = C.s.mode,
           C2.s.snapshot = C.s.snapshot,
           C2.s.phase \in {"reading", "persist"} => C.s.phase \in {"reading", "persist"}
    PROVE  \A u, i, z : Follows(P, C, u, i, z) => Follows(P, C2, u, i, z)
  BY DEF Follows

\* What is below a vector is below every vector above it.
LEMMA BelowAbove ==
    ASSUME NEW w, NEW y, VectorBelow(w, y), \A s \in SIDs : w[s] \in Nat /\ y[s] \in Nat
    PROVE  /\ \A v : VectorBelow(v, w) /\ (\A s \in SIDs : v[s] \in Nat) => VectorBelow(v, y)
           /\ \A c \in Nat : CSNBelow(c, w) => CSNBelow(c, y)
<1>1. ASSUME NEW v, VectorBelow(v, w), \A s \in SIDs : v[s] \in Nat PROVE VectorBelow(v, y)
  BY <1>1 DEF VectorBelow
<1>2. ASSUME NEW c \in Nat, CSNBelow(c, w) PROVE CSNBelow(c, y)
  BY <1>2 DEF CSNBelow, VectorBelow
<1>. QED  BY <1>1, <1>2

\* What a vector covers is older than what is above the vector.
LEMMA BelowCeiling ==
    ASSUME NEW v, NEW top \in Nat, \A s \in SIDs : v[s] \in Nat /\ v[s] < top
    PROVE  \A c \in Nat : CSNBelow(c, v) => c < top
<1>1. PICK s \in SIDs : v[s] < top
  BY SIDsAssumption
<1>. QED  BY <1>1 DEF CSNBelow, NoCSN

\* prepareSyncRefresh and writeSyncSearch.
LEMMA LinkRefresh ==
    ASSUME NEW P \in ProviderStates, NEW C \in ConsumerStates, NEW C2 \in ConsumerStates, Clocked(P), LinkOK(P, C),
           SameStore(C, C2), C.s.phase = "reading", C.s.view \in [UUIDs -> Entries],
           C2.s.phase \in {"ended", "persist"},
           C2.s.events = C.s.events, C2.s.overflow = C.s.overflow, C2.s.mode = C.s.mode,
           C2.s.snapshot = C.s.snapshot, C2.s.seen = C.s.seen,
           NEW known, known = ComparableCookie(C.ck, C.s.snapshot),
           NEW rd \in BOOLEAN, rd => Usable(P.log, known, C.s.snapshot),
           NEW from \in {known, NoState}, rd => from = known,
           NEW R, R = IF rd THEN Replayed(P.log, known, C.s.snapshot) ELSE {},
           C2.s.stream = RefreshResponses(C.s.view, from, C.s.snapshot, R, rd)
    PROVE  LinkOK(P, C2)
<1> DEFINE S == C.s.snapshot
           view == C.s.view
           ck == C.ck
           q == C2.s.stream
<1>0. /\ S \in CSNState /\ ck \in CSNState
      /\ \A s \in SIDs : ck[s] \in Nat /\ S[s] \in Nat
      /\ \A s \in SIDs : ck[s] <= S[s] /\ S[s] <= P.top[s]
      /\ C.s.stream = <<>> /\ C.s.seen = {}
      /\ \A u \in UUIDs : CSNBelow(C.held[u].csn, S) /\ CSNBelow(view[u].csn, S)
  <2>1. S \in CSNState /\ ck \in CSNState /\ \A s \in SIDs : ck[s] \in Nat /\ S[s] \in Nat
    BY ConsumerFields
  <2>2. SearchShape(P, C)
    BY DEF LinkOK
  <2>. QED  BY <2>1, <2>2 DEF SearchShape, VectorBelow
<1>1. /\ \A s \in SIDs : P.top[s] \in Nat /\ P.log.base[s] \in Nat /\ P.log.latest[s] \in Nat /\ P.top[s] < P.ceil
      /\ P.log.changes \in Seq(Changes) /\ P.ceil \in Nat /\ P.sid \in SIDs
  BY ProviderFields DEF Clocked
<1>2. known \in CSNState /\ \A s \in SIDs : known[s] \in Nat /\ known[s] <= ck[s]
  <2>1. known \in CSNState
    BY <1>0, ComparableTyped
  <2>2. ASSUME NEW s \in SIDs PROVE known[s] <= ck[s]
    <3>1. known[s] = 0 \/ known[s] = ck[s]
      BY DEF ComparableCookie, NoState, NoCSN
    <3>. QED  BY <1>0, <3>1
  <2>. QED  BY <2>1, <2>2 DEF CSNState
<1>3. from \in CSNState /\ \A s \in SIDs : from[s] <= ck[s]
  <2>1. NoState \in CSNState /\ \A s \in SIDs : NoState[s] = 0
    BY VectorsTyped DEF NoState, NoCSN
  <2>. QED  BY <1>0, <1>2, <2>1
<1>4. R \in SUBSET Changes /\ IsFiniteSet(R) /\ (rd => R = Replayed(P.log, known, S)) /\ (~rd => R = {})
  <2>1. IsFiniteSet(Range(P.log.changes)) /\ Range(P.log.changes) \in SUBSET Changes
    BY <1>1, FiniteRange
  <2>2. Replayed(P.log, known, S) \in SUBSET Range(P.log.changes)
    BY DEF Replayed
  <2>3. IsFiniteSet(Replayed(P.log, known, S)) /\ IsFiniteSet({})
    BY <2>1, <2>2, FS_Subset, FS_EmptySet
  <2>. QED  BY <2>1, <2>2, <2>3
<1>5. \A r \in R : /\ r \in Range(P.log.changes) /\ r.csn <= S[SIDOf(r.csn)] /\ SIDOf(r.csn) \in SIDs
  BY <1>1, <1>4 DEF Replayed, LinkOK, ServerBehind
<1> HIDE DEF S, view, ck, q
<1>6. RefreshBehind(view, from, ck, S, R)
  <2>1. ASSUME NEW v \in UUIDs PROVE LeftAt(R, v) \in Nat /\ CSNBelow(LeftAt(R, v), S)
    <3>1. LeftAt(R, v) \in Nat
      BY <1>4, LeftAtTyped
    <3>2. LeftAt(R, v) # NoCSN => \E r \in R : r.csn = LeftAt(R, v)
      BY <1>4, LeftAtChange
    <3>. QED  BY <1>5, <3>1, <3>2 DEF CSNBelow
  <2>2. view \in [UUIDs -> Entries]
    BY DEF view
  <2>. QED  BY <1>0, <1>3, <2>1, <2>2 DEF RefreshBehind, VectorBelow
<1>7. RefreshSequence(q, view, from, S, R, rd)
  <2>1. q = RefreshResponses(view, from, S, R, rd) /\ view \in [UUIDs -> Entries]
    BY DEF q, view, S
  <2>. QED  BY <1>0, <1>3, <1>4, <2>1, RefreshFacts
<1>8. ASSUME NEW k \in 1..Len(q)
      PROVE  /\ VectorBelow(q[k].cookie, S) /\ CSNBelow(q[k].csn, S)
             /\ q[k].kind = "entry" => q[k].csn # NoCSN
             /\ q[k].csn \in Nat /\ \A s \in SIDs : q[k].cookie[s] \in Nat
  <2>1. /\ VectorBelow(q[k].cookie, S) /\ CSNBelow(q[k].csn, S)
        /\ q[k].kind = "entry" => q[k].csn # NoCSN
    BY <1>6, <1>7, RefreshBelow
  <2>2. q[k].csn \in Nat /\ \A s \in SIDs : q[k].cookie[s] \in Nat
    BY ConsumerFields DEF q
  <2>. QED  BY <2>1, <2>2
<1>8n. Len(q) \in Nat /\ Len(q) >= 1
  BY <1>7 DEF RefreshSequence
<1>9. ConsumerBehind(P, C2)
  <2>1. ASSUME NEW k \in 1..Len(q)
        PROVE  /\ VectorBelow(q[k].cookie, P.top) /\ q[k].csn < P.ceil
               /\ q[k].kind = "entry" => q[k].csn # NoCSN /\ CSNBelow(q[k].csn, P.top)
    <3> DEFINE m == q[k]
    <3>1. /\ VectorBelow(m.cookie, S) /\ CSNBelow(m.csn, S)
          /\ m.kind = "entry" => m.csn # NoCSN
          /\ m.csn \in Nat /\ \A s \in SIDs : m.cookie[s] \in Nat
      BY <1>8
    <3> HIDE DEF m
    <3>2. VectorBelow(S, P.top)
      BY <1>0 DEF VectorBelow
    <3>3. VectorBelow(m.cookie, P.top) /\ CSNBelow(m.csn, P.top)
      BY <1>0, <1>1, <3>1, <3>2, BelowAbove
    <3>4. m.csn < P.ceil
      BY <1>1, <3>1, <3>3, BelowCeiling
    <3>. QED  BY <3>1, <3>3, <3>4 DEF m
  <2>. QED  BY <2>1 DEF LinkOK, ConsumerBehind, SameStore, q
<1>10. ChannelOrdered(P, C2)
  BY DEF LinkOK, ChannelOrdered
<1>11. SearchShape(P, C2)
  <2>1. \A k \in 1..Len(q) : q[k].kind = "refreshDone" => k = Len(q)
    <3>1. ASSUME NEW k \in 1..Len(q), k # Len(q) PROVE q[k].kind # "refreshDone"
      <4>1. k \in 1..(Len(q) - 1)
        BY <1>8, <1>8n, <3>1
      <4>. QED  BY <1>7, <4>1 DEF RefreshSequence, IsPresent, IsEntry, IsDelete
    <3>. QED  BY <3>1
  <2>2. VectorBelow(S, P.top) /\ VectorBelow(ck, S)
    BY <1>0 DEF VectorBelow
  <2>3. \A i \in SIDs : Reached(ck, q, Len(q), i, S[i])
    <3>1. q[Len(q)].cookie = S /\ Len(q) \in 1..Len(q)
      BY <1>7, <1>8, <1>8n DEF RefreshSequence
    <3>2. \A i \in SIDs : S[i] <= q[Len(q)].cookie[i]
      BY <1>0, <3>1
    <3>. QED  BY <3>1, <3>2 DEF Reached
  <2>4. C2.ck = ck /\ C2.s.snapshot = S /\ C2.s.stream = q
    BY DEF SameStore, ck, S, q
  <2>5. \A k \in 1..Len(q) : VectorBelow(q[k].cookie, S)
    BY <1>8
  <2>6. C2.s.phase \notin {"idle", "subscribed", "reading"}
    OBVIOUS
  <2>. QED  BY <2>1, <2>2, <2>3, <2>4, <2>5, <2>6 DEF SearchShape
<1>12. ASSUME NEW u \in UUIDs PROVE ContentOf(P, C2, u)
  <2> DEFINE x == C.held[u].csn
  <2>1. /\ C2.held[u] = C.held[u] /\ C2.tombs[u] = C.tombs[u] /\ C2.ck = ck /\ C2.s.stream = q
        /\ \A i, z : Follows(P, C, u, i, z) => Follows(P, C2, u, i, z)
    BY SameFollows DEF SameStore, ck, q
  <2>2. x \in Nat /\ CSNBelow(x, S) /\ C2.s.seen = {}
    BY <1>0, ConsumerFields
  <2>3. CASE P.held[u].visibility = "in"
    <3> DEFINE c == P.held[u].csn
    <3>1. c \in Nat /\ c # NoCSN /\ SIDOf(c) \in SIDs
      BY <2>3, ProviderFields DEF LinkOK, ServerBehind, CSNBelow
    <3>2. InLink(P, C, u, c)
      BY <2>3 DEF LinkOK, ContentOf
    <3>3. (view[u].visibility = "in" /\ view[u].csn = c) \/ \A s \in SIDs : S[s] < c
      BY <2>3, <3>2 DEF InLink, view, S
    <3> HIDE DEF c, x
    <3>4. InStream(<<>>, ck, {}, x, u, c)
      BY <1>0, <3>2 DEF InLink, x, ck
    <3>5. x <= c /\ (c <= ck[SIDOf(c)] => x = c)
      <4>1. Len(<<>>) = 0 /\ 0 \in 0..0 /\ 1..0 = {}
        OBVIOUS
      <4>. QED  BY <3>4, <4>1 DEF InStream, Reached, Given
    <3>6. InStream(q, ck, {}, x, u, c)
      BY <1>6, <1>7, <2>2, <3>1, <3>3, <3>5, RefreshIn
    <3>7. InLink(P, C2, u, c)
      BY <2>1, <2>2, <3>2, <3>6 DEF InLink, x
    <3>. QED  BY <2>3, <3>7 DEF ContentOf, c
  <2>4. CASE P.held[u].visibility # "in"
    <3>1. PICK d \in 0..Newest(P, u) : OutServer(P, u, d) /\ OutLink(P, C, u, d)
      BY <2>4 DEF LinkOK, ContentOf
    <3>2. d \in Nat /\ (d # NoCSN => SIDOf(d) = P.sid)
      BY <3>1, ProviderFields DEF OutServer
    <3>3. OutStream(<<>>, ck, {}, x, u, P.sid, d)
      BY <1>0, <3>1 DEF OutLink, ck
    <3>4. x # NoCSN => x < d /\ ck[P.sid] < d
      BY <3>3 DEF OutStream
    <3>5. view[u].visibility = "in" => S[P.sid] < d /\ view[u].csn < d
      BY <3>1 DEF OutLink, view, S
    <3>6. ASSUME rd, ck[P.sid] < d, d <= S[P.sid] PROVE LeftAt(R, u) = d
      <4>1. /\ LogSize > 0 /\ S[P.sid] <= P.log.latest[P.sid] /\ P.log.base[P.sid] <= known[P.sid]
        BY <1>0, <1>1, <1>2, <3>6 DEF Usable, Covers, S
      <4>2. ~(d <= P.log.base[P.sid])
        BY <1>0, <1>1, <1>2, <3>2, <3>6, <4>1
      <4>3. PICK r \in Range(P.log.changes) \cup P.unpub : Leaves(r, u, d)
        BY <3>1, <4>1, <4>2 DEF OutServer
      <4>4. r.csn = d /\ d # NoCSN /\ SIDOf(d) = P.sid
        BY <1>0, <1>1, <3>2, <3>6, <4>3 DEF Leaves, NoCSN
      <4>5. r \notin P.unpub
        BY <1>0, <1>1, <3>2, <3>6, <4>1, <4>4 DEF Clocked
      <4>6. d > known[P.sid]
        BY <1>0, <1>1, <1>2, <3>2, <3>6
      <4>7. r \in R
        BY <1>4, <3>6, <4>3, <4>4, <4>5, <4>6 DEF Replayed
      <4>8. \A r1 \in R : WentOut(r1, u, d)
        BY <1>5, <3>1 DEF OutServer
      <4>. QED  BY <1>4, <3>2, <4>3, <4>4, <4>7, <4>8, ReplayNames
    <3>7. ~rd => \A v \in UUIDs : LeftAt(R, v) = NoCSN
      BY <1>4 DEF LeftAt
    <3> HIDE DEF x
    <3>8. OutStream(q, ck, {}, x, u, P.sid, d)
      BY <1>1, <1>6, <1>7, <2>2, <3>2, <3>4, <3>5, <3>6, <3>7, RefreshOut
    <3>9. OutLink(P, C2, u, d)
      BY <2>1, <2>2, <3>1, <3>8 DEF OutLink, x
    <3>. QED  BY <2>4, <3>1, <3>9 DEF ContentOf
  <2>. QED  BY <2>3, <2>4
<1>. QED  BY <1>9, <1>10, <1>11, <1>12 DEF LinkOK

\* The first change of a channel is its oldest, and the rest is a channel.
LEMMA ChannelHead ==
    ASSUME NEW P, NEW C, NEW C2, C.s.events \in Seq(Changes), C.s.events # <<>>, ChannelOrdered(P, C),
           C2.s.events = Tail(C.s.events)
    PROVE  /\ ChannelOrdered(P, C2)
           /\ Head(C.s.events) \in Changes /\ Head(C.s.events) \in Range(C.s.events)
           /\ Head(C.s.events).csn \in Nat /\ Head(C.s.events).csn # NoCSN
           /\ SIDOf(Head(C.s.events).csn) = P.sid /\ Head(C.s.events).csn <= P.top[P.sid]
           /\ \A r \in P.unpub : Head(C.s.events).csn < r.csn
           /\ \A r \in Range(C.s.events) : \/ r = Head(C.s.events)
                                           \/ r \in Range(C2.s.events) /\ Head(C.s.events).csn < r.csn
           /\ Range(C2.s.events) \subseteq Range(C.s.events)
           /\ \A r \in Range(C.s.events) : r.csn \in Nat
<1> DEFINE ev == C.s.events
           tl == Tail(ev)
<1>1. /\ Len(ev) \in Nat /\ Len(ev) >= 1 /\ Len(tl) = Len(ev) - 1 /\ 1 \in 1..Len(ev)
      /\ \A k \in 1..Len(tl) : tl[k] = ev[k + 1]
      /\ ev[1] = Head(ev) /\ tl \in Seq(Changes) /\ \A k \in 1..Len(ev) : ev[k] \in Changes
  OBVIOUS
<1>2. /\ \A r \in Range(ev) : \E k \in 1..Len(ev) : r = ev[k]
      /\ \A k \in 1..Len(ev) : ev[k] \in Range(ev)
      /\ \A r \in Range(tl) : \E k \in 1..Len(tl) : r = tl[k]
      /\ \A k \in 1..Len(tl) : tl[k] \in Range(tl)
  BY <1>1, RangeIndex
<1>3. /\ \A i, j \in 1..Len(ev) : i < j => ev[i].csn < ev[j].csn
      /\ \A i \in 1..Len(ev) :
            /\ ev[i].csn # NoCSN /\ SIDOf(ev[i].csn) = P.sid /\ ev[i].csn <= P.top[P.sid]
            /\ \A r \in P.unpub : ev[i].csn < r.csn
  BY DEF ChannelOrdered
<1>4. C2.s.events = tl
  OBVIOUS
<1>5. \A r \in Changes : r.csn \in Nat
  BY DEF Changes
<1> HIDE DEF ev, tl
<1>6. \A k \in 1..Len(tl) : k + 1 \in 1..Len(ev) /\ 1 < k + 1
  BY <1>1
<1>7. \A k \in 1..Len(ev) : k = 1 \/ (k - 1 \in 1..Len(tl) /\ (k - 1) + 1 = k /\ 1 < k)
  BY <1>1
<1>8. ChannelOrdered(P, C2)
  <2>1. ASSUME NEW i \in 1..Len(tl), NEW j \in 1..Len(tl), i < j PROVE tl[i].csn < tl[j].csn
    <3>1. i + 1 < j + 1
      BY <1>1, <2>1
    <3>2. tl[i] = ev[i + 1] /\ tl[j] = ev[j + 1] /\ i + 1 \in 1..Len(ev) /\ j + 1 \in 1..Len(ev)
      BY <1>1, <1>6
    <3>. QED  BY <1>3, <3>1, <3>2, Zenon
  <2>2. ASSUME NEW i \in 1..Len(tl)
        PROVE  /\ tl[i].csn # NoCSN /\ SIDOf(tl[i].csn) = P.sid /\ tl[i].csn <= P.top[P.sid]
               /\ \A r \in P.unpub : tl[i].csn < r.csn
    BY <1>1, <1>3, <1>6, Zenon
  <2>. QED  BY <1>4, <2>1, <2>2 DEF ChannelOrdered
<1>9. ASSUME NEW r \in Range(ev) PROVE r = ev[1] \/ (r \in Range(tl) /\ ev[1].csn < r.csn)
  <2>1. PICK k \in 1..Len(ev) : r = ev[k]
    BY <1>2
  <2>2. CASE k = 1
    BY <2>1, <2>2
  <2>3. CASE k - 1 \in 1..Len(tl) /\ (k - 1) + 1 = k /\ 1 < k
    <3>1. tl[k - 1] = ev[k]
      BY <1>1, <2>3
    <3>2. ev[1].csn < ev[k].csn
      BY <1>1, <1>3, <2>3, Zenon
    <3>. QED  BY <1>2, <2>1, <2>3, <3>1, <3>2
  <2>. QED  BY <1>7, <2>2, <2>3
<1>10. Range(tl) \subseteq Range(ev)
  <2>1. SUFFICES ASSUME NEW r \in Range(tl) PROVE r \in Range(ev)
    OBVIOUS
  <2>2. PICK k \in 1..Len(tl) : r = tl[k]
    BY <1>2
  <2>3. tl[k] = ev[k + 1] /\ ev[k + 1] \in Range(ev)
    BY <1>1, <1>2, <1>6
  <2>. QED  BY <2>2, <2>3
<1>11. \A r \in Range(ev) : r.csn \in Nat
  BY <1>1, <1>2, <1>5
<1>12. /\ ev[1] \in Changes /\ ev[1] \in Range(ev) /\ ev[1].csn \in Nat /\ ev[1].csn # NoCSN
       /\ SIDOf(ev[1].csn) = P.sid /\ ev[1].csn <= P.top[P.sid] /\ \A r \in P.unpub : ev[1].csn < r.csn
  BY <1>1, <1>2, <1>3, <1>5
<1>13. Head(ev) = ev[1]
  BY <1>1
<1> USE DEF ev
<1>. QED  BY <1>4, <1>8, <1>9, <1>10, <1>11, <1>12, <1>13, Zenon

\* persistSyncSearch skips a change that the refresh covered.
LEMMA LinkSkip ==
    ASSUME NEW P \in ProviderStates, NEW C \in ConsumerStates, NEW C2 \in ConsumerStates, LinkOK(P, C),
           SameStore(C, C2), C.s.phase = "persist", C2.s.phase = "persist",
           C.s.events # <<>>, C2.s.events = Tail(C.s.events), C2.s.overflow = C.s.overflow, C2.s.mode = C.s.mode,
           C2.s.snapshot = C.s.snapshot, C2.s.seen = C.s.seen, C2.s.stream = C.s.stream,
           Head(C.s.events).csn <= C.s.snapshot[P.sid]
    PROVE  LinkOK(P, C2)
<1> DEFINE e == Head(C.s.events)
<1>1. /\ ChannelOrdered(P, C2) /\ e.csn \in Nat /\ SIDOf(e.csn) = P.sid
      /\ \A r \in Range(C.s.events) : r = e \/ r \in Range(C2.s.events)
      /\ Range(C2.s.events) \subseteq Range(C.s.events)
  <2>1. C.s.events \in Seq(Changes) /\ ChannelOrdered(P, C)
    BY ConsumerFields DEF LinkOK
  <2>. QED  BY <2>1, ChannelHead
<1>2. P.sid \in SIDs /\ \A s \in SIDs : C.s.snapshot[s] \in Nat
  BY ProviderFields, ConsumerFields
<1> HIDE DEF e
<1>3. ConsumerBehind(P, C2)
  BY DEF LinkOK, ConsumerBehind, SameStore
<1>4. SearchShape(P, C2)
  <2>1. SearchShape(P, C)
    BY DEF LinkOK
  <2>. QED  BY <2>1 DEF SearchShape, SameStore
<1>5. ASSUME NEW u \in UUIDs, NEW i \in SIDs, NEW z \in Nat, z # NoCSN => SIDOf(z) = i, Follows(P, C, u, i, z)
      PROVE  Follows(P, C2, u, i, z)
  <2>1. SUFFICES ASSUME C.s.mode = "refreshAndPersist", z > C.s.snapshot[i]
                 PROVE  \/ \E r \in Range(C2.s.events) \cup P.unpub :
                              r.uuid = u /\ r.csn = z /\ "in" \in {r.before, r.after}
                        \/ C2.s.overflow /\ \A r \in Range(C2.s.events) : r.csn < z
    BY DEF Follows
  <2>2. e.csn # z
    <3>1. z # NoCSN
      BY <1>2, <2>1 DEF NoCSN
    <3>2. e.csn = z => P.sid = i
      BY <1>1, <1>5, <3>1
    <3>3. e.csn <= C.s.snapshot[P.sid]
      BY DEF e
    <3>. QED  BY <1>1, <1>2, <2>1, <3>2, <3>3
  <2>3. \/ \E r \in Range(C.s.events) \cup P.unpub : r.uuid = u /\ r.csn = z /\ "in" \in {r.before, r.after}
        \/ C.s.overflow /\ \A r \in Range(C.s.events) : r.csn < z
    BY <1>5, <2>1 DEF Follows
  <2>. QED  BY <1>1, <2>2, <2>3
<1>6. ASSUME NEW u \in UUIDs PROVE ContentOf(P, C2, u)
  <2>1. C2.held[u] = C.held[u] /\ C2.tombs[u] = C.tombs[u] /\ C2.ck = C.ck
    BY DEF SameStore
  <2>2. CASE P.held[u].visibility = "in"
    <3> DEFINE c == P.held[u].csn
    <3>1. c \in Nat /\ c # NoCSN /\ SIDOf(c) \in SIDs
      BY <2>2, ProviderFields DEF LinkOK, ServerBehind, CSNBelow
    <3>2. InLink(P, C, u, c)
      BY <2>2 DEF LinkOK, ContentOf
    <3> HIDE DEF c
    <3>3. Follows(P, C2, u, SIDOf(c), c)
      BY <1>5, <3>1, <3>2 DEF InLink
    <3>4. InLink(P, C2, u, c)
      BY <1>1, <2>1, <3>2, <3>3 DEF InLink
    <3>. QED  BY <2>2, <3>4 DEF ContentOf, c
  <2>3. CASE P.held[u].visibility # "in"
    <3>1. PICK d \in 0..Newest(P, u) : OutServer(P, u, d) /\ OutLink(P, C, u, d)
      BY <2>3 DEF LinkOK, ContentOf
    <3>2. d \in Nat /\ (d # NoCSN => SIDOf(d) = P.sid)
      BY <3>1, ProviderFields DEF OutServer
    <3>3. Follows(P, C2, u, P.sid, d)
      BY <1>2, <1>5, <3>1, <3>2 DEF OutLink
    <3>4. OutLink(P, C2, u, d)
      BY <1>1, <2>1, <3>1, <3>3 DEF OutLink
    <3>. QED  BY <2>3, <3>1, <3>4 DEF ContentOf
  <2>. QED  BY <2>2, <2>3
<1>. QED  BY <1>1, <1>3, <1>4, <1>6 DEF LinkOK

\* What is streamed for a change: its own CSN, and no cookie beyond the snapshot.
LEMMA StreamedResponse ==
    ASSUME NEW e \in Changes, e.csn # NoCSN, SIDOf(e.csn) \in SIDs, NEW S \in CSNState, S[SIDOf(e.csn)] = e.csn
    PROVE  LET m == ChangeResponse(e, S)
           IN  /\ m \in Responses /\ m.kind \in {"entry", "delete", "newCookie"}
               /\ m.cookie[SIDOf(e.csn)] = e.csn
               /\ \A s \in SIDs : s # SIDOf(e.csn) => m.cookie[s] \in {0, S[s]}
               /\ m.kind # "newCookie" => \A s \in SIDs : s # SIDOf(e.csn) => m.cookie[s] = 0
               /\ e.after = "in" => m.kind = "entry" /\ m.uuids = {e.uuid} /\ m.csn = e.csn
               /\ e.after # "in" /\ e.before = "in" => m.kind = "delete" /\ m.uuids = {e.uuid} /\ m.csn = NoCSN
               /\ e.after # "in" /\ e.before # "in" => m.kind = "newCookie" /\ m.csn = NoCSN
<1> DEFINE i == SIDOf(e.csn)
           own == Advance(NoState, e.csn)
<1>1. e.csn \in Nat /\ e.csn > 0
  BY DEF Changes, NoCSN
<1>2. NoState \in [SIDs -> Nat] /\ \A s \in SIDs : NoState[s] = 0
  BY DEF NoState, NoCSN
<1>3. own = [NoState EXCEPT ![i] = e.csn]
  BY <1>1, <1>2 DEF Advance, NoCSN
<1>4. own[i] = e.csn /\ \A s \in SIDs : s # i => own[s] = 0
  BY <1>2, <1>3
<1>5. ChangeResponse(e, S) \in Responses
  BY ChangeResponseTyped
<1> HIDE DEF own
<1>6. CASE e.after = "in"
  <2>1. ChangeResponse(e, S) = Response("entry", {e.uuid}, e.csn, own, FALSE)
    BY <1>6 DEF ChangeResponse, own
  <2>. QED  BY <1>4, <1>5, <1>6, <2>1 DEF Response
<1>7. CASE e.after # "in" /\ e.before = "in"
  <2>1. ChangeResponse(e, S) = Response("delete", {e.uuid}, NoCSN, own, FALSE)
    BY <1>7 DEF ChangeResponse, own
  <2>. QED  BY <1>4, <1>5, <1>7, <2>1 DEF Response
<1>8. CASE e.after # "in" /\ e.before # "in"
  <2>1. ChangeResponse(e, S) = Response("newCookie", {}, NoCSN, S, FALSE)
    BY <1>8 DEF ChangeResponse
  <2>. QED  BY <1>5, <1>8, <2>1 DEF Response
<1>. QED  BY <1>6, <1>7, <1>8

\* persistSyncSearch streams a change.
LEMMA LinkStream ==
    ASSUME NEW P \in ProviderStates, NEW C \in ConsumerStates, NEW C2 \in ConsumerStates, Clocked(P), LinkOK(P, C),
           SameStore(C, C2), C.s.phase = "persist", C2.s.phase = "persist", C.s.mode = "refreshAndPersist",
           C.s.events # <<>>, C2.s.events = Tail(C.s.events), C2.s.overflow = C.s.overflow, C2.s.mode = C.s.mode,
           C2.s.seen = C.s.seen, ~(Head(C.s.events).csn < C.s.snapshot[P.sid]),
           C2.s.snapshot = [C.s.snapshot EXCEPT ![P.sid] = Head(C.s.events).csn],
           C2.s.stream = Append(C.s.stream, ChangeResponse(Head(C.s.events), C2.s.snapshot))
    PROVE  LinkOK(P, C2)
<1> DEFINE e == Head(C.s.events)
           S == C.s.snapshot
           S2 == C2.s.snapshot
           q == C.s.stream
           r2 == C2.s.stream
           m == ChangeResponse(e, S2)
           t == P.sid
<1>1. /\ ChannelOrdered(P, C2) /\ e \in Changes /\ e.csn \in Nat /\ e.csn # NoCSN /\ SIDOf(e.csn) = P.sid
      /\ e \in Range(C.s.events) /\ e.csn <= P.top[P.sid]
      /\ \A r \in P.unpub : e.csn < r.csn
      /\ \A r \in Range(C.s.events) : r = e \/ (r \in Range(C2.s.events) /\ e.csn < r.csn)
      /\ Range(C2.s.events) \subseteq Range(C.s.events)
      /\ \A r \in Range(C.s.events) : r.csn \in Nat
  <2>1. C.s.events \in Seq(Changes) /\ ChannelOrdered(P, C)
    BY ConsumerFields DEF LinkOK
  <2>2. C.s.events # <<>> /\ C2.s.events = Tail(C.s.events)
    OBVIOUS
  <2>3. /\ ChannelOrdered(P, C2) /\ e \in Changes /\ e \in Range(C.s.events)
        /\ e.csn \in Nat /\ e.csn # NoCSN /\ SIDOf(e.csn) = P.sid /\ e.csn <= P.top[P.sid]
    BY <2>1, <2>2, ChannelHead
  <2>4. /\ \A r \in P.unpub : e.csn < r.csn
        /\ \A r \in Range(C.s.events) : r = e \/ (r \in Range(C2.s.events) /\ e.csn < r.csn)
    BY <2>1, <2>2, ChannelHead
  <2>5. Range(C2.s.events) \subseteq Range(C.s.events) /\ \A r \in Range(C.s.events) : r.csn \in Nat
    BY <2>1, <2>2, ChannelHead
  <2>. QED  BY <2>3, <2>4, <2>5
<1>2. /\ t \in SIDs /\ \A s \in SIDs : S[s] \in Nat /\ P.top[s] \in Nat /\ C.ck[s] \in Nat /\ P.top[s] < P.ceil
      /\ P.ceil \in Nat /\ q \in Seq(Responses) /\ S \in CSNState /\ S2 \in CSNState
      /\ \A k \in 1..Len(q) : \A s \in SIDs : q[k].cookie[s] \in Nat
  BY ProviderFields, ConsumerFields DEF Clocked
<1>3. /\ S2[t] = e.csn /\ (\A s \in SIDs : s # t => S2[s] = S[s]) /\ S[t] <= e.csn
      /\ \A s \in SIDs : S2[s] \in Nat /\ S[s] <= S2[s]
  BY <1>1, <1>2 DEF CSNState
<1>4. r2 = Append(q, m) /\ C2.s.events = Tail(C.s.events)
  OBVIOUS
<1> HIDE DEF e, S, S2, q, r2, m
<1>5. /\ m \in Responses /\ m.kind \in {"entry", "delete", "newCookie"}
      /\ m.cookie[t] = e.csn
      /\ \A s \in SIDs : s # t => m.cookie[s] \in {0, S2[s]}
      /\ m.kind # "newCookie" => \A s \in SIDs : s # t => m.cookie[s] = 0
      /\ e.after = "in" => m.kind = "entry" /\ m.uuids = {e.uuid} /\ m.csn = e.csn
      /\ e.after # "in" /\ e.before = "in" => m.kind = "delete" /\ m.uuids = {e.uuid} /\ m.csn = NoCSN
      /\ e.after # "in" /\ e.before # "in" => m.kind = "newCookie" /\ m.csn = NoCSN
  BY <1>1, <1>2, <1>3, StreamedResponse DEF m
<1> HIDE DEF t
<1>6. /\ Len(q) \in Nat /\ Len(r2) = Len(q) + 1
      /\ \A k \in 1..Len(q) : r2[k] = q[k]
      /\ r2[Len(q) + 1] = m
      /\ \A k \in 1..Len(r2) : k \in 1..Len(q) \/ k = Len(q) + 1
  BY <1>2, <1>4, <1>5, AppendFacts
<1>7. /\ VectorBelow(S, P.top) /\ VectorBelow(C.ck, S)
      /\ \A k \in 1..Len(q) : VectorBelow(q[k].cookie, S)
      /\ \A i \in SIDs : Reached(C.ck, q, Len(q), i, S[i])
  <2>1. SearchShape(P, C)
    BY DEF LinkOK
  <2>. QED  BY <2>1 DEF SearchShape, S, q
<1>8. \A i \in SIDs, z \in Nat : z <= S[i] => Reached(C.ck, q, Len(q), i, z)
  <2>1. SUFFICES ASSUME NEW i \in SIDs, NEW z \in Nat, z <= S[i] PROVE Reached(C.ck, q, Len(q), i, z)
    OBVIOUS
  <2>2. Reached(C.ck, q, Len(q), i, S[i])
    BY <1>7
  <2>3. CASE S[i] <= C.ck[i]
    <3>1. z <= C.ck[i]
      BY <1>2, <2>1, <2>3
    <3>. QED  BY <3>1 DEF Reached
  <2>4. ASSUME NEW k \in 1..Len(q), S[i] <= q[k].cookie[i] PROVE Reached(C.ck, q, Len(q), i, z)
    <3>1. z <= q[k].cookie[i]
      BY <1>2, <2>1, <2>4
    <3>. QED  BY <3>1 DEF Reached
  <2>. QED  BY <2>2, <2>3, <2>4 DEF Reached
<1>9. VectorBelow(S2, P.top) /\ VectorBelow(S, S2) /\ VectorBelow(m.cookie, S2)
  <2>1. ASSUME NEW s \in SIDs PROVE S2[s] <= P.top[s] /\ m.cookie[s] <= S2[s]
    <3>1. CASE s = t
      BY <1>1, <1>2, <1>3, <1>5, <3>1 DEF t
    <3>2. CASE s # t
      <4>1. S2[s] = S[s] /\ m.cookie[s] \in {0, S[s]} /\ S[s] <= P.top[s]
        BY <1>3, <1>5, <1>7, <3>2 DEF VectorBelow
      <4>2. S[s] \in Nat
        BY <1>2
      <4>. QED  BY <4>1, <4>2
    <3>. QED  BY <3>1, <3>2
  <2>. QED  BY <1>3, <2>1 DEF VectorBelow
<1>10. \A s \in SIDs : m.cookie[s] \in Nat
  BY <1>5 DEF Responses, CSNState
<1>11. ASSUME NEW v, NEW w, NEW y, VectorBelow(v, w), VectorBelow(w, y),
              \A s \in SIDs : v[s] \in Nat /\ w[s] \in Nat /\ y[s] \in Nat
       PROVE  VectorBelow(v, y)
  BY <1>11, SMTT(30) DEF VectorBelow
<1>12. ConsumerBehind(P, C2)
  <2>1. VectorBelow(m.cookie, P.top)
    BY <1>2, <1>3, <1>9, <1>10, <1>11
  <2>2. m.csn < P.ceil
    <3>1. e.csn < P.ceil /\ 0 < P.ceil
      BY <1>1, <1>2 DEF t
    <3>. QED  BY <1>5, <3>1 DEF NoCSN
  <2>3. m.kind = "entry" => m.csn # NoCSN /\ CSNBelow(m.csn, P.top)
    BY <1>1, <1>2, <1>5 DEF CSNBelow, t
  <2>4. ASSUME NEW k \in 1..Len(r2)
        PROVE  /\ VectorBelow(r2[k].cookie, P.top) /\ r2[k].csn < P.ceil
               /\ r2[k].kind = "entry" => r2[k].csn # NoCSN /\ CSNBelow(r2[k].csn, P.top)
    <3>1. CASE k \in 1..Len(q)
      BY <1>6, <3>1 DEF LinkOK, ConsumerBehind, q
    <3>2. CASE k = Len(q) + 1
      BY <1>6, <2>1, <2>2, <2>3, <3>2
    <3>. QED  BY <1>6, <3>1, <3>2
  <2>. QED  BY <2>4 DEF LinkOK, ConsumerBehind, SameStore, r2
<1>13. SearchShape(P, C2)
  <2>1. VectorBelow(C.ck, S2)
    BY <1>2, <1>3, <1>7, <1>9, <1>11
  <2>2. ASSUME NEW k \in 1..Len(r2) PROVE VectorBelow(r2[k].cookie, S2)
    <3>1. CASE k \in 1..Len(q)
      BY <1>2, <1>3, <1>6, <1>7, <1>9, <1>11, <3>1, ZenonT(40)
    <3>2. CASE k = Len(q) + 1
      BY <1>6, <1>9, <3>2
    <3>. QED  BY <1>6, <3>1, <3>2
  <2>3. ASSUME NEW i \in SIDs PROVE Reached(C.ck, r2, Len(r2), i, S2[i])
    <3>1. CASE i = t
      <4>1. Len(q) + 1 \in 1..Len(r2) /\ S2[i] <= r2[Len(q) + 1].cookie[i]
        BY <1>1, <1>3, <1>5, <1>6, <3>1
      <4>. QED  BY <4>1 DEF Reached
    <3>2. CASE i # t
      <4>1. Reached(C.ck, q, Len(q), i, S2[i])
        BY <1>3, <1>7, <3>2
      <4>2. \A k \in 1..Len(q) : k \in 1..Len(r2) /\ r2[k] = q[k]
        BY <1>6
      <4>. QED  BY <4>1, <4>2, Zenon DEF Reached
    <3>. QED  BY <3>1, <3>2
  <2>. QED  BY <1>9, <2>1, <2>2, <2>3 DEF SearchShape, SameStore, S2, r2
<1>14. ASSUME NEW u, NEW i \in SIDs, NEW z \in Nat, z # NoCSN => SIDOf(z) = i, Follows(P, C, u, i, z)
       PROVE  Follows(P, C2, u, i, z)
  <2>1. SUFFICES ASSUME z > S2[i]
                 PROVE  \/ \E r \in Range(C2.s.events) \cup P.unpub :
                              r.uuid = u /\ r.csn = z /\ "in" \in {r.before, r.after}
                        \/ C2.s.overflow /\ \A r \in Range(C2.s.events) : r.csn < z
    BY DEF Follows, S2
  <2>2. e.csn # z /\ z > S[i]
    <3>1. z # NoCSN /\ z > S[i]
      BY <1>2, <1>3, <2>1 DEF NoCSN
    <3>2. e.csn = z => t = i
      BY <1>1, <1>14, <3>1 DEF t
    <3>. QED  BY <1>1, <1>3, <2>1, <3>1, <3>2
  <2>3. \/ \E r \in Range(C.s.events) \cup P.unpub : r.uuid = u /\ r.csn = z /\ "in" \in {r.before, r.after}
        \/ C.s.overflow /\ \A r \in Range(C.s.events) : r.csn < z
    BY <1>14, <2>2 DEF Follows, S
  <2>. QED  BY <1>1, <2>2, <2>3
<1>15. ASSUME NEW u, NEW z \in Nat, Follows(P, C, u, t, z), z > S[t], z <= e.csn
       PROVE  e.csn = z /\ e.uuid = u /\ "in" \in {e.before, e.after}
  <2>1. \/ \E r \in Range(C.s.events) \cup P.unpub : r.uuid = u /\ r.csn = z /\ "in" \in {r.before, r.after}
        \/ C.s.overflow /\ \A r \in Range(C.s.events) : r.csn < z
    BY <1>15 DEF Follows, S
  <2>2. ~(e.csn < z)
    BY <1>1, <1>15
  <2>. QED  BY <1>1, <2>1, <2>2
<1>16. ASSUME NEW u \in UUIDs PROVE ContentOf(P, C2, u)
  <2>1. C2.held[u] = C.held[u] /\ C2.tombs[u] = C.tombs[u] /\ C2.ck = C.ck
    BY DEF SameStore
  <2>2. CASE P.held[u].visibility = "in"
    <3> DEFINE c == P.held[u].csn
    <3>1. c \in Nat /\ c # NoCSN /\ SIDOf(c) \in SIDs
      BY <2>2, ProviderFields DEF LinkOK, ServerBehind, CSNBelow
    <3>2. InLink(P, C, u, c)
      BY <2>2 DEF LinkOK, ContentOf
    <3> HIDE DEF c
    <3>3. Follows(P, C2, u, SIDOf(c), c)
      BY <1>14, <3>1, <3>2 DEF InLink
    <3>4. InRecord(e, u, c)
      BY <1>1, <3>2 DEF InLink
    <3>5. m.kind = "entry" /\ u \in m.uuids => m.csn <= c
      BY <1>5, <3>4 DEF InRecord
    <3>6. m.kind = "delete" /\ u \in m.uuids => m.csn < c /\ (m.csn = NoCSN => \A s \in SIDs : m.cookie[s] < c)
      <4>1. SUFFICES ASSUME m.kind = "delete", u \in m.uuids PROVE m.csn < c /\ \A s \in SIDs : m.cookie[s] < c
        OBVIOUS
      <4>2. e.after # "in" /\ e.uuid = u /\ m.csn = NoCSN
        BY <1>5, <4>1
      <4>3. e.csn < c /\ 0 < c
        BY <1>1, <3>1, <3>4, <4>2 DEF InRecord, NoCSN
      <4>. QED  BY <1>5, <4>1, <4>2, <4>3 DEF NoCSN
    <3>7. c <= m.cookie[SIDOf(c)] => \/ Reached(C.ck, q, Len(q), SIDOf(c), c)
                                     \/ m.kind = "entry" /\ u \in m.uuids /\ m.csn = c
      <4>1. SUFFICES ASSUME c <= m.cookie[SIDOf(c)], c > S[SIDOf(c)]
                     PROVE  m.kind = "entry" /\ u \in m.uuids /\ m.csn = c
        BY <1>2, <1>8, <3>1
      <4>2. SIDOf(c) = t
        <5>1. SUFFICES ASSUME SIDOf(c) # t PROVE FALSE
          OBVIOUS
        <5>2. m.cookie[SIDOf(c)] \in {0, S[SIDOf(c)]}
          BY <1>3, <1>5, <3>1, <5>1
        <5>. QED  BY <1>2, <3>1, <4>1, <5>2 DEF NoCSN
      <4>3. Follows(P, C, u, t, c) /\ c > S[t] /\ c <= e.csn
        BY <1>5, <3>2, <4>1, <4>2 DEF InLink
      <4>4. e.csn = c /\ e.uuid = u
        BY <1>15, <3>1, <4>3
      <4>. QED  BY <1>5, <3>4, <4>4 DEF InRecord
    <3>8. InStream(q, C.ck, C.s.seen, C.held[u].csn, u, c)
      BY <3>2 DEF InLink, q
    <3>9. InStream(Append(q, m), C.ck, C.s.seen, C.held[u].csn, u, c)
      BY <1>2, <1>5, <3>5, <3>6, <3>7, <3>8, InAppend
    <3>10. InLink(P, C2, u, c)
      BY <1>1, <1>4, <2>1, <3>2, <3>3, <3>9 DEF InLink, r2
    <3>. QED  BY <2>2, <3>10 DEF ContentOf, c
  <2>3. CASE P.held[u].visibility # "in"
    <3>1. PICK d \in 0..Newest(P, u) : OutServer(P, u, d) /\ OutLink(P, C, u, d)
      BY <2>3 DEF LinkOK, ContentOf
    <3>2. d \in Nat /\ (d # NoCSN => SIDOf(d) = t)
      BY <3>1, ProviderFields DEF OutServer, t
    <3>3. Follows(P, C, u, t, d) /\ WentOut(e, u, d)
      BY <1>1, <3>1 DEF OutLink, t
    <3>4. Follows(P, C2, u, t, d)
      BY <1>2, <1>14, <3>2, <3>3
    <3>5. m.kind = "entry" /\ u \in m.uuids
             => m.csn < d /\ ~Reached(C.ck, q, Len(q), t, d) /\ ~(d <= m.cookie[t])
      <4>1. SUFFICES ASSUME m.kind = "entry", u \in m.uuids
                     PROVE  m.csn < d /\ ~Reached(C.ck, q, Len(q), t, d) /\ ~(d <= m.cookie[t])
        OBVIOUS
      <4>2. e.after = "in" /\ e.uuid = u /\ m.csn = e.csn
        BY <1>5, <4>1
      <4>3. e.csn < d
        BY <3>3, <4>2 DEF WentOut, Leaves
      <4>4. S[t] < d
        BY <1>1, <1>2, <1>3, <3>2, <4>3
      <4>5. C.ck[t] < d /\ \A k \in 1..Len(q) : q[k].cookie[t] < d
        <5>1. C.ck[t] <= S[t] /\ \A k \in 1..Len(q) : q[k].cookie[t] <= S[t]
          BY <1>2, <1>7 DEF VectorBelow
        <5>. QED  BY <1>2, <3>2, <4>4, <5>1
      <4>6. ~Reached(C.ck, q, Len(q), t, d)
        BY <1>2, <3>2, <4>5 DEF Reached
      <4>. QED  BY <1>1, <1>5, <3>2, <4>2, <4>3, <4>6
    <3>6. d <= m.cookie[t] => \/ Reached(C.ck, q, Len(q), t, d)
                              \/ m.kind = "delete" /\ u \in m.uuids /\ m.csn \in {d, NoCSN}
      <4>1. SUFFICES ASSUME d <= m.cookie[t], d > S[t] PROVE m.kind = "delete" /\ u \in m.uuids /\ m.csn \in {d, NoCSN}
        BY <1>2, <1>8, <3>2
      <4>2. e.csn = d /\ e.uuid = u /\ "in" \in {e.before, e.after}
        BY <1>5, <1>15, <3>2, <3>3, <4>1
      <4>3. e.before = "in" /\ e.after # "in"
        BY <1>1, <3>3, <4>2 DEF WentOut, Leaves
      <4>. QED  BY <1>5, <4>2, <4>3
    <3>7. OutStream(q, C.ck, C.s.seen, C.held[u].csn, u, t, d)
      BY <3>1 DEF OutLink, q, t
    <3>8. OutStream(Append(q, m), C.ck, C.s.seen, C.held[u].csn, u, t, d)
      BY <1>2, <1>5, <3>5, <3>6, <3>7, OutAppend
    <3>9. OutLink(P, C2, u, d)
      BY <1>1, <1>4, <2>1, <3>1, <3>4, <3>8 DEF OutLink, r2, t
    <3>. QED  BY <2>3, <3>1, <3>9 DEF ContentOf
  <2>. QED  BY <2>2, <2>3
<1>. QED  BY <1>1, <1>12, <1>13, <1>16 DEF LinkOK

-----------------------------------------------------------------------------
(* The worker applies the first response.                                  *)

\* What response m does to the version x and the tombstone t of entry u at a
\* consumer that is no provider; ck is the cookie and seen what the worker has
\* been told of.
StoreStep(ck, seen, m, u, x, t, x2, t2) ==
    \/ /\ m.kind = "entry" /\ u \in m.uuids
       /\ IF m.csn <= t \/ (x # NoCSN /\ m.csn <= x) THEN x2 = x /\ t2 = t ELSE x2 = m.csn /\ t2 = NoCSN
    \/ /\ m.kind = "delete" /\ u \in m.uuids
       /\ \E g \in Nat : /\ \/ m.csn # NoCSN /\ g = m.csn
                            \/ /\ m.csn = NoCSN /\ (g = NoCSN \/ \E s \in SIDs : g = m.cookie[s])
                               /\ \A s \in SIDs : m.cookie[s] > ck[s] => m.cookie[s] <= g
                         /\ x2 = IF x <= g THEN NoCSN ELSE x
                         /\ t2 = IF t > g THEN t ELSE g
    \/ /\ m.kind = "refreshDone" /\ ~m.refreshDeletes /\ u \notin seen /\ t2 = t
       /\ x2 = IF x # NoCSN /\ x <= m.cookie[SIDOf(x)] THEN NoCSN ELSE x
    \/ /\ ~(m.kind \in {"entry", "delete"} /\ u \in m.uuids)
       /\ ~(m.kind = "refreshDone" /\ ~m.refreshDeletes /\ u \notin seen)
       /\ x2 = x /\ t2 = t

LEMMA StoreIn ==
    ASSUME NEW q \in Seq(Responses), q # <<>>, NEW ck \in CSNState, NEW seen, NEW u \in UUIDs,
           NEW c \in Nat, c # NoCSN, SIDOf(c) \in SIDs, NEW x \in Nat, NEW t \in Nat, NEW x2 \in Nat, NEW t2 \in Nat,
           InStream(q, ck, seen, x, u, c), t < c, StoreStep(ck, seen, q[1], u, x, t, x2, t2)
    PROVE  InStream(Tail(q), Merge(ck, q[1].cookie), Told(seen, q), x2, u, c) /\ t2 < c
<1> DEFINE m == q[1]
<1>1. Len(q) \in Nat /\ Len(q) >= 1 /\ m \in Responses
  BY DequeueFacts
<1>2. m.csn \in Nat /\ \A s \in SIDs : m.cookie[s] \in Nat
  BY <1>1 DEF Responses, CSNState
<1>3. InMessage(q, seen, 1, u, c) /\ x <= c
  BY <1>1 DEF InStream
<1>4. /\ m.kind = "entry" /\ u \in m.uuids => m.csn <= c
      /\ m.kind = "delete" /\ u \in m.uuids => m.csn < c /\ (m.csn = NoCSN => \A s \in SIDs : m.cookie[s] < c)
      /\ m.kind = "refreshDone" /\ ~m.refreshDeletes /\ c <= m.cookie[SIDOf(c)] => u \in seen
  <2>1. Mentioned(seen, q, 1 - 1, u) => u \in seen
    <3>1. 1..(1 - 1) = {}
      OBVIOUS
    <3>. QED  BY <3>1 DEF Mentioned
  <2>. QED  BY <1>3, <2>1 DEF InMessage, Sends
<1>5. Sends(q, 1, u) <=> m.kind = "entry" /\ u \in m.uuids
  BY DEF Sends
<1>6. StoreStep(ck, seen, m, u, x, t, x2, t2)
  OBVIOUS
<1> HIDE DEF m
<1>7. x2 <= c /\ (x = c => x2 = c) /\ (m.kind = "entry" /\ u \in m.uuids /\ m.csn = c => x2 = c) /\ t2 < c
  <2>1. CASE /\ m.kind = "entry" /\ u \in m.uuids
             /\ IF m.csn <= t \/ (x # NoCSN /\ m.csn <= x) THEN x2 = x /\ t2 = t ELSE x2 = m.csn /\ t2 = NoCSN
    BY <1>2, <1>3, <1>4, <2>1 DEF NoCSN
  <2>2. CASE /\ m.kind = "delete" /\ u \in m.uuids
             /\ \E g \in Nat : /\ \/ m.csn # NoCSN /\ g = m.csn
                                  \/ /\ m.csn = NoCSN /\ (g = NoCSN \/ \E s \in SIDs : g = m.cookie[s])
                                     /\ \A s \in SIDs : m.cookie[s] > ck[s] => m.cookie[s] <= g
                               /\ x2 = IF x <= g THEN NoCSN ELSE x
                               /\ t2 = IF t > g THEN t ELSE g
    <3>1. PICK g \in Nat : /\ \/ m.csn # NoCSN /\ g = m.csn
                              \/ m.csn = NoCSN /\ (g = NoCSN \/ \E s \in SIDs : g = m.cookie[s])
                           /\ x2 = IF x <= g THEN NoCSN ELSE x
                           /\ t2 = IF t > g THEN t ELSE g
      BY <2>2
    <3>2. g < c
      BY <1>4, <2>2, <3>1 DEF NoCSN
    <3>. QED  BY <1>3, <2>2, <3>1, <3>2 DEF NoCSN
  <2>3. CASE /\ m.kind = "refreshDone" /\ ~m.refreshDeletes /\ u \notin seen /\ t2 = t
             /\ x2 = IF x # NoCSN /\ x <= m.cookie[SIDOf(x)] THEN NoCSN ELSE x
    BY <1>3, <1>4, <2>3 DEF NoCSN
  <2>4. CASE ~(m.kind \in {"entry", "delete"} /\ u \in m.uuids) /\ x2 = x /\ t2 = t
    BY <1>3, <2>4
  <2>. QED  BY <1>6, <2>1, <2>2, <2>3, <2>4, Zenon DEF StoreStep
<1>8. Sends(q, 1, u) /\ q[1].csn = c => x2 = c
  BY <1>5, <1>7 DEF m
<1>. QED  BY <1>7, <1>8, InDequeue

LEMMA StoreOut ==
    ASSUME NEW q \in Seq(Responses), q # <<>>, NEW ck \in CSNState, NEW seen, NEW u \in UUIDs,
           NEW i \in SIDs, NEW d \in Nat, NEW x \in Nat, NEW t \in Nat, NEW x2 \in Nat, NEW t2 \in Nat,
           OutStream(q, ck, seen, x, u, i, d), StoreStep(ck, seen, q[1], u, x, t, x2, t2)
    PROVE  OutStream(Tail(q), Merge(ck, q[1].cookie), Told(seen, q), x2, u, i, d)
<1> DEFINE m == q[1]
<1>1. m.csn \in Nat /\ m.cookie[i] \in Nat /\ ck[i] \in Nat
  <2>1. m \in Responses
    BY DequeueFacts
  <2>. QED  BY <2>1 DEF Responses, CSNState
<1>5. Sends(q, 1, u) <=> m.kind = "entry" /\ u \in m.uuids
  BY DEF Sends
<1>6. StoreStep(ck, seen, m, u, x, t, x2, t2)
  OBVIOUS
<1> HIDE DEF m
<1>7. /\ x2 \in {NoCSN, x} \/ (m.kind = "entry" /\ u \in m.uuids /\ x2 = m.csn)
      /\ /\ m.kind = "delete" /\ u \in m.uuids /\ m.csn \in {d, NoCSN}
         /\ d <= m.cookie[i] /\ ck[i] < d /\ x < d
         => x2 = NoCSN
      /\ /\ m.kind = "refreshDone" /\ ~m.refreshDeletes /\ u \notin seen
         /\ CSNBelow(x, m.cookie)
         => x2 = NoCSN
  <2>1. CASE /\ m.kind = "entry" /\ u \in m.uuids
             /\ IF m.csn <= t \/ (x # NoCSN /\ m.csn <= x) THEN x2 = x /\ t2 = t ELSE x2 = m.csn /\ t2 = NoCSN
    BY <2>1
  <2>2. CASE /\ m.kind = "delete" /\ u \in m.uuids
             /\ \E g \in Nat : /\ \/ m.csn # NoCSN /\ g = m.csn
                                  \/ /\ m.csn = NoCSN /\ (g = NoCSN \/ \E s \in SIDs : g = m.cookie[s])
                                     /\ \A s \in SIDs : m.cookie[s] > ck[s] => m.cookie[s] <= g
                               /\ x2 = IF x <= g THEN NoCSN ELSE x
                               /\ t2 = IF t > g THEN t ELSE g
    <3>1. PICK g \in Nat : /\ \/ m.csn # NoCSN /\ g = m.csn
                              \/ m.csn = NoCSN /\ (m.cookie[i] > ck[i] => m.cookie[i] <= g)
                           /\ x2 = IF x <= g THEN NoCSN ELSE x
      BY <2>2
    <3>2. m.csn \in {d, NoCSN} /\ d <= m.cookie[i] /\ ck[i] < d /\ x < d => x <= g
      BY <1>1, <3>1
    <3>. QED  BY <2>2, <3>1, <3>2
  <2>3. CASE /\ m.kind = "refreshDone" /\ ~m.refreshDeletes /\ u \notin seen /\ t2 = t
             /\ x2 = IF x # NoCSN /\ x <= m.cookie[SIDOf(x)] THEN NoCSN ELSE x
    BY <2>3 DEF CSNBelow
  <2>4. CASE /\ ~(m.kind \in {"entry", "delete"} /\ u \in m.uuids)
             /\ ~(m.kind = "refreshDone" /\ ~m.refreshDeletes /\ u \notin seen)
             /\ x2 = x /\ t2 = t
    BY <2>4
  <2>. QED  BY <1>6, <2>1, <2>2, <2>3, <2>4, Zenon DEF StoreStep
<1>. QED  BY <1>5, <1>7, OutDequeue DEF m

LEMMA StoreBelow ==
    ASSUME NEW top, NEW ceil \in Nat, \A s \in SIDs : top[s] \in Nat /\ top[s] < ceil,
           NEW m \in Responses, VectorBelow(m.cookie, top), m.csn < ceil, m.kind = "entry" => CSNBelow(m.csn, top),
           NEW ck, NEW seen, NEW u, NEW x \in Nat, NEW t \in Nat, NEW x2 \in Nat, NEW t2 \in Nat,
           CSNBelow(x, top), t < ceil, StoreStep(ck, seen, m, u, x, t, x2, t2)
    PROVE  CSNBelow(x2, top) /\ t2 < ceil
<1>1. m.csn \in Nat /\ \A s \in SIDs : m.cookie[s] \in Nat
  BY DEF Responses, CSNState
<1>2. 0 < ceil /\ CSNBelow(NoCSN, top) /\ \A s \in SIDs : m.cookie[s] < ceil
  <2>1. PICK s \in SIDs : top[s] \in Nat /\ top[s] < ceil
    BY SIDsAssumption
  <2>. QED  BY <1>1, <2>1 DEF CSNBelow, VectorBelow
<1>3. CASE /\ m.kind = "entry" /\ u \in m.uuids
           /\ IF m.csn <= t \/ (x # NoCSN /\ m.csn <= x) THEN x2 = x /\ t2 = t ELSE x2 = m.csn /\ t2 = NoCSN
  BY <1>2, <1>3 DEF NoCSN
<1>4. CASE /\ m.kind = "delete" /\ u \in m.uuids
           /\ \E g \in Nat : /\ \/ m.csn # NoCSN /\ g = m.csn
                                \/ /\ m.csn = NoCSN /\ (g = NoCSN \/ \E s \in SIDs : g = m.cookie[s])
                                   /\ \A s \in SIDs : m.cookie[s] > ck[s] => m.cookie[s] <= g
                             /\ x2 = IF x <= g THEN NoCSN ELSE x
                             /\ t2 = IF t > g THEN t ELSE g
  <2>1. PICK g \in Nat : /\ \/ m.csn # NoCSN /\ g = m.csn
                            \/ m.csn = NoCSN /\ (g = NoCSN \/ \E s \in SIDs : g = m.cookie[s])
                         /\ x2 = IF x <= g THEN NoCSN ELSE x
                         /\ t2 = IF t > g THEN t ELSE g
    BY <1>4
  <2>2. g < ceil
    BY <1>1, <1>2, <2>1 DEF NoCSN
  <2>3. x2 \in {NoCSN, x} /\ t2 \in {t, g}
    BY <2>1
  <2>. QED  BY <1>2, <2>2, <2>3
<1>5. CASE /\ m.kind = "refreshDone" /\ ~m.refreshDeletes /\ u \notin seen /\ t2 = t
           /\ x2 = IF x # NoCSN /\ x <= m.cookie[SIDOf(x)] THEN NoCSN ELSE x
  <2>1. x2 \in {NoCSN, x} /\ t2 = t
    BY <1>5
  <2>. QED  BY <1>2, <2>1
<1>6. CASE x2 = x /\ t2 = t
  BY <1>6
<1>. QED  BY <1>3, <1>4, <1>5, <1>6, Zenon DEF StoreStep

\* A worker that goes on after its transaction.
LEMMA LinkWorker ==
    ASSUME NEW P \in ProviderStates, NEW C \in ConsumerStates, NEW C2 \in ConsumerStates, Clocked(P), LinkOK(P, C),
           C.s.stream # <<>>, C2.s.stream = Tail(C.s.stream), C2.s.seen = Told(C.s.seen, C.s.stream),
           C2.s.phase = C.s.phase, C2.s.events = C.s.events, C2.s.overflow = C.s.overflow, C2.s.mode = C.s.mode,
           C2.s.snapshot = C.s.snapshot, C2.ck = Merge(C.ck, C.s.stream[1].cookie),
           \A u \in UUIDs : StoreStep(C.ck, C.s.seen, C.s.stream[1], u, C.held[u].csn, C.tombs[u],
                                      C2.held[u].csn, C2.tombs[u])
    PROVE  LinkOK(P, C2)
<1> DEFINE q == C.s.stream
           r == C2.s.stream
           m == q[1]
           ck == C.ck
           ck2 == C2.ck
           S == C.s.snapshot
<1>1. /\ q \in Seq(Responses) /\ ck \in CSNState /\ ck2 \in CSNState /\ S \in CSNState
      /\ \A s \in SIDs : ck[s] \in Nat /\ ck2[s] \in Nat /\ S[s] \in Nat
  BY ConsumerFields
<1>2. /\ \A s \in SIDs : P.top[s] \in Nat /\ P.top[s] < P.ceil
      /\ P.ceil \in Nat /\ P.sid \in SIDs
  BY ProviderFields DEF Clocked
<1>3. /\ r = Tail(q) /\ ck2 = Merge(ck, m.cookie) /\ q # <<>> /\ C2.s.seen = Told(C.s.seen, q)
  OBVIOUS
<1> HIDE DEF q, r, m, ck, ck2, S
<1>4. /\ Len(q) \in Nat /\ Len(q) >= 1 /\ Len(r) = Len(q) - 1
      /\ \A k \in 1..Len(r) : k + 1 \in 1..Len(q) /\ r[k] = q[k + 1]
      /\ \A j \in 0..Len(r), s \in SIDs, z \in Nat : Reached(ck2, r, j, s, z) <=> Reached(ck, q, j + 1, s, z)
      /\ m \in Responses /\ 1 \in 1..Len(q)
  BY <1>1, <1>3, DequeueFacts DEF m
<1>5. m.csn \in Nat /\ \A s \in SIDs : m.cookie[s] \in Nat
  BY <1>4 DEF Responses, CSNState
<1>6. /\ VectorBelow(ck, P.top) /\ VectorBelow(m.cookie, P.top) /\ m.csn < P.ceil
      /\ m.kind = "entry" => CSNBelow(m.csn, P.top)
      /\ \A k \in 1..Len(q) :
            /\ VectorBelow(q[k].cookie, P.top) /\ q[k].csn < P.ceil
            /\ q[k].kind = "entry" => q[k].csn # NoCSN /\ CSNBelow(q[k].csn, P.top)
      /\ \A u \in UUIDs : CSNBelow(C.held[u].csn, P.top) /\ C.tombs[u] < P.ceil
  <2>1. ConsumerBehind(P, C)
    BY DEF LinkOK
  <2>2. \A k \in 1..Len(q) :
            /\ VectorBelow(q[k].cookie, P.top) /\ q[k].csn < P.ceil
            /\ q[k].kind = "entry" => q[k].csn # NoCSN /\ CSNBelow(q[k].csn, P.top)
    BY <2>1 DEF ConsumerBehind, q
  <2>3. /\ VectorBelow(ck, P.top) /\ \A u \in UUIDs : CSNBelow(C.held[u].csn, P.top) /\ C.tombs[u] < P.ceil
    BY <2>1 DEF ConsumerBehind, ck
  <2>. QED  BY <1>4, <2>2, <2>3 DEF m
<1>7. \A s \in SIDs : ck2[s] \in {ck[s], m.cookie[s]}
  BY <1>3 DEF Merge
<1>8. \A v : VectorBelow(ck, v) /\ VectorBelow(m.cookie, v) => VectorBelow(ck2, v)
  BY <1>7 DEF VectorBelow
<1>9. ASSUME NEW u \in UUIDs
      PROVE  /\ StoreStep(ck, C.s.seen, m, u, C.held[u].csn, C.tombs[u], C2.held[u].csn, C2.tombs[u])
             /\ C.held[u].csn \in Nat /\ C.tombs[u] \in Nat /\ C2.held[u].csn \in Nat /\ C2.tombs[u] \in Nat
  BY ConsumerFields DEF ck, m, q
<1>10. ConsumerBehind(P, C2)
  <2>1. VectorBelow(ck2, P.top)
    BY <1>6, <1>8
  <2>2. ASSUME NEW k \in 1..Len(r)
        PROVE  /\ VectorBelow(r[k].cookie, P.top) /\ r[k].csn < P.ceil
               /\ r[k].kind = "entry" => r[k].csn # NoCSN /\ CSNBelow(r[k].csn, P.top)
    <3>1. k + 1 \in 1..Len(q) /\ r[k] = q[k + 1]
      BY <1>4
    <3>. QED  BY <1>6, <3>1
  <2>3. ASSUME NEW u \in UUIDs PROVE CSNBelow(C2.held[u].csn, P.top) /\ C2.tombs[u] < P.ceil
    <3> DEFINE x == C.held[u].csn
               t == C.tombs[u]
               x2 == C2.held[u].csn
               t2 == C2.tombs[u]
               top == P.top
               ceil == P.ceil
    <3>1. /\ StoreStep(ck, C.s.seen, m, u, x, t, x2, t2)
          /\ x \in Nat /\ t \in Nat /\ x2 \in Nat /\ t2 \in Nat
      BY <1>9
    <3>2. CSNBelow(x, top) /\ t < ceil
      BY <1>6
    <3>3. /\ VectorBelow(m.cookie, top) /\ m.csn < ceil /\ (m.kind = "entry" => CSNBelow(m.csn, top))
          /\ ceil \in Nat /\ \A s \in SIDs : top[s] \in Nat /\ top[s] < ceil
      BY <1>2, <1>6
    <3> HIDE DEF x, t, x2, t2, top, ceil
    <3>4. CSNBelow(x2, top) /\ t2 < ceil
      BY <1>4, <3>1, <3>2, <3>3, StoreBelow
    <3>. QED  BY <3>4 DEF x2, t2, top, ceil
  <2>. QED  BY <2>1, <2>2, <2>3 DEF ConsumerBehind, r, ck2
<1>11. ChannelOrdered(P, C2)
  BY DEF LinkOK, ChannelOrdered
<1>12. SearchShape(P, C)
  BY DEF LinkOK
<1>13. C2.s.phase \notin {"idle", "subscribed", "reading"}
  BY <1>3, <1>12 DEF SearchShape, q
<1>14. SearchShape(P, C2)
  <2>1. ASSUME C2.s.mode = "refreshOnly", NEW k \in 1..Len(r), r[k].kind = "refreshDone" PROVE k = Len(r)
    <3>1. k + 1 \in 1..Len(q) /\ q[k + 1].kind = "refreshDone"
      BY <1>4, <2>1
    <3>2. k + 1 = Len(q)
      BY <1>12, <2>1, <3>1 DEF SearchShape, q
    <3>. QED  BY <1>4, <3>2
  <2>2. ASSUME C2.s.phase = "persist"
        PROVE  /\ VectorBelow(S, P.top) /\ VectorBelow(ck2, S)
               /\ \A k \in 1..Len(r) : VectorBelow(r[k].cookie, S)
               /\ \A i \in SIDs : Reached(ck2, r, Len(r), i, S[i])
    <3>1. /\ VectorBelow(S, P.top) /\ VectorBelow(ck, S)
          /\ \A k \in 1..Len(q) : VectorBelow(q[k].cookie, S)
          /\ \A i \in SIDs : Reached(ck, q, Len(q), i, S[i])
      BY <1>12, <2>2 DEF SearchShape, S, ck, q
    <3>2. VectorBelow(ck2, S)
      BY <1>4, <1>8, <3>1 DEF m
    <3>3. \A k \in 1..Len(r) : VectorBelow(r[k].cookie, S)
      BY <1>4, <3>1
    <3>4. ASSUME NEW i \in SIDs PROVE Reached(ck2, r, Len(r), i, S[i])
      <4>1. Len(r) \in 0..Len(r) /\ Len(r) + 1 = Len(q) /\ S[i] \in Nat
        BY <1>1, <1>4
      <4>2. Reached(ck2, r, Len(r), i, S[i]) <=> Reached(ck, q, Len(r) + 1, i, S[i])
        BY <1>4, <4>1
      <4>. QED  BY <3>1, <4>1, <4>2
    <3>. QED  BY <3>1, <3>2, <3>3, <3>4
  <2>. QED  BY <1>13, <2>1, <2>2 DEF SearchShape, S, ck2, r
<1>15. ASSUME NEW u \in UUIDs PROVE ContentOf(P, C2, u)
  <2>1. \A i, z : Follows(P, C, u, i, z) => Follows(P, C2, u, i, z)
    BY SameFollows
  <2>2. CASE P.held[u].visibility = "in"
    <3> DEFINE c == P.held[u].csn
    <3>1. c \in Nat /\ c # NoCSN /\ SIDOf(c) \in SIDs
      BY <2>2, ProviderFields DEF LinkOK, ServerBehind, CSNBelow
    <3>2. InLink(P, C, u, c)
      BY <2>2 DEF LinkOK, ContentOf
    <3> HIDE DEF c
    <3>3. InStream(q, ck, C.s.seen, C.held[u].csn, u, c) /\ C.tombs[u] < c
      BY <3>2 DEF InLink, q, ck
    <3>4. InStream(Tail(q), Merge(ck, q[1].cookie), Told(C.s.seen, q), C2.held[u].csn, u, c) /\ C2.tombs[u] < c
      <4> DEFINE x == C.held[u].csn
                 t == C.tombs[u]
                 x2 == C2.held[u].csn
                 t2 == C2.tombs[u]
                 seen == C.s.seen
      <4>1. /\ StoreStep(ck, seen, q[1], u, x, t, x2, t2)
            /\ x \in Nat /\ t \in Nat /\ x2 \in Nat /\ t2 \in Nat
        BY <1>9 DEF m
      <4>2. InStream(q, ck, seen, x, u, c) /\ t < c
        BY <3>3
      <4> HIDE DEF x, t, x2, t2, seen
      <4>3. InStream(Tail(q), Merge(ck, q[1].cookie), Told(seen, q), x2, u, c) /\ t2 < c
        BY <1>1, <1>3, <3>1, <4>1, <4>2, StoreIn
      <4>. QED  BY <4>3 DEF x2, t2, seen
    <3>5. InStream(C2.s.stream, C2.ck, C2.s.seen, C2.held[u].csn, u, c)
      BY <1>3, <3>4 DEF m, r, ck2
    <3>6. InLink(P, C2, u, c)
      BY <1>13, <2>1, <3>2, <3>4, <3>5 DEF InLink
    <3>. QED  BY <2>2, <3>6 DEF ContentOf, c
  <2>3. CASE P.held[u].visibility # "in"
    <3>1. PICK d \in 0..Newest(P, u) : OutServer(P, u, d) /\ OutLink(P, C, u, d)
      BY <2>3 DEF LinkOK, ContentOf
    <3>2. d \in Nat
      BY <3>1, ProviderFields
    <3>3. OutStream(q, ck, C.s.seen, C.held[u].csn, u, P.sid, d)
      BY <3>1 DEF OutLink, q, ck
    <3>4. OutStream(Tail(q), Merge(ck, q[1].cookie), Told(C.s.seen, q), C2.held[u].csn, u, P.sid, d)
      BY <1>1, <1>2, <1>3, <1>9, <3>2, <3>3, StoreOut DEF m
    <3>5. OutStream(C2.s.stream, C2.ck, C2.s.seen, C2.held[u].csn, u, P.sid, d)
      BY <1>3, <3>4 DEF m, r, ck2
    <3>6. OutLink(P, C2, u, d)
      BY <1>13, <2>1, <3>1, <3>5 DEF OutLink
    <3>. QED  BY <2>3, <3>1, <3>6 DEF ContentOf
  <2>. QED  BY <2>2, <2>3
<1>16. ServerBehind(P)
  BY DEF LinkOK
<1>. QED  BY <1>10, <1>11, <1>14, <1>15, <1>16 DEF LinkOK

-----------------------------------------------------------------------------
(* The provider commits a change.                                          *)

\* A CSN that the provider has not reached is newer than all that is known of it.
LEMMA NewCSN ==
    ASSUME NEW P \in ProviderStates, NEW C \in ConsumerStates, Clocked(P), LinkOK(P, C), NEW z \in Nat, P.ceil <= z
    PROVE  /\ z # NoCSN
           /\ \A s \in SIDs : C.ck[s] < z /\ P.top[s] < z
           /\ \A k \in 1..Len(C.s.stream) : C.s.stream[k].csn < z /\ \A s \in SIDs : C.s.stream[k].cookie[s] < z
           /\ \A u \in UUIDs : C.held[u].csn < z /\ C.tombs[u] < z /\ Newest(P, u) < z /\ P.tombs[u] < z
           /\ \A r \in Range(C.s.events) \cup Range(P.log.changes) : r.csn < z
           /\ C.s.phase = "reading" => \A s \in SIDs : C.s.snapshot[s] < z
<1>1. /\ \A s \in SIDs : P.top[s] \in Nat /\ P.top[s] < P.ceil
      /\ P.ceil \in Nat /\ P.sid \in SIDs /\ P.log.changes \in Seq(Changes)
      /\ \A u \in UUIDs : Newest(P, u) \in Nat /\ P.tombs[u] \in Nat
  BY ProviderFields DEF Clocked
<1>2. ASSUME NEW v, VectorBelow(v, P.top), \A s \in SIDs : v[s] \in Nat PROVE \A s \in SIDs : v[s] < z
  BY <1>1, <1>2 DEF VectorBelow
<1>3. \A c \in Nat : CSNBelow(c, P.top) => c < z
  <2>1. \A c \in Nat : CSNBelow(c, P.top) => c < P.ceil
    BY <1>1, BelowCeiling
  <2>. QED  BY <1>1, <2>1
<1>4. z # NoCSN /\ \A s \in SIDs : P.top[s] < z
  BY <1>1 DEF NoCSN
<1>5. ConsumerBehind(P, C) /\ ServerBehind(P) /\ ChannelOrdered(P, C) /\ SearchShape(P, C)
  BY DEF LinkOK
<1>6. \A s \in SIDs : C.ck[s] < z
  <2>1. VectorBelow(C.ck, P.top) /\ \A s \in SIDs : C.ck[s] \in Nat
    BY <1>5, ConsumerFields DEF ConsumerBehind
  <2>. QED  BY <1>2, <2>1
<1>7. ASSUME NEW k \in 1..Len(C.s.stream)
      PROVE  C.s.stream[k].csn < z /\ \A s \in SIDs : C.s.stream[k].cookie[s] < z
  <2>1. /\ VectorBelow(C.s.stream[k].cookie, P.top) /\ C.s.stream[k].csn < P.ceil
    BY <1>5 DEF ConsumerBehind
  <2>2. C.s.stream[k].csn \in Nat /\ \A s \in SIDs : C.s.stream[k].cookie[s] \in Nat
    BY ConsumerFields
  <2>3. \A s \in SIDs : C.s.stream[k].cookie[s] < z
    BY <1>2, <2>1, <2>2
  <2>. QED  BY <1>1, <2>1, <2>2, <2>3
<1>8. ASSUME NEW u \in UUIDs PROVE C.held[u].csn < z /\ C.tombs[u] < z /\ Newest(P, u) < z /\ P.tombs[u] < z
  <2>1. C.held[u].csn \in Nat /\ C.tombs[u] \in Nat
    BY ConsumerFields
  <2>2. CSNBelow(C.held[u].csn, P.top) /\ C.tombs[u] < P.ceil
    BY <1>5 DEF ConsumerBehind
  <2>3. CSNBelow(Newest(P, u), P.top) /\ CSNBelow(P.tombs[u], P.top)
    BY <1>5, NewestBelow DEF Clocked
  <2>4. C.held[u].csn < z /\ Newest(P, u) < z /\ P.tombs[u] < z
    BY <1>1, <1>3, <2>1, <2>2, <2>3
  <2>5. C.tombs[u] < z
    BY <1>1, <2>1, <2>2
  <2>. QED  BY <2>4, <2>5
<1>9. ASSUME NEW r \in Range(C.s.events) \cup Range(P.log.changes) PROVE r.csn < z
  <2>1. CASE r \in Range(C.s.events)
    <3>1. C.s.events \in Seq(Changes)
      BY ConsumerFields
    <3>2. PICK k \in 1..Len(C.s.events) : r = C.s.events[k]
      BY <2>1, <3>1, RangeIndex
    <3>3. r.csn \in Nat
      BY <3>2, ConsumerFields
    <3>4. r.csn <= P.top[P.sid]
      BY <1>5, <3>2 DEF ChannelOrdered
    <3>. QED  BY <1>1, <1>4, <3>3, <3>4
  <2>2. CASE r \in Range(P.log.changes)
    <3>1. r.csn < P.ceil
      BY <1>5, <2>2 DEF ServerBehind
    <3>2. r.csn \in Nat
      <4>1. r \in Changes
        BY <1>1, <2>2, RangeIndex
      <4>. QED  BY <4>1 DEF Changes
    <3>. QED  BY <1>1, <3>1, <3>2
  <2>. QED  BY <2>1, <2>2
<1>10. ASSUME C.s.phase = "reading" PROVE \A s \in SIDs : C.s.snapshot[s] < z
  <2>1. VectorBelow(C.s.snapshot, P.top) /\ \A s \in SIDs : C.s.snapshot[s] \in Nat
    BY <1>5, <1>10, ConsumerFields DEF SearchShape
  <2>. QED  BY <1>2, <2>1
<1>. QED  BY <1>4, <1>6, <1>7, <1>8, <1>9, <1>10

\* Nothing on its way to the consumer has reached a new CSN.
LEMMA NewStream ==
    ASSUME NEW q \in Seq(Responses), NEW ck, NEW seen, NEW x \in Nat, NEW u, NEW z \in Nat, NEW i \in SIDs, SIDOf(z) = i,
           x < z, ck[i] < z, ck[i] \in Nat,
           \A k \in 1..Len(q) : q[k].csn < z /\ \A s \in SIDs : q[k].cookie[s] < z
    PROVE  InStream(q, ck, seen, x, u, z) /\ OutStream(q, ck, seen, x, u, i, z)
<1>1. Len(q) \in Nat /\ \A k \in 1..Len(q) : q[k] \in Responses
  OBVIOUS
<1>2. \A k \in 1..Len(q) : q[k].csn \in Nat /\ q[k].cookie[i] \in Nat /\ q[k].cookie[i] < z
  BY <1>1 DEF Responses, CSNState
<1>3. ASSUME NEW j \in 0..Len(q) PROVE ~Reached(ck, q, j, i, z)
  <2>1. \A k \in 1..j : k \in 1..Len(q)
    BY <1>1
  <2>2. \A k \in 1..j : ~(z <= q[k].cookie[i])
    BY <1>2, <2>1
  <2>3. ~(z <= ck[i])
    OBVIOUS
  <2>. QED  BY <2>2, <2>3 DEF Reached
<1>4. ASSUME NEW k \in 1..Len(q) PROVE InMessage(q, seen, k, u, z)
  <2>1. q[k].csn <= z /\ q[k].csn < z /\ ~(z <= q[k].cookie[SIDOf(z)])
    BY <1>2
  <2>. QED  BY <2>1 DEF InMessage
<1>5. ASSUME NEW k \in 1..Len(q) PROVE OutMessage(q, ck, seen, x, k, u, i, z)
  <2>1. q[k].csn < z /\ ~(z <= q[k].cookie[i])
    BY <1>2
  <2>2. ~Reached(ck, q, k, i, z)
    BY <1>1, <1>3
  <2>. QED  BY <2>1, <2>2 DEF OutMessage
<1>6. InStream(q, ck, seen, x, u, z)
  BY <1>3, <1>4 DEF InStream
<1>7. OutStream(q, ck, seen, x, u, i, z)
  BY <1>5 DEF OutStream
<1>. QED  BY <1>6, <1>7

\* recordSyncChangeCSN at the provider of a link, whose writer had nothing left to publish.
LEMMA LinkCommit ==
    ASSUME NEW P \in ProviderStates, NEW P2 \in ProviderStates, NEW C \in ConsumerStates, Clocked(P), LinkOK(P, C),
           NEW u0 \in UUIDs, NEW after \in {"none", "in", "out"}, NEW z \in Nat, P.ceil <= z, z < P2.ceil,
           SIDOf(z) = P.sid, P2.sid = P.sid, P2.log = P.log, P2.top = Advance(P.top, z),
           P.unpub = {}, P2.unpub = {Change(u0, P.held[u0].visibility, after, z)},
           after = "none" => P2.held[u0] = Absent /\ P2.tombs[u0] = z,
           after # "none" => P2.held[u0] = [visibility |-> after, csn |-> z],
           \A v \in UUIDs : v # u0 => P2.held[v] = P.held[v] /\ P2.tombs[v] = P.tombs[v],
           C.s.phase = "reading" => C.s.view \in [UUIDs -> Entries]
    PROVE  LinkOK(P2, C)
<1> DEFINE rec == Change(u0, P.held[u0].visibility, after, z)
<1>1. /\ \A s \in SIDs : P.top[s] \in Nat /\ P2.top[s] \in Nat /\ P.top[s] <= P2.top[s] /\ P.top[s] < P.ceil
      /\ P.ceil \in Nat /\ P2.ceil \in Nat /\ P.ceil <= P2.ceil /\ P.sid \in SIDs
      /\ z <= P2.top[P.sid]
  <2>1. P.top \in CSNState /\ P.ceil \in Nat /\ P2.ceil \in Nat /\ P.sid \in SIDs
    BY ProviderFields
  <2>2. \A s \in SIDs : P.top[s] \in Nat /\ P2.top[s] \in Nat /\ P.top[s] < P.ceil
    BY ProviderFields DEF Clocked
  <2>3. \A s \in SIDs : Advance(P.top, z)[s] >= P.top[s]
    BY <2>1, AdvanceFacts
  <2>4. z <= Advance(P.top, z)[SIDOf(z)]
    BY <2>1, AdvanceFacts
  <2>. QED  BY <2>1, <2>2, <2>3, <2>4
<1>2. /\ rec.uuid = u0 /\ rec.csn = z /\ rec.before = P.held[u0].visibility /\ rec.after = after
      /\ P2.unpub = {rec}
  BY DEF Change
<1>3. /\ z # NoCSN
      /\ \A s \in SIDs : C.ck[s] < z /\ P.top[s] < z
      /\ \A k \in 1..Len(C.s.stream) : C.s.stream[k].csn < z /\ \A s \in SIDs : C.s.stream[k].cookie[s] < z
      /\ \A u \in UUIDs : C.held[u].csn < z /\ C.tombs[u] < z /\ Newest(P, u) < z /\ P.tombs[u] < z
      /\ \A r \in Range(C.s.events) \cup Range(P.log.changes) : r.csn < z
      /\ C.s.phase = "reading" => \A s \in SIDs : C.s.snapshot[s] < z
  BY NewCSN
<1> HIDE DEF rec
<1>4. ServerBehind(P) /\ ConsumerBehind(P, C) /\ ChannelOrdered(P, C) /\ SearchShape(P, C)
  BY DEF LinkOK
<1>5. VectorBelow(P.top, P2.top)
  BY <1>1 DEF VectorBelow
<1>6. \A r \in Range(P.log.changes) : r.csn \in Nat
  <2>1. P.log.changes \in Seq(Changes)
    BY ProviderFields
  <2>2. \A r \in Range(P.log.changes) : r \in Changes
    BY <2>1, RangeIndex
  <2>. QED  BY <2>2 DEF Changes
<1>7. /\ \A v : VectorBelow(v, P.top) /\ (\A s \in SIDs : v[s] \in Nat) => VectorBelow(v, P2.top)
      /\ \A c \in Nat : CSNBelow(c, P.top) => CSNBelow(c, P2.top)
  BY <1>1, <1>5, BelowAbove
<1>8. ServerBehind(P2)
  <2>1. ASSUME NEW u \in UUIDs PROVE CSNBelow(P2.held[u].csn, P2.top)
    <3>1. CASE u # u0
      <4>1. P.held[u].csn \in Nat /\ CSNBelow(P.held[u].csn, P.top)
        BY <1>4, ProviderFields DEF ServerBehind
      <4>. QED  BY <1>7, <3>1, <4>1
    <3>2. CASE u = u0 /\ after = "none"
      BY <3>2 DEF CSNBelow, Absent
    <3>3. CASE u = u0 /\ after # "none"
      BY <1>1, <3>3 DEF CSNBelow
    <3>. QED  BY <3>1, <3>2, <3>3
  <2>2. ASSUME NEW r \in Range(P2.log.changes) PROVE r.csn < P2.ceil /\ SIDOf(r.csn) = P2.sid
    <3>1. r.csn < P.ceil /\ SIDOf(r.csn) = P.sid /\ r.csn \in Nat
      BY <1>4, <1>6 DEF ServerBehind
    <3>. QED  BY <1>1, <3>1
  <2>3. ASSUME NEW r \in P2.unpub PROVE r.csn # NoCSN /\ SIDOf(r.csn) = P2.sid /\ r.csn <= P2.top[P2.sid]
    BY <1>1, <1>2, <1>3
  <2>. QED  BY <2>1, <2>2, <2>3 DEF ServerBehind
<1>9. ConsumerBehind(P2, C)
  <2>1. VectorBelow(C.ck, P2.top)
    BY <1>4, <1>7, ConsumerFields DEF ConsumerBehind
  <2>2. ASSUME NEW k \in 1..Len(C.s.stream)
        PROVE  /\ VectorBelow(C.s.stream[k].cookie, P2.top) /\ C.s.stream[k].csn < P2.ceil
               /\ C.s.stream[k].kind = "entry" => C.s.stream[k].csn # NoCSN /\ CSNBelow(C.s.stream[k].csn, P2.top)
    <3>1. C.s.stream[k].csn \in Nat /\ \A s \in SIDs : C.s.stream[k].cookie[s] \in Nat
      BY ConsumerFields
    <3>2. /\ VectorBelow(C.s.stream[k].cookie, P.top) /\ C.s.stream[k].csn < P.ceil
          /\ C.s.stream[k].kind = "entry" => C.s.stream[k].csn # NoCSN /\ CSNBelow(C.s.stream[k].csn, P.top)
      BY <1>4 DEF ConsumerBehind
    <3>3. C.s.stream[k].csn < P2.ceil
      BY <1>1, <3>1, <3>2
    <3>. QED  BY <1>7, <3>1, <3>2, <3>3
  <2>3. ASSUME NEW u \in UUIDs PROVE CSNBelow(C.held[u].csn, P2.top) /\ C.tombs[u] < P2.ceil
    <3>1. C.held[u].csn \in Nat /\ C.tombs[u] \in Nat
      BY ConsumerFields
    <3>2. CSNBelow(C.held[u].csn, P.top) /\ C.tombs[u] < P.ceil
      BY <1>4 DEF ConsumerBehind
    <3>. QED  BY <1>1, <1>7, <3>1, <3>2
  <2>. QED  BY <2>1, <2>2, <2>3 DEF ConsumerBehind
<1>10. ChannelOrdered(P2, C)
  <2>1. ASSUME NEW i \in 1..Len(C.s.events)
        PROVE  /\ C.s.events[i].csn # NoCSN /\ SIDOf(C.s.events[i].csn) = P2.sid
               /\ C.s.events[i].csn <= P2.top[P2.sid]
               /\ \A r \in P2.unpub : C.s.events[i].csn < r.csn
    <3>1. C.s.events[i].csn \in Nat /\ C.s.events \in Seq(Changes)
      BY ConsumerFields
    <3>2. /\ C.s.events[i].csn # NoCSN /\ SIDOf(C.s.events[i].csn) = P.sid
          /\ C.s.events[i].csn <= P.top[P.sid]
      BY <1>4 DEF ChannelOrdered
    <3>3. C.s.events[i] \in Range(C.s.events)
      BY <3>1, RangeIndex
    <3>4. C.s.events[i].csn <= P2.top[P2.sid]
      BY <1>1, <3>1, <3>2
    <3>. QED  BY <1>2, <1>3, <3>2, <3>3, <3>4
  <2>. QED  BY <1>4, <2>1 DEF ChannelOrdered
<1>11. SearchShape(P2, C)
  <2>1. VectorBelow(C.s.snapshot, P.top) => VectorBelow(C.s.snapshot, P2.top)
    BY <1>7, ConsumerFields
  <2>. QED  BY <1>4, <2>1 DEF SearchShape
<1>12. \A u, i, y : Follows(P, C, u, i, y) => Follows(P2, C, u, i, y)
  <2>1. P.unpub \subseteq P2.unpub
    OBVIOUS
  <2>. QED  BY <2>1 DEF Follows
<1>13. ASSUME NEW u \in UUIDs PROVE ContentOf(P2, C, u)
  <2>0. ContentOf(P, C, u)
    BY DEF LinkOK
  <2>1. CASE u # u0
    <3>1. P2.held[u] = P.held[u] /\ Newest(P2, u) = Newest(P, u)
      BY <2>1 DEF Newest
    <3>2. \A c : InLink(P, C, u, c) => InLink(P2, C, u, c)
      BY <1>2, <1>12, <2>1, <3>1 DEF InLink, InRecord
    <3>3. \A d : OutServer(P, u, d) => OutServer(P2, u, d)
      BY <1>2, <2>1, <3>1 DEF OutServer, WentOut
    <3>4. \A d : OutLink(P, C, u, d) => OutLink(P2, C, u, d)
      BY <1>12 DEF OutLink
    <3>. QED  BY <2>0, <3>1, <3>2, <3>3, <3>4 DEF ContentOf
  <2>2. /\ InStream(C.s.stream, C.ck, C.s.seen, C.held[u].csn, u, z)
        /\ OutStream(C.s.stream, C.ck, C.s.seen, C.held[u].csn, u, P.sid, z)
    <3> DEFINE q == C.s.stream
               ck == C.ck
               seen == C.s.seen
               x == C.held[u].csn
               i == P.sid
    <3>1. /\ q \in Seq(Responses) /\ x \in Nat /\ i \in SIDs /\ SIDOf(z) = i /\ x < z
          /\ ck[i] < z /\ ck[i] \in Nat
      BY <1>1, <1>3, ConsumerFields
    <3>2. \A k \in 1..Len(q) : q[k].csn < z /\ \A s \in SIDs : q[k].cookie[s] < z
      BY <1>3
    <3> HIDE DEF q, ck, seen, x, i
    <3>3. InStream(q, ck, seen, x, u, z) /\ OutStream(q, ck, seen, x, u, i, z)
      BY <3>1, <3>2, NewStream
    <3>. QED  BY <3>3 DEF q, ck, seen, x, i
  <2>3. CASE u = u0 /\ after = "in"
    <3>1. P2.held[u].visibility = "in" /\ P2.held[u].csn = z
      BY <2>3
    <3>2. ASSUME NEW r \in Range(C.s.events) \cup P2.unpub PROVE InRecord(r, u, z)
      <4>1. CASE r \in Range(C.s.events)
        <5>1. r.csn < z
          BY <1>3, <4>1
        <5>2. r.csn \in Nat
          <6>1. C.s.events \in Seq(Changes)
            BY ConsumerFields
          <6>2. PICK k \in 1..Len(C.s.events) : r = C.s.events[k]
            BY <4>1, <6>1, RangeIndex
          <6>. QED  BY <6>2, ConsumerFields
        <5>. QED  BY <5>1, <5>2 DEF InRecord
      <4>2. CASE r = rec
        BY <1>2, <2>3, <4>2 DEF InRecord
      <4>. QED  BY <1>2, <4>1, <4>2
    <3>3. Follows(P2, C, u, SIDOf(z), z)
      BY <1>2, <2>3 DEF Follows
    <3>4. C.s.phase = "reading" => \A i \in SIDs : C.s.snapshot[i] < z
      BY <1>3
    <3>5. InLink(P2, C, u, z)
      BY <1>3, <2>2, <3>2, <3>3, <3>4 DEF InLink
    <3>. QED  BY <3>1, <3>5 DEF ContentOf
  <2>4. CASE u = u0 /\ after # "in"
    <3>1. P2.held[u].visibility # "in" /\ Newest(P2, u) = z
      BY <1>3, <2>4 DEF Newest, Absent
    <3>2. CASE P.held[u].visibility = "in"
      <4>1. Leaves(rec, u, z)
        BY <1>2, <2>4, <3>2 DEF Leaves
      <4>2. OutServer(P2, u, z)
        BY <1>2, <1>3, <3>1, <4>1 DEF OutServer, WentOut
      <4>3. C.s.phase = "reading" => C.s.snapshot[P.sid] < z /\ C.s.view[u].csn < z
        <5>1. SUFFICES ASSUME C.s.phase = "reading" PROVE C.s.view[u].csn < z
          BY <1>1, <1>3
        <5>2. CSNBelow(C.s.view[u].csn, C.s.snapshot)
          BY <1>4, <5>1 DEF SearchShape
        <5>3. C.s.view[u].csn = NoCSN => C.s.view[u].csn < z
          BY <1>3 DEF NoCSN
        <5>4. ASSUME C.s.view[u].csn # NoCSN PROVE C.s.view[u].csn < z
          <6>1. PICK i \in SIDs : C.s.view[u].csn <= C.s.snapshot[i]
            BY <5>2, <5>4 DEF CSNBelow
          <6>2. C.s.snapshot[i] < z /\ C.s.snapshot[i] \in Nat
            BY <1>3, <5>1, ConsumerFields
          <6>3. C.s.view[u].csn \in Nat
            BY <5>1, EntryTyped
          <6>. QED  BY <6>1, <6>2, <6>3
        <5>. QED  BY <5>3, <5>4
      <4>4. Follows(P2, C, u, P2.sid, z)
        BY <1>2, <2>4, <3>2 DEF Follows
      <4>5. OutLink(P2, C, u, z)
        BY <1>3, <2>2, <4>3, <4>4 DEF OutLink, WentOut
      <4>6. z \in 0..Newest(P2, u)
        BY <3>1
      <4>. QED  BY <3>1, <4>2, <4>5, <4>6 DEF ContentOf
    <3>3. CASE P.held[u].visibility # "in"
      <4>1. PICK d \in 0..Newest(P, u) : OutServer(P, u, d) /\ OutLink(P, C, u, d)
        BY <2>0, <3>3 DEF ContentOf
      <4>2. d \in 0..Newest(P2, u)
        <5>1. Newest(P, u) \in Nat /\ Newest(P, u) < z
          BY <1>3, ProviderFields
        <5>. QED  BY <3>1, <4>1, <5>1
      <4>3. WentOut(rec, u, d)
        BY <1>2, <2>4, <3>3 DEF WentOut
      <4>4. OutServer(P2, u, d)
        BY <1>2, <3>1, <4>1, <4>3 DEF OutServer
      <4>5. OutLink(P2, C, u, d)
        BY <1>12, <4>1 DEF OutLink
      <4>. QED  BY <3>1, <4>2, <4>4, <4>5 DEF ContentOf
    <3>. QED  BY <3>2, <3>3
  <2>. QED  BY <2>1, <2>3, <2>4
<1>. QED  BY <1>8, <1>9, <1>10, <1>11, <1>13 DEF LinkOK

-----------------------------------------------------------------------------
(* The provider publishes a change and restarts.                           *)

\* What has gone into the log is there, or older than its base.
LEMMA PublishedServer ==
    ASSUME NEW P \in ProviderStates, NEW P2 \in ProviderStates, NEW rec \in Changes, Clocked(P), ServerBehind(P),
           P.unpub = {rec}, P2.unpub = {}, P2.log = IF LogSize > 0 THEN LogAppend(P.log, rec) ELSE P.log,
           P2.held = P.held, P2.tombs = P.tombs, P2.top = P.top, P2.ceil = P.ceil, P2.sid = P.sid
    PROVE  /\ ServerBehind(P2)
           /\ \A u \in UUIDs : Newest(P2, u) = Newest(P, u)
           /\ \A u \in UUIDs, d \in Nat : OutServer(P, u, d) => OutServer(P2, u, d)
<1>1. /\ P.log \in SessionLogs /\ P.sid \in SIDs /\ P.ceil \in Nat /\ rec.csn \in Nat
      /\ \A s \in SIDs : P.top[s] \in Nat /\ P.log.base[s] \in Nat /\ P2.log.base[s] \in Nat /\ P.top[s] < P.ceil
  BY ProviderFields DEF Clocked, Changes
<1>2. rec.csn # NoCSN /\ SIDOf(rec.csn) = P.sid /\ rec.csn <= P.top[P.sid] /\ P.log.latest[P.sid] < rec.csn
  BY <1>1 DEF ServerBehind, Clocked
<1>3. ASSUME LogSize > 0
      PROVE  /\ \A s \in SIDs : P2.log.base[s] >= P.log.base[s]
             /\ \A c \in Range(P.log.changes) : SIDOf(c.csn) \in SIDs =>
                   c \in Range(P2.log.changes) \/ c.csn <= P2.log.base[SIDOf(c.csn)]
             /\ ~IsAdd(rec) /\ SIDOf(rec.csn) \in SIDs =>
                   rec \in Range(P2.log.changes) \/ rec.csn <= P2.log.base[SIDOf(rec.csn)]
             /\ Range(P2.log.changes) \subseteq Range(P.log.changes) \cup {rec}
  <2> DEFINE g == P.log
             h == LogAppend(g, rec)
  <2>1. P2.log = h
    BY <1>3
  <2>2. g \in SessionLogs /\ ~(rec.csn < g.latest[SIDOf(rec.csn)])
    <3>1. g.latest[P.sid] \in Nat
      BY ProviderFields
    <3>. QED  BY <1>1, <1>2, <3>1
  <2> HIDE DEF g
  <2>3. /\ \A s \in SIDs : h.base[s] >= g.base[s]
        /\ \A c \in Range(g.changes) : SIDOf(c.csn) \in SIDs =>
              c \in Range(h.changes) \/ c.csn <= h.base[SIDOf(c.csn)]
        /\ ~IsAdd(rec) /\ SIDOf(rec.csn) \in SIDs =>
              rec \in Range(h.changes) \/ rec.csn <= h.base[SIDOf(rec.csn)]
        /\ Range(h.changes) \subseteq Range(g.changes) \cup {rec}
    BY <2>2, LogAppendFacts
  <2> HIDE DEF h
  <2>. QED  BY <2>1, <2>3 DEF g
<1>4. Range(P2.log.changes) \subseteq Range(P.log.changes) \cup {rec}
  <2>1. CASE LogSize > 0
    BY <1>3, <2>1
  <2>2. CASE ~(LogSize > 0)
    BY <2>2
  <2>. QED  BY <2>1, <2>2
<1>5. ServerBehind(P2)
  <2>1. rec.csn < P.ceil
    BY <1>1, <1>2
  <2>2. \A r \in Range(P2.log.changes) : r.csn < P2.ceil /\ SIDOf(r.csn) = P2.sid
    BY <1>2, <1>4, <2>1 DEF ServerBehind
  <2>3. \A u \in UUIDs : CSNBelow(P2.held[u].csn, P2.top)
    BY DEF ServerBehind
  <2>. QED  BY <2>2, <2>3 DEF ServerBehind
<1>6. \A u \in UUIDs : Newest(P2, u) = Newest(P, u)
  BY DEF Newest
<1>7. ASSUME NEW u \in UUIDs, NEW d \in Nat, OutServer(P, u, d) PROVE OutServer(P2, u, d)
  <2>1. /\ d # NoCSN => SIDOf(d) = P2.sid /\ SIDOf(Newest(P2, u)) = P2.sid
        /\ \A r \in Range(P2.log.changes) \cup P2.unpub : WentOut(r, u, d)
    BY <1>4, <1>6, <1>7 DEF OutServer
  <2>2. ASSUME LogSize > 0
        PROVE  \/ d <= P2.log.base[P2.sid]
               \/ \E r \in Range(P2.log.changes) \cup P2.unpub : Leaves(r, u, d)
    <3>1. \/ d <= P.log.base[P.sid]
          \/ \E r \in Range(P.log.changes) \cup P.unpub : Leaves(r, u, d)
      BY <1>7, <2>2 DEF OutServer
    <3>2. CASE d <= P.log.base[P.sid]
      <4>1. P2.log.base[P.sid] >= P.log.base[P.sid]
        BY <1>1, <1>3, <2>2
      <4>. QED  BY <1>1, <3>2, <4>1
    <3>3. ASSUME NEW r \in Range(P.log.changes), Leaves(r, u, d)
          PROVE  d <= P2.log.base[P2.sid] \/ \E s \in Range(P2.log.changes) : Leaves(s, u, d)
      <4>1. r.csn = d /\ SIDOf(r.csn) = P.sid
        BY <3>3 DEF Leaves, ServerBehind
      <4>2. r \in Range(P2.log.changes) \/ r.csn <= P2.log.base[P.sid]
        BY <1>1, <1>3, <2>2, <4>1
      <4>. QED  BY <3>3, <4>1, <4>2
    <3>4. ASSUME Leaves(rec, u, d)
          PROVE  d <= P2.log.base[P2.sid] \/ \E s \in Range(P2.log.changes) : Leaves(s, u, d)
      <4>1. rec.csn = d /\ ~IsAdd(rec)
        BY <3>4 DEF Leaves, IsAdd
      <4>2. rec \in Range(P2.log.changes) \/ rec.csn <= P2.log.base[P.sid]
        BY <1>1, <1>2, <1>3, <2>2, <4>1
      <4>. QED  BY <3>4, <4>1, <4>2
    <3>. QED  BY <3>1, <3>2, <3>3, <3>4
  <2>. QED  BY <2>1, <2>2 DEF OutServer
<1>. QED  BY <1>5, <1>6, <1>7

\* syncChangeHub.publish: the change goes into the channel, or the channel is closed.
LEMMA LinkPublish ==
    ASSUME NEW P \in ProviderStates, NEW P2 \in ProviderStates, NEW C \in ConsumerStates, NEW C2 \in ConsumerStates,
           NEW rec \in Changes, Clocked(P), LinkOK(P, C), SameStore(C, C2),
           P.unpub = {rec}, P2.unpub = {}, P2.log = IF LogSize > 0 THEN LogAppend(P.log, rec) ELSE P.log,
           P2.held = P.held, P2.tombs = P.tombs, P2.top = P.top, P2.ceil = P.ceil, P2.sid = P.sid,
           C2.s.phase = C.s.phase, C2.s.mode = C.s.mode, C2.s.snapshot = C.s.snapshot, C2.s.view = C.s.view,
           C2.s.stream = C.s.stream, C2.s.seen = C.s.seen,
           \/ C2.s.events = Append(C.s.events, rec) /\ ~C.s.overflow
           \/ /\ C2.s.events = C.s.events
              /\ C.s.phase \in {"reading", "persist"} /\ C.s.mode = "refreshAndPersist" => C2.s.overflow
    PROVE  LinkOK(P2, C2)
<1>1. /\ ServerBehind(P2)
      /\ \A u \in UUIDs : Newest(P2, u) = Newest(P, u)
      /\ \A u \in UUIDs, d \in Nat : OutServer(P, u, d) => OutServer(P2, u, d)
  <2>1. ServerBehind(P)
    BY DEF LinkOK
  <2>. QED  BY <2>1, PublishedServer
<1>2. /\ ServerBehind(P) /\ ConsumerBehind(P, C) /\ ChannelOrdered(P, C) /\ SearchShape(P, C)
      /\ C.s.events \in Seq(Changes)
  BY ConsumerFields DEF LinkOK
<1>3. ConsumerBehind(P2, C2)
  BY <1>2 DEF ConsumerBehind, SameStore
<1>4. SearchShape(P2, C2)
  BY <1>2 DEF SearchShape, SameStore
<1>5. /\ Range(C2.s.events) \subseteq Range(C.s.events) \cup {rec}
      /\ Range(C.s.events) \subseteq Range(C2.s.events)
      /\ C2.s.events = Append(C.s.events, rec) => rec \in Range(C2.s.events)
  <2>1. CASE C2.s.events = Append(C.s.events, rec)
    <3>1. Range(Append(C.s.events, rec)) = Range(C.s.events) \cup {rec}
      BY <1>2, RangeParts
    <3>. QED  BY <2>1, <3>1
  <2>2. CASE C2.s.events = C.s.events /\ C2.s.events # Append(C.s.events, rec)
    BY <2>2
  <2>. QED  BY <2>1, <2>2
<1>6. rec.csn # NoCSN /\ SIDOf(rec.csn) = P.sid /\ rec.csn <= P.top[P.sid]
  BY <1>2 DEF ServerBehind
<1>7. \A r \in Range(C.s.events) : r.csn < rec.csn
  <2>1. ASSUME NEW r \in Range(C.s.events) PROVE r.csn < rec.csn
    <3>1. PICK k \in 1..Len(C.s.events) : r = C.s.events[k]
      BY <1>2, RangeIndex
    <3>. QED  BY <1>2, <3>1 DEF ChannelOrdered
  <2>. QED  BY <2>1
<1>8. ChannelOrdered(P2, C2)
  <2>1. CASE C2.s.events = C.s.events
    BY <1>2, <2>1 DEF ChannelOrdered
  <2>2. CASE C2.s.events = Append(C.s.events, rec)
    <3> DEFINE ev == C.s.events
               e2 == C2.s.events
    <3>1. /\ Len(ev) \in Nat /\ Len(e2) = Len(ev) + 1 /\ e2[Len(ev) + 1] = rec
          /\ \A k \in 1..Len(ev) : e2[k] = ev[k]
          /\ \A k \in 1..Len(e2) : k \in 1..Len(ev) \/ k = Len(ev) + 1
      BY <1>2, <2>2
    <3>2. \A k \in 1..Len(ev) : ev[k].csn < rec.csn
      <4>1. \A k \in 1..Len(ev) : ev[k] \in Range(ev)
        BY <1>2, RangeIndex
      <4>. QED  BY <1>7, <4>1
    <3>3. /\ \A i, j \in 1..Len(ev) : i < j => ev[i].csn < ev[j].csn
          /\ \A i \in 1..Len(ev) : ev[i].csn # NoCSN /\ SIDOf(ev[i].csn) = P.sid /\ ev[i].csn <= P.top[P.sid]
      BY <1>2 DEF ChannelOrdered
    <3> HIDE DEF ev, e2
    <3>4. ASSUME NEW i \in 1..Len(e2), NEW j \in 1..Len(e2), i < j PROVE e2[i].csn < e2[j].csn
      <4>1. i \in 1..Len(ev)
        BY <3>1, <3>4
      <4>2. CASE j \in 1..Len(ev)
        BY <3>1, <3>3, <3>4, <4>1, <4>2
      <4>3. CASE j = Len(ev) + 1
        BY <3>1, <3>2, <4>1, <4>3
      <4>. QED  BY <3>1, <4>2, <4>3
    <3>5. ASSUME NEW i \in 1..Len(e2)
          PROVE  e2[i].csn # NoCSN /\ SIDOf(e2[i].csn) = P.sid /\ e2[i].csn <= P.top[P.sid]
      BY <1>6, <3>1, <3>3
    <3>. QED  BY <3>4, <3>5 DEF ChannelOrdered, e2
  <2>. QED  BY <2>1, <2>2
<1>9. ASSUME NEW u, NEW i, NEW z, Follows(P, C, u, i, z) PROVE Follows(P2, C2, u, i, z)
  <2>1. SUFFICES ASSUME C.s.phase \in {"reading", "persist"}, C.s.mode = "refreshAndPersist", z > C.s.snapshot[i]
                 PROVE  \/ \E r \in Range(C2.s.events) \cup P2.unpub :
                              r.uuid = u /\ r.csn = z /\ "in" \in {r.before, r.after}
                        \/ C2.s.overflow /\ \A r \in Range(C2.s.events) : r.csn < z
    BY DEF Follows
  <2>2. \/ \E r \in Range(C.s.events) \cup P.unpub : r.uuid = u /\ r.csn = z /\ "in" \in {r.before, r.after}
        \/ C.s.overflow /\ \A r \in Range(C.s.events) : r.csn < z
    BY <1>9, <2>1 DEF Follows
  <2>3. CASE C2.s.events = Append(C.s.events, rec) /\ ~C.s.overflow
    BY <1>5, <2>2, <2>3
  <2>4. CASE C2.s.events = C.s.events /\ C2.s.overflow
    BY <1>7, <2>2, <2>4
  <2>. QED  BY <2>1, <2>3, <2>4
<1>10. ASSUME NEW u \in UUIDs PROVE ContentOf(P2, C2, u)
  <2>1. C2.held[u] = C.held[u] /\ C2.tombs[u] = C.tombs[u] /\ C2.ck = C.ck
    BY DEF SameStore
  <2>2. ContentOf(P, C, u)
    BY DEF LinkOK
  <2>3. \A c : InLink(P, C, u, c) => InLink(P2, C2, u, c)
    BY <1>5, <1>9, <2>1 DEF InLink
  <2>4. ASSUME NEW d \in 0..Newest(P, u), OutServer(P, u, d), OutLink(P, C, u, d)
        PROVE  OutServer(P2, u, d) /\ OutLink(P2, C2, u, d)
    <3>1. d \in Nat
      BY ProviderFields
    <3>2. OutServer(P2, u, d)
      BY <1>1, <2>4, <3>1
    <3>3. \A r \in Range(C2.s.events) : WentOut(r, u, d)
      BY <1>5, <2>4 DEF OutServer, OutLink
    <3>4. OutLink(P2, C2, u, d)
      BY <1>9, <2>1, <2>4, <3>3 DEF OutLink
    <3>. QED  BY <3>2, <3>4
  <2>. QED  BY <1>1, <2>2, <2>3, <2>4 DEF ContentOf
<1>. QED  BY <1>1, <1>3, <1>4, <1>8, <1>10 DEF LinkOK

\* A provider restarts: its log starts from the context, and the search is gone.
LEMMA LinkRestart ==
    ASSUME NEW P \in ProviderStates, NEW P2 \in ProviderStates, NEW C \in ConsumerStates, NEW C2 \in ConsumerStates,
           Clocked(P), LinkOK(P, C), SameStore(C, C2),
           P2.unpub = {}, P2.log = EmptyLog(P.top),
           P2.held = P.held, P2.tombs = P.tombs, P2.top = P.top, P2.ceil = P.ceil, P2.sid = P.sid,
           C2.s.phase = "idle", C2.s.events = <<>>, C2.s.stream = <<>>, C2.s.seen = {}
    PROVE  LinkOK(P2, C2)
<1>1. Len(<<>>) = 0 /\ 1..0 = {} /\ Range(<<>>) = {}
  BY DEF Range
<1>2. P2.log.changes = <<>> /\ P2.log.base = P.top
  BY DEF EmptyLog
<1>3. LinkOK(P, C2)
  BY LinkDrop
<1>4. ServerBehind(P2)
  BY <1>1, <1>2, <1>3 DEF LinkOK, ServerBehind
<1>5. ConsumerBehind(P2, C2)
  BY <1>3 DEF LinkOK, ConsumerBehind
<1>6. ChannelOrdered(P2, C2) /\ SearchShape(P2, C2)
  BY <1>1 DEF ChannelOrdered, SearchShape
<1>7. ASSUME NEW u \in UUIDs PROVE ContentOf(P2, C2, u)
  <2>1. \A i, z : Follows(P2, C2, u, i, z)
    BY ClosedSearch
  <2>2. ContentOf(P, C2, u)
    BY <1>3 DEF LinkOK
  <2>3. \A c : InLink(P, C2, u, c) => InLink(P2, C2, u, c)
    BY <1>1, <2>1 DEF InLink
  <2>4. \A d : OutLink(P, C2, u, d) => OutLink(P2, C2, u, d)
    BY <1>1, <2>1 DEF OutLink
  <2>5. Newest(P2, u) = Newest(P, u) /\ Newest(P, u) \in Nat /\ P.sid \in SIDs /\ P.top[P.sid] \in Nat
    BY ProviderFields DEF Newest
  <2>6. ASSUME NEW d \in 0..Newest(P, u), OutServer(P, u, d) PROVE OutServer(P2, u, d)
    <3>1. CSNBelow(Newest(P, u), P.top)
      BY <1>3, NewestBelow DEF LinkOK
    <3>2. d <= P.top[P.sid]
      <4>1. CASE d = NoCSN
        BY <2>5, <4>1 DEF NoCSN
      <4>2. CASE d # NoCSN
        <5>1. SIDOf(Newest(P, u)) = P.sid /\ Newest(P, u) # NoCSN
          BY <2>5, <2>6, <4>2 DEF OutServer, NoCSN
        <5>2. Newest(P, u) <= P.top[P.sid]
          BY <3>1, <5>1 DEF CSNBelow
        <5>. QED  BY <2>5, <5>2
      <4>. QED  BY <4>1, <4>2
    <3>. QED  BY <1>1, <1>2, <2>5, <2>6, <3>2 DEF OutServer
  <2>. QED  BY <2>2, <2>3, <2>4, <2>5, <2>6 DEF ContentOf
<1>. QED  BY <1>4, <1>5, <1>6, <1>7 DEF LinkOK

-----------------------------------------------------------------------------
(* The steps of the specification, link by link.                           *)

LinksTyped ==
    \A l \in Links :
        /\ ProviderOf(l[1]) \in ProviderStates /\ ConsumerOf(l) \in ConsumerStates
        /\ session[l].phase = "reading" => session[l].view \in [UUIDs -> Entries]

LEMMA LinksAreTyped == TypeInv => LinksTyped
<1> SUFFICES ASSUME TypeInv, NEW l \in Links
             PROVE  /\ ProviderOf(l[1]) \in ProviderStates /\ ConsumerOf(l) \in ConsumerStates
                    /\ session[l].phase = "reading" => session[l].view \in [UUIDs -> Entries]
  BY DEF LinksTyped
<1>1. l[1] \in Nodes /\ l[2] \in Nodes /\ ServerID[l[1]] \in SIDs
  BY Topology
<1>2. Unpublished(l[1]) \in SUBSET Changes
  <2>1. \A a \in DOMAIN publishing : publishing[a] \in Seq(Changes)
    BY DEF TypeInv
  <2>2. \A q \in Seq(Changes) : Range(q) \subseteq Changes
    BY DEF Range
  <2>. QED  BY <2>1, <2>2, Zenon DEF Unpublished
<1>3. Ceiling(l[1]) \in Nat
  <2>1. clock[l[1]] \in Nat
    BY <1>1, Bounds DEF TypeInv, CountersOK
  <2>. QED  BY <2>1, CeilingFacts DEF Ceiling
<1>4. ProviderOf(l[1]) \in ProviderStates
  BY <1>1, <1>2, <1>3 DEF ProviderOf, ProviderStates, TypeInv, StoredOK, LogsOK
<1>5. session[l] \in Sessions /\ SessionOK(session[l])
  BY SessionRead
<1>6. ConsumerOf(l) \in ConsumerStates
  BY <1>1, <1>5 DEF ConsumerOf, ConsumerStates, TypeInv, StoredOK
<1>. QED  BY <1>4, <1>5, <1>6 DEF SessionOK

LEMMA LinksAreTypedNext == TypeInv' => LinksTyped'
  BY LinksAreTyped, PTL

\* The unpublished changes of a provider are those of its one client.
ClientsPublish ==
    /\ \A k \in Clients : Unpublished(Home[k]) = Range(publishing[k])
    /\ \A p \in Providers : (\A k \in Clients : Home[k] # p) => Unpublished(p) = {}

LEMMA OnlyClientsPublish == ASSUME NoRelays, OneWriter PROVE TypeInv => ClientsPublish
<1> SUFFICES ASSUME TypeInv PROVE ClientsPublish
  OBVIOUS
<1>1. DOMAIN publishing = Clients \cup Links
  BY DEF TypeInv
<1>2. ASSUME NEW p \in Providers, NEW a \in Clients \cup Links, NodeOf(a) = p PROVE a \in Clients /\ Home[a] = p
  BY <1>2 DEF NodeOf, NoRelays
<1>3. ASSUME NEW k \in Clients PROVE Unpublished(Home[k]) = Range(publishing[k])
  <2>1. {b \in DOMAIN publishing : NodeOf(b) = Home[k]} = {k}
    BY <1>1, <1>2, Topology DEF OneWriter, NodeOf
  <2>. QED  BY <2>1 DEF Unpublished
<1>4. ASSUME NEW p \in Providers, \A k \in Clients : Home[k] # p PROVE Unpublished(p) = {}
  <2>1. {b \in DOMAIN publishing : NodeOf(b) = p} = {}
    BY <1>1, <1>2, <1>4
  <2>. QED  BY <2>1 DEF Unpublished
<1>. QED  BY <1>3, <1>4 DEF ClientsPublish

LEMMA OnlyClientsPublishNext == ASSUME NoRelays, OneWriter PROVE TypeInv' => ClientsPublish'
  BY OnlyClientsPublish, PTL

LEMMA SameUnpublished ==
    ASSUME NoRelays, OneWriter, TypeInv, TypeInv', NEW p \in Providers,
           \A k \in Clients : Home[k] = p => publishing'[k] = publishing[k]
    PROVE  Unpublished(p)' = Unpublished(p)
<1>1. ClientsPublish /\ ClientsPublish'
  BY OnlyClientsPublish, OnlyClientsPublishNext
<1>2. CASE \E k \in Clients : Home[k] = p
  BY <1>1, <1>2 DEF ClientsPublish
<1>3. CASE \A k \in Clients : Home[k] # p
  BY <1>1, <1>3 DEF ClientsPublish
<1>. QED  BY <1>2, <1>3

LEMMA SameProviderOf ==
    ASSUME NoRelays, OneWriter, TypeInv, TypeInv', NEW p \in Providers, SameProvider(p), log'[p] = log[p],
           \A k \in Clients : Home[k] = p => publishing'[k] = publishing[k]
    PROVE  ProviderOf(p)' = ProviderOf(p)
<1>1. Unpublished(p)' = Unpublished(p)
  BY SameUnpublished
<1>. QED  BY <1>1 DEF ProviderOf, SameProvider, Ceiling

LEMMA LinksAreClocked ==
    ASSUME NoRelays, OneWriter, LogInv, NEW l \in Links
    PROVE  Clocked(ProviderOf(l[1]))
<1> DEFINE p == l[1]
<1>1. TypeInv /\ p \in Providers
  BY Topology DEF LogInv, PersistInv
<1>2. \A s \in SIDs : context[p][s] < Ceiling(p)
  BY <1>1 DEF LogInv, BehindTheClock
<1>3. \A u \in UUIDs : CSNBelow(tombstones[p][u], context[p])
  BY <1>1 DEF LogInv, PersistInv, CSNsOrdered, CSNBelow
<1>4. /\ \A r \in Unpublished(p) : \A s \in SIDs : log[p].latest[s] < r.csn
      /\ \A r1, r2 \in Unpublished(p) : r1 = r2
  <2>1. ClientsPublish
    BY <1>1, OnlyClientsPublish
  <2>2. ASSUME NEW k \in Clients, Home[k] = p
        PROVE  /\ \A r \in Range(publishing[k]) : \A s \in SIDs : log[p].latest[s] < r.csn
               /\ \A r1, r2 \in Range(publishing[k]) : r1 = r2
    <3>1. \/ publishing[k] = <<>>
          \/ Len(publishing[k]) = 1 /\ \A s \in SIDs : log[p].latest[s] < publishing[k][1].csn
      BY <2>2 DEF LogInv, NewestUnpublished
    <3>2. publishing[k] \in Seq(Changes)
      BY <1>1 DEF TypeInv
    <3>3. \A r \in Range(publishing[k]) : \E i \in 1..Len(publishing[k]) : r = publishing[k][i]
      BY <3>2, RangeIndex
    <3>4. CASE publishing[k] = <<>>
      <4>1. Range(publishing[k]) = {}
        BY <3>4 DEF Range
      <4>. QED  BY <4>1
    <3>5. CASE Len(publishing[k]) = 1 /\ \A s \in SIDs : log[p].latest[s] < publishing[k][1].csn
      <4>1. \A r \in Range(publishing[k]) : r = publishing[k][1]
        BY <3>3, <3>5
      <4>. QED  BY <3>5, <4>1
    <3>. QED  BY <3>1, <3>4, <3>5
  <2>3. CASE \E k \in Clients : Home[k] = p
    BY <2>1, <2>2, <2>3 DEF ClientsPublish
  <2>4. CASE \A k \in Clients : Home[k] # p
    BY <1>1, <2>1, <2>4 DEF ClientsPublish
  <2>. QED  BY <2>3, <2>4
<1> DEFINE P == ProviderOf(p)
<1>5. P.top = context[p] /\ P.ceil = Ceiling(p) /\ P.tombs = tombstones[p] /\ P.log = log[p] /\ P.unpub = Unpublished(p)
  BY DEF ProviderOf
<1> HIDE DEF P, p
<1>6. Clocked(P)
  BY <1>2, <1>3, <1>4, <1>5 DEF Clocked
<1>. QED  BY <1>6 DEF P, p

\* A link that a step does not touch.
LEMMA SameLink ==
    ASSUME NEW l \in Links, LinkOK(ProviderOf(l[1]), ConsumerOf(l)),
           ProviderOf(l[1])' = ProviderOf(l[1]), ConsumerOf(l)' = ConsumerOf(l)
    PROVE  LinkOK(ProviderOf(l[1]), ConsumerOf(l))'
OBVIOUS

\* A step of one search.
LEMMA OneSearch ==
    ASSUME NoRelays, OneWriter, ContentInv, LogInv', NEW l \in Links,
           UNCHANGED <<stored, clock, log, publishing>>,
           \A m \in Links : m # l => session'[m] = session[m],
           LinkOK(ProviderOf(l[1]), ConsumerOf(l)')
    PROVE  ContentInv'
<1>1. TypeInv /\ TypeInv'
  BY DEF ContentInv, LogInv, PersistInv
<1>2. ASSUME NEW m \in Links PROVE ProviderOf(m[1])' = ProviderOf(m[1])
  <2>1. m[1] \in Providers /\ SameProvider(m[1])
    BY Topology DEF SameProvider, stored
  <2>. QED  BY <1>1, <2>1, SameProviderOf
<1>3. ASSUME NEW m \in Links, m # l PROVE ConsumerOf(m)' = ConsumerOf(m)
  BY <1>3 DEF ConsumerOf, stored
<1>4. ASSUME NEW m \in Links PROVE LinkOK(ProviderOf(m[1]), ConsumerOf(m))'
  BY <1>2, <1>3 DEF ContentInv
<1>. QED  BY <1>4 DEF ContentInv

\* The stored context covers the entries, so it is what a search reads.
LEMMA ContextIsStored ==
    ASSUME NEW n \in Nodes, entries[n] \in [UUIDs -> Entries], context[n] \in CSNState,
           \A u \in UUIDs : CSNBelow(entries[n][u].csn, context[n])
    PROVE  ContextCSNs(n) = context[n]
<1> DEFINE Issued(s) == {v \in UUIDs : entries[n][v].csn # NoCSN /\ SIDOf(entries[n][v].csn) = s}
           C(s) == {context[n][s]} \cup {entries[n][u].csn : u \in Issued(s)}
<1>1. ASSUME NEW s \in SIDs PROVE ContextCSNs(n)[s] = context[n][s]
  <2>1. /\ ContextCSNs(n) \in CSNState /\ \A q \in SIDs : ContextCSNs(n)[q] = Max(C(q))
        /\ ContextCSNs(n)[s] >= context[n][s] /\ context[n][s] \in Nat /\ ContextCSNs(n)[s] \in Nat
    <3>1. ContextCSNs(n) \in CSNState /\ ContextCSNs(n)[s] >= context[n][s]
      BY ContextFacts
    <3>. QED  BY <3>1 DEF ContextCSNs, CSNState
  <2>2. C(s) \in SUBSET Nat /\ C(s) # {}
    <3>1. \A v \in UUIDs : entries[n][v].csn \in Nat
      BY EntryTyped
    <3>. QED  BY <3>1 DEF CSNState
  <2>3. IsFiniteSet(C(s))
    <3> DEFINE f == [v \in UUIDs |-> entries[n][v].csn]
               I == Issued(s)
    <3>1. IsFiniteSet(I) /\ I \subseteq DOMAIN f
      BY FS_Subset, BoundsAssumption
    <3>2. C(s) = {context[n][s]} \cup {f[x] : x \in I}
      OBVIOUS
    <3> HIDE DEF f, I
    <3>3. IsFiniteSet({f[x] : x \in I})
      BY <3>1, FiniteImage
    <3>4. IsFiniteSet({context[n][s]} \cup {f[x] : x \in I})
      BY <3>3, FS_Singleton, FS_Union
    <3>. QED  BY <3>2, <3>4
  <2>4. \A x \in C(s) : x <= context[n][s]
    BY <2>1 DEF CSNBelow
  <2> HIDE DEF C
  <2>5. Max(C(s)) \in C(s)
    BY <2>2, <2>3, GreatestNumber
  <2>. QED  BY <2>1, <2>4, <2>5
<1>2. ContextCSNs(n) \in CSNState
  BY ContextFacts
<1>. QED  BY <1>1, <1>2 DEF CSNState

\* A link before and after a step.
LEMMA LinkBefore ==
    ASSUME NoRelays, OneWriter, ContentInv, NEW l \in Links
    PROVE  /\ ProviderOf(l[1]) \in ProviderStates /\ ConsumerOf(l) \in ConsumerStates
           /\ Clocked(ProviderOf(l[1])) /\ LinkOK(ProviderOf(l[1]), ConsumerOf(l))
           /\ session[l].phase = "reading" => session[l].view \in [UUIDs -> Entries]
<1>1. LogInv /\ TypeInv /\ LinkOK(ProviderOf(l[1]), ConsumerOf(l))
  BY DEF ContentInv, LogInv, PersistInv
<1>2. LinksTyped /\ Clocked(ProviderOf(l[1]))
  BY <1>1, LinksAreTyped, LinksAreClocked
<1>. QED  BY <1>1, <1>2 DEF LinksTyped

LEMMA LinkAfter ==
    ASSUME TypeInv', NEW l \in Links
    PROVE  ProviderOf(l[1])' \in ProviderStates /\ ConsumerOf(l)' \in ConsumerStates
BY LinksAreTypedNext DEF LinksTyped

LEMMA SearchContent ==
    ASSUME NoRelays, OneWriter, ContentInv, LogInv', NEW l \in Links,
           Connect(l) \/ CaptureSnapshot(l) \/ PersistOverflow(l) \/ SearchFailed(l) \/ Disconnect(l)
    PROVE  ContentInv'
<1>1. UNCHANGED <<stored, clock, log, publishing>>
  BY DEF Connect, CaptureSnapshot, PersistOverflow, SearchFailed, Disconnect
<1>2. TypeInv /\ TypeInv' /\ session[l] \in Sessions /\ session = [m \in Links |-> session[m]] /\ PersistsByMode
  <2>1. TypeInv /\ TypeInv' /\ PersistsByMode
    BY DEF ContentInv, LogInv, PersistInv
  <2>. QED  BY <2>1, SessionRead
<1>3. \A m \in Links : m # l => session'[m] = session[m]
  BY <1>2 DEF Connect, CaptureSnapshot, PersistOverflow, SearchFailed, Disconnect
<1>4. PICK P, C, C2 : P = ProviderOf(l[1]) /\ C = ConsumerOf(l) /\ C2 = ConsumerOf(l)'
  OBVIOUS
<1>5. /\ P \in ProviderStates /\ C \in ConsumerStates /\ C2 \in ConsumerStates /\ Clocked(P) /\ LinkOK(P, C)
  BY <1>2, <1>4, LinkBefore, LinkAfter
<1>6. C.s = session[l] /\ C2.s = session'[l] /\ SameStore(C, C2)
  BY <1>1, <1>4 DEF ConsumerOf, SameStore, stored
<1>7. P.held = entries[l[1]] /\ P.top = context[l[1]]
  BY <1>4 DEF ProviderOf
<1>8. LinkOK(P, C2)
  <2>1. CASE Connect(l)
    <3>1. session'[l] = [session[l] EXCEPT !.phase = "subscribed"] /\ session[l].phase = "idle"
      BY <1>2, <2>1 DEF Connect
    <3>2. /\ C2.s.phase = "subscribed" /\ C2.s.events = C.s.events /\ C2.s.stream = C.s.stream
          /\ C2.s.seen = C.s.seen /\ C2.s.mode = C.s.mode /\ C.s.phase = "idle"
      BY <1>2, <1>6, <3>1 DEF Sessions
    <3>. QED  BY <1>5, <1>6, <3>2, LinkConnect
  <2>2. CASE CaptureSnapshot(l)
    <3>1. ContextCSNs(l[1]) = context[l[1]]
      <4>1. l[1] \in Nodes
        BY Topology
      <4>2. \A u \in UUIDs : CSNBelow(entries[l[1]][u].csn, context[l[1]])
        BY <1>5, <1>7 DEF LinkOK, ServerBehind
      <4>3. entries[l[1]] \in [UUIDs -> Entries] /\ context[l[1]] \in CSNState
        BY <1>2, <4>1 DEF TypeInv, StoredOK
      <4>. QED  BY <4>1, <4>2, <4>3, ContextIsStored
    <3>2. /\ session'[l] = [session[l] EXCEPT !.phase = "reading", !.view = entries[l[1]],
                                               !.snapshot = ContextCSNs(l[1])]
          /\ session[l].phase = "subscribed"
      BY <1>2, <2>2 DEF CaptureSnapshot
    <3>3. session'[l] = [session[l] EXCEPT !.phase = "reading", !.view = P.held, !.snapshot = P.top]
      BY <1>7, <3>1, <3>2
    <3>4. /\ C2.s.phase = "reading" /\ C2.s.events = C.s.events /\ C2.s.stream = C.s.stream
          /\ C2.s.seen = C.s.seen /\ C2.s.mode = C.s.mode /\ C.s.phase = "subscribed"
          /\ C2.s.view = P.held /\ C2.s.snapshot = P.top
      <4> DEFINE h == P.held
                 t == P.top
      <4>1. C2.s = [C.s EXCEPT !.phase = "reading", !.view = h, !.snapshot = t] /\ C.s \in Sessions
        BY <1>2, <1>6, <3>3
      <4> HIDE DEF h, t
      <4>2. /\ C2.s.phase = "reading" /\ C2.s.events = C.s.events /\ C2.s.stream = C.s.stream
            /\ C2.s.seen = C.s.seen /\ C2.s.mode = C.s.mode /\ C2.s.view = h /\ C2.s.snapshot = t
        BY <4>1 DEF Sessions
      <4>. QED  BY <1>6, <3>2, <4>2 DEF h, t
    <3>. QED  BY <1>5, <1>6, <3>4, LinkCapture
  <2>3. CASE PersistOverflow(l)
    <3>1. /\ session'[l] = [session[l] EXCEPT !.phase = "ended", !.stream = Append(session[l].stream, Failed)]
          /\ session[l].phase = "persist"
      BY <1>2, <2>3 DEF PersistOverflow
    <3>2. session[l].mode = "refreshAndPersist"
      BY <1>2, <3>1 DEF PersistsByMode
    <3>3. /\ C2.s.phase = "ended" /\ C2.s.events = C.s.events /\ C2.s.stream = Append(C.s.stream, Failed)
          /\ C2.s.seen = C.s.seen /\ C2.s.mode = C.s.mode /\ C.s.mode # "refreshOnly"
      BY <1>2, <1>6, <3>1, <3>2 DEF Sessions
    <3>. QED  BY <1>5, <1>6, <3>3, LinkFails
  <2>4. CASE SearchFailed(l) \/ Disconnect(l)
    <3>1. session'[l] = Closed(session[l].mode)
      BY <1>2, <2>4 DEF SearchFailed, Disconnect
    <3>2. C2.s.phase = "idle" /\ C2.s.events = <<>> /\ C2.s.stream = <<>> /\ C2.s.seen = {}
      BY <1>6, <3>1 DEF Closed
    <3>. QED  BY <1>5, <1>6, <3>2, LinkDrop
  <2>. QED  BY <2>1, <2>2, <2>3, <2>4
<1>. QED  BY <1>1, <1>3, <1>4, <1>8, OneSearch

LEMMA RefreshContent ==
    ASSUME NoRelays, OneWriter, ContentInv, LogInv', NEW l \in Links, Refresh(l)
    PROVE  ContentInv'
<1> DEFINE s == session[l]
           known == ComparableCookie(cookie[l], s.snapshot)
           replays == known # NoState /\ Usable(log[l[1]], known, s.snapshot)
           from == IF known # NoState /\ ~replays /\ ~CookieStateExists(s.view, known) THEN NoState ELSE known
           replay == IF replays THEN Replayed(log[l[1]], known, s.snapshot) ELSE {}
           failure == SnapshotFailure(cookie[l], s.snapshot)
           phase == IF failure \/ s.mode = "refreshOnly" THEN "ended" ELSE "persist"
           stream == IF failure THEN <<Failed>> ELSE RefreshResponses(s.view, from, s.snapshot, replay, replays)
<1>1. UNCHANGED <<stored, clock, log, publishing>>
  BY DEF Refresh
<1>2. TypeInv /\ TypeInv' /\ s \in Sessions /\ session = [m \in Links |-> session[m]]
  <2>1. TypeInv /\ TypeInv'
    BY DEF ContentInv, LogInv, PersistInv
  <2>. QED  BY <2>1, SessionRead
<1>3. /\ session' = [session EXCEPT ![l].phase = phase, ![l].view = <<>>, ![l].stream = stream]
      /\ s.phase = "reading"
  BY ZenonT(40) DEF Refresh
<1>4. PICK P, C, C2 : P = ProviderOf(l[1]) /\ C = ConsumerOf(l) /\ C2 = ConsumerOf(l)'
  OBVIOUS
<1>5. /\ P \in ProviderStates /\ C \in ConsumerStates /\ C2 \in ConsumerStates /\ Clocked(P) /\ LinkOK(P, C)
      /\ s.view \in [UUIDs -> Entries]
  BY <1>2, <1>3, <1>4, LinkBefore, LinkAfter
<1>6. C.s = s /\ C2.s = session'[l] /\ SameStore(C, C2) /\ C.ck = cookie[l] /\ P.log = log[l[1]]
  BY <1>1, <1>4 DEF ConsumerOf, ProviderOf, SameStore, stored
<1>7. /\ \A m \in Links : m # l => session'[m] = session[m]
      /\ C2.s.phase = phase /\ C2.s.stream = stream /\ C2.s.events = s.events /\ C2.s.seen = s.seen
      /\ C2.s.mode = s.mode /\ C2.s.overflow = s.overflow /\ C2.s.snapshot = s.snapshot
  <2> HIDE DEF phase, stream
  <2>1. \A m \in Links : m # l => session'[m] = session[m]
    BY <1>2, <1>3
  <2>2. session'[l] = [s EXCEPT !.phase = phase, !.view = <<>>, !.stream = stream]
    BY <1>2, <1>3
  <2> HIDE DEF s
  <2>. QED  BY <1>2, <1>6, <2>1, <2>2 DEF Sessions
<1>8. LinkOK(P, C2)
  <2>1. CASE failure
    <3>1. phase = "ended" /\ stream = <<Failed>>
      BY <2>1
    <3>2. C.s.stream = <<>>
      BY <1>3, <1>5, <1>6 DEF LinkOK, SearchShape
    <3> HIDE DEF phase, stream, s, failure
    <3>3. C2.s.stream = Append(C.s.stream, Failed)
      BY <1>7, <3>1, <3>2
    <3>. QED  BY <1>5, <1>6, <1>7, <3>1, <3>2, <3>3, LinkFails
  <2>2. CASE ~failure
    <3>1. /\ phase \in {"ended", "persist"} /\ stream = RefreshResponses(s.view, from, s.snapshot, replay, replays)
          /\ known = ComparableCookie(C.ck, C.s.snapshot)
          /\ replays \in BOOLEAN /\ (replays => Usable(P.log, known, C.s.snapshot))
          /\ from \in {known, NoState} /\ (replays => from = known)
          /\ replay = IF replays THEN Replayed(P.log, known, C.s.snapshot) ELSE {}
      <4>1. stream = RefreshResponses(s.view, from, s.snapshot, replay, replays) /\ phase \in {"ended", "persist"}
        BY <2>2
      <4>2. known = ComparableCookie(C.ck, C.s.snapshot)
        BY <1>6
      <4>3. replays \in BOOLEAN /\ (replays => Usable(P.log, known, C.s.snapshot))
        <5> HIDE DEF known, s
        <5>. QED  BY <1>6, Zenon
      <4>4. from \in {known, NoState} /\ (replays => from = known)
        <5> HIDE DEF known, replays
        <5>. QED  OBVIOUS
      <4>5. replay = IF replays THEN Replayed(P.log, known, C.s.snapshot) ELSE {}
        <5> HIDE DEF known, replays, s
        <5>. QED  BY <1>6
      <4>. QED  BY <4>1, <4>2, <4>3, <4>4, <4>5
    <3>2. C2.s.stream = RefreshResponses(C.s.view, from, C.s.snapshot, replay, replays)
      <4> HIDE DEF phase, stream, s, failure, known, replays, from, replay
      <4>. QED  BY <1>6, <1>7, <3>1
    <3>3. /\ C.s.phase = "reading" /\ C.s.view \in [UUIDs -> Entries] /\ C2.s.phase \in {"ended", "persist"}
          /\ C2.s.events = C.s.events /\ C2.s.overflow = C.s.overflow /\ C2.s.mode = C.s.mode
          /\ C2.s.snapshot = C.s.snapshot /\ C2.s.seen = C.s.seen
      <4> HIDE DEF phase, stream, s, failure, known, replays, from, replay
      <4>. QED  BY <1>3, <1>5, <1>6, <1>7, <3>1
    <3> HIDE DEF phase, stream, s, failure, known, replays, from, replay
    <3>. QED  BY <1>5, <1>6, <3>1, <3>2, <3>3, LinkRefresh
  <2>. QED  BY <2>1, <2>2
<1>. QED  BY <1>1, <1>4, <1>7, <1>8, OneSearch

LEMMA ChangeContent ==
    ASSUME NoRelays, OneWriter, ContentInv, LogInv', NEW l \in Links, PersistChange(l)
    PROVE  ContentInv'
<1> DEFINE s == session[l]
           change == Head(s.events)
           sid == SIDOf(change.csn)
           snapshot == [s.snapshot EXCEPT ![sid] = change.csn]
           response == ChangeResponse(change, snapshot)
<1>1. UNCHANGED <<stored, clock, log, publishing>>
  BY DEF PersistChange
<1>2. TypeInv /\ TypeInv' /\ s \in Sessions /\ session = [m \in Links |-> session[m]] /\ PersistsByMode
  <2>1. TypeInv /\ TypeInv' /\ PersistsByMode
    BY DEF ContentInv, LogInv, PersistInv
  <2>. QED  BY <2>1, SessionRead
<1>3. /\ s.phase = "persist" /\ s.events # <<>>
      /\ session' = [session EXCEPT ![l] =
              IF Skipped(s, change)
              THEN [s EXCEPT !.events = Tail(s.events)]
              ELSE [s EXCEPT !.events = Tail(s.events), !.snapshot = snapshot, !.live[sid] = change.csn,
                             !.stream = Append(s.stream, response)]]
  BY ZenonT(40) DEF PersistChange
<1>4. PICK P, C, C2 : P = ProviderOf(l[1]) /\ C = ConsumerOf(l) /\ C2 = ConsumerOf(l)'
  OBVIOUS
<1>5. /\ P \in ProviderStates /\ C \in ConsumerStates /\ C2 \in ConsumerStates /\ Clocked(P) /\ LinkOK(P, C)
  BY <1>2, <1>3, <1>4, LinkBefore, LinkAfter
<1>6. C.s = s /\ C2.s = session'[l] /\ SameStore(C, C2)
  BY <1>1, <1>4 DEF ConsumerOf, SameStore, stored
<1>7. \A m \in Links : m # l => session'[m] = session[m]
  <2> HIDE DEF response, snapshot, change, sid
  <2>. QED  BY <1>2, <1>3
<1>8. C.s.mode = "refreshAndPersist"
  BY <1>2, <1>3, <1>6 DEF PersistsByMode
<1>9. C2.s.events = Tail(C.s.events) /\ C2.s.phase = "persist" /\ C2.s.overflow = C.s.overflow
      /\ C2.s.mode = C.s.mode /\ C2.s.seen = C.s.seen
  <2> HIDE DEF response, snapshot, change, sid, s
  <2>1. CASE Skipped(s, change)
    <3>1. C2.s = [s EXCEPT !.events = Tail(s.events)]
      BY <1>2, <1>3, <1>6, <2>1
    <3>. QED  BY <1>2, <1>3, <1>6, <3>1 DEF Sessions
  <2>2. CASE ~Skipped(s, change)
    <3>1. C2.s = [s EXCEPT !.events = Tail(s.events), !.snapshot = snapshot, !.live[sid] = change.csn,
                           !.stream = Append(s.stream, response)]
      BY <1>2, <1>3, <1>6, <2>2
    <3>. QED  BY <1>2, <1>3, <1>6, <3>1 DEF Sessions
  <2>. QED  BY <2>1, <2>2
<1>10. sid = P.sid /\ sid \in SIDs /\ change.csn \in Nat /\ s.snapshot[sid] \in Nat
  <2>1. C.s.events \in Seq(Changes) /\ C.s.events # <<>> /\ ChannelOrdered(P, C) /\ P.sid \in SIDs
    BY <1>3, <1>5, <1>6, ConsumerFields, ProviderFields DEF LinkOK
  <2>2. SIDOf(Head(C.s.events).csn) = P.sid /\ Head(C.s.events).csn \in Nat
    BY <1>9, <2>1, ChannelHead
  <2>3. C.s.snapshot[P.sid] \in Nat
    BY <1>5, <2>1, ConsumerFields
  <2>. QED  BY <1>6, <2>1, <2>2, <2>3
<1>11. CASE Skipped(s, change)
  <2>1. change.csn <= s.snapshot[sid]
    <3> HIDE DEF change, s
    <3>. QED  BY <1>10, <1>11 DEF Skipped
  <2>2. Head(C.s.events).csn <= C.s.snapshot[P.sid]
    BY <1>6, <1>10, <2>1
  <2> HIDE DEF response, snapshot, change, sid, s
  <2>3. C2.s = [s EXCEPT !.events = Tail(s.events)]
    BY <1>2, <1>3, <1>6, <1>11
  <2>4. C2.s.snapshot = C.s.snapshot /\ C2.s.stream = C.s.stream
    BY <1>2, <1>6, <2>3 DEF Sessions
  <2>5. C.s.phase = "persist" /\ C.s.events # <<>>
    BY <1>3, <1>6
  <2>6. LinkOK(P, C2)
    BY <1>5, <1>6, <1>9, <2>2, <2>4, <2>5, LinkSkip
  <2>. QED  BY <1>1, <1>4, <1>7, <2>6, OneSearch
<1>12. CASE ~Skipped(s, change)
  <2>1. ~(change.csn < s.snapshot[sid])
    <3> HIDE DEF change, s
    <3>. QED  BY <1>10, <1>12 DEF Skipped
  <2>2. ~(Head(C.s.events).csn < C.s.snapshot[P.sid])
    BY <1>6, <1>10, <2>1
  <2>3. snapshot = [C.s.snapshot EXCEPT ![P.sid] = Head(C.s.events).csn] /\ response = ChangeResponse(Head(C.s.events), snapshot)
    BY <1>6, <1>10
  <2> HIDE DEF response, snapshot, change, sid, s
  <2>4. C2.s = [s EXCEPT !.events = Tail(s.events), !.snapshot = snapshot, !.live[sid] = change.csn,
                         !.stream = Append(s.stream, response)]
    BY <1>2, <1>3, <1>6, <1>12
  <2>5. C2.s.snapshot = snapshot /\ C2.s.stream = Append(C.s.stream, response)
    BY <1>2, <1>6, <2>4 DEF Sessions
  <2>6. C2.s.stream = Append(C.s.stream, ChangeResponse(Head(C.s.events), C2.s.snapshot))
    BY <2>3, <2>5
  <2>7. C.s.phase = "persist" /\ C.s.events # <<>>
    BY <1>3, <1>6
  <2>8. C2.s.snapshot = [C.s.snapshot EXCEPT ![P.sid] = Head(C.s.events).csn]
    BY <2>3, <2>5
  <2>9. LinkOK(P, C2)
    BY <1>5, <1>6, <1>8, <1>9, <2>2, <2>6, <2>7, <2>8, LinkStream
  <2>. QED  BY <1>1, <1>4, <1>7, <2>9, OneSearch
<1>. QED  BY <1>11, <1>12

LEMMA PublishContent ==
    ASSUME NoRelays, OneWriter, ContentInv, LogInv', NEW a \in Clients \cup Links, Publish(a)
    PROVE  ContentInv'
<1> DEFINE n == NodeOf(a)
           change == Head(publishing[a])
<1>0. TypeInv /\ TypeInv' /\ NewestUnpublished
  BY DEF ContentInv, LogInv, PersistInv
<1>1. /\ publishing[a] \in Seq(Changes) /\ publishing[a] # <<>> /\ change \in Changes
      /\ Range(publishing[a]) = {change} \cup Range(Tail(publishing[a]))
  <2>1. publishing[a] \in Seq(Changes) /\ publishing[a] # <<>>
    BY <1>0 DEF TypeInv, Publish
  <2> DEFINE q == publishing[a]
  <2> HIDE DEF q
  <2>2. q \in Seq(Changes) /\ q # <<>>
    BY <2>1 DEF q
  <2>3. Head(q) \in Changes /\ Range(q) = {Head(q)} \cup Range(Tail(q))
    BY <2>2, RangeParts
  <2>. QED  BY <2>1, <2>3 DEF q
<1>2. /\ publishing' = [publishing EXCEPT ![a] = Tail(publishing[a])]
      /\ log' = [log EXCEPT ![n] = IF LogSize > 0 THEN LogAppend(log[n], change) ELSE log[n]]
      /\ session' = [l \in Links |->
              IF l[1] = n /\ Subscribed(l) THEN Offer(session[l], change) ELSE session[l]]
      /\ entries' = entries /\ tombstones' = tombstones /\ context' = context /\ clock' = clock /\ cookie' = cookie
  BY DEF Publish, stored
<1>3. /\ \A p \in Providers : SameProvider(p) /\ (p # n => log'[p] = log[p])
      /\ \A k \in Clients : k # a => publishing'[k] = publishing[k]
  <2> HIDE DEF change
  <2>1. \A p \in Providers : p # n => log'[p] = log[p]
    BY <1>0, <1>2, Topology DEF TypeInv, LogsOK
  <2>2. \A k \in Clients : k # a => publishing'[k] = publishing[k]
    BY <1>0, <1>2 DEF TypeInv
  <2>. QED  BY <1>2, <2>1, <2>2 DEF SameProvider
<1>4. a \in Clients => n = Home[a] /\ n \in Providers
  BY Topology DEF NodeOf
<1> HIDE DEF change
<1>5. ASSUME NEW l \in Links, l[1] # n PROVE LinkOK(ProviderOf(l[1]), ConsumerOf(l))'
  <2>1. l[1] \in Providers
    BY Topology
  <2>2. \A k \in Clients : Home[k] = l[1] => publishing'[k] = publishing[k]
    BY <1>3, <1>4, <1>5
  <2>3. ProviderOf(l[1])' = ProviderOf(l[1])
    BY <1>0, <1>3, <1>5, <2>1, <2>2, SameProviderOf
  <2>4. ConsumerOf(l)' = ConsumerOf(l)
    <3>1. session'[l] = session[l]
      BY <1>2, <1>5
    <3>. QED  BY <1>2, <3>1 DEF ConsumerOf
  <2>. QED  BY <2>3, <2>4, SameLink DEF ContentInv
<1>6. ASSUME NEW l \in Links, l[1] = n PROVE LinkOK(ProviderOf(l[1]), ConsumerOf(l))'
  <2>0. l[1] \in Providers /\ l[1] \in Nodes
    BY Topology
  <2>1. a \in Clients /\ n = Home[a]
    <3>1. a \in Clients
      BY <1>6, <2>0 DEF NodeOf, NoRelays
    <3>. QED  BY <1>4, <3>1
  <2>2. PICK P, P2, C, C2 : /\ P = ProviderOf(l[1]) /\ P2 = ProviderOf(l[1])'
                            /\ C = ConsumerOf(l) /\ C2 = ConsumerOf(l)'
    OBVIOUS
  <2>3. /\ P \in ProviderStates /\ C \in ConsumerStates /\ Clocked(P) /\ LinkOK(P, C)
        /\ P2 \in ProviderStates /\ C2 \in ConsumerStates
    BY <1>0, <2>2, LinkBefore, LinkAfter
  <2>4. C.s = session[l] /\ C2.s = session'[l] /\ SameStore(C, C2)
    BY <1>2, <2>2 DEF ConsumerOf, SameStore
  <2>5. /\ P2.held = P.held /\ P2.tombs = P.tombs /\ P2.top = P.top /\ P2.ceil = P.ceil /\ P2.sid = P.sid
        /\ P.log = log[n] /\ P2.log = log'[n] /\ P.unpub = Unpublished(n) /\ P2.unpub = Unpublished(n)'
    <3>1. SameProvider(l[1])
      BY <1>3, <2>0
    <3>. QED  BY <1>6, <2>2, <3>1 DEF ProviderOf, SameProvider, Ceiling
  <2>6. P.unpub = {change} /\ P2.unpub = {}
    <3>1. Unpublished(n) = Range(publishing[a]) /\ Unpublished(n)' = Range(publishing'[a])
      <4>1. ClientsPublish /\ ClientsPublish'
        BY <1>0, OnlyClientsPublish, OnlyClientsPublishNext
      <4>. QED  BY <2>1, <4>1 DEF ClientsPublish
    <3>2. publishing'[a] = Tail(publishing[a])
      BY <1>0, <1>2 DEF TypeInv
    <3>3. Tail(publishing[a]) = <<>>
      <4> DEFINE q == publishing[a]
      <4>1. q \in Seq(Changes) /\ q # <<>> /\ Len(q) = 1
        BY <1>0, <1>1, <2>1 DEF NewestUnpublished
      <4> HIDE DEF q
      <4>2. Tail(q) \in Seq(Changes) /\ Len(Tail(q)) = 0
        BY <4>1
      <4>3. Tail(q) = <<>>
        BY <4>2, EmptySeq
      <4>. QED  BY <4>3 DEF q
    <3>4. Range(<<>>) = {}
      BY DEF Range
    <3>. QED  BY <1>1, <2>5, <3>1, <3>2, <3>3, <3>4
  <2>7. P2.log = IF LogSize > 0 THEN LogAppend(P.log, change) ELSE P.log
    BY <1>0, <1>2, <1>6, <2>0, <2>5 DEF TypeInv, LogsOK
  <2>8. C.s \in Sessions /\ session'[l] = IF Subscribed(l) THEN Offer(C.s, change) ELSE C.s
    <3>1. session[l] \in Sessions
      BY <1>0, SessionRead
    <3>. QED  BY <1>2, <1>6, <2>4, <3>1
  <2>9. /\ C2.s.phase = C.s.phase /\ C2.s.mode = C.s.mode /\ C2.s.snapshot = C.s.snapshot /\ C2.s.view = C.s.view
        /\ C2.s.stream = C.s.stream /\ C2.s.seen = C.s.seen
        /\ \/ C2.s.events = Append(C.s.events, change) /\ ~C.s.overflow
           \/ /\ C2.s.events = C.s.events
              /\ C.s.phase \in {"reading", "persist"} /\ C.s.mode = "refreshAndPersist" => C2.s.overflow
    <3> DEFINE q == Append(C.s.events, change)
    <3>1. CASE Subscribed(l) /\ Len(C.s.events) < ChannelSize
      <4>1. C2.s = [C.s EXCEPT !.events = q] /\ ~C.s.overflow
        BY <2>4, <2>8, <3>1 DEF Offer, Subscribed
      <4> HIDE DEF q
      <4>2. /\ C2.s.phase = C.s.phase /\ C2.s.mode = C.s.mode /\ C2.s.snapshot = C.s.snapshot /\ C2.s.view = C.s.view
            /\ C2.s.stream = C.s.stream /\ C2.s.seen = C.s.seen /\ C2.s.events = q
        BY <2>8, <4>1 DEF Sessions
      <4>. QED  BY <4>1, <4>2 DEF q
    <3>2. CASE Subscribed(l) /\ ~(Len(C.s.events) < ChannelSize)
      <4>1. C2.s = [C.s EXCEPT !.overflow = TRUE]
        BY <2>4, <2>8, <3>2 DEF Offer
      <4>. QED  BY <2>8, <4>1 DEF Sessions
    <3>3. CASE ~Subscribed(l)
      <4>1. C2.s = C.s
        BY <2>4, <2>8, <3>3
      <4>2. C.s.phase \in {"reading", "persist"} /\ C.s.mode = "refreshAndPersist" => C.s.overflow
        BY <2>4, <3>3 DEF Subscribed
      <4>. QED  BY <4>1, <4>2
    <3>. QED  BY <3>1, <3>2, <3>3
  <2>10. LinkOK(P2, C2)
    BY <1>1, <2>3, <2>4, <2>5, <2>6, <2>7, <2>9, LinkPublish
  <2>. QED  BY <2>2, <2>10
<1>. QED  BY <1>5, <1>6 DEF ContentInv

LEMMA RestartContent ==
    ASSUME NoRelays, OneWriter, ContentInv, LogInv', NEW n \in Nodes, Restart(n)
    PROVE  ContentInv'
<1>1. TypeInv /\ TypeInv'
  BY DEF ContentInv, LogInv, PersistInv
<1>2. /\ entries' = entries /\ tombstones' = tombstones /\ context' = context /\ clock' = clock /\ cookie' = cookie
      /\ session' = [l \in Links |-> IF n \in {l[1], l[2]} THEN Closed(session[l].mode) ELSE session[l]]
      /\ publishing' = [a \in Clients \cup Links |-> IF NodeOf(a) = n THEN <<>> ELSE publishing[a]]
      /\ log' = [log EXCEPT ![n] = IF n \in Providers THEN EmptyLog(ContextCSNs(n)) ELSE log[n]]
  BY DEF Restart, stored
<1>3. \A p \in Providers : SameProvider(p)
  BY <1>2 DEF SameProvider
<1>4. \A k \in Clients : publishing'[k] = IF Home[k] = n THEN <<>> ELSE publishing[k]
  BY <1>2 DEF NodeOf
<1>5. ASSUME NEW l \in Links PROVE LinkOK(ProviderOf(l[1]), ConsumerOf(l))'
  <2>0. l[1] \in Providers /\ l[1] \in Nodes
    BY Topology
  <2>1. PICK P, P2, C, C2 : /\ P = ProviderOf(l[1]) /\ P2 = ProviderOf(l[1])'
                            /\ C = ConsumerOf(l) /\ C2 = ConsumerOf(l)'
    OBVIOUS
  <2>2. /\ P \in ProviderStates /\ C \in ConsumerStates /\ Clocked(P) /\ LinkOK(P, C)
        /\ P2 \in ProviderStates /\ C2 \in ConsumerStates
    BY <1>1, <2>1, LinkBefore, LinkAfter
  <2>3. C.s = session[l] /\ C2.s = session'[l] /\ SameStore(C, C2)
    BY <1>2, <2>1 DEF ConsumerOf, SameStore
  <2>4. n \in {l[1], l[2]} =>
           C2.s.phase = "idle" /\ C2.s.events = <<>> /\ C2.s.stream = <<>> /\ C2.s.seen = {}
    BY <1>2, <2>3 DEF Closed
  <2>5. CASE l[1] # n
    <3>1. P2 = P
      <4>1. log'[l[1]] = log[l[1]]
        BY <1>1, <1>2, <2>0, <2>5 DEF TypeInv, LogsOK
      <4>2. \A k \in Clients : Home[k] = l[1] => publishing'[k] = publishing[k]
        BY <1>4, <2>5
      <4>. QED  BY <1>1, <1>3, <2>0, <2>1, <4>1, <4>2, SameProviderOf
    <3>2. CASE n = l[2]
      <4>1. LinkOK(P, C2)
        BY <2>2, <2>3, <2>4, <3>2, LinkDrop
      <4>. QED  BY <2>1, <3>1, <4>1
    <3>3. CASE n # l[2]
      <4>1. session'[l] = session[l]
        BY <1>2, <2>5, <3>3
      <4>2. C2 = C
        BY <1>2, <2>1, <4>1 DEF ConsumerOf
      <4>. QED  BY <2>1, <2>2, <3>1, <4>2
    <3>. QED  BY <3>2, <3>3
  <2>6. CASE l[1] = n
    <3>1. /\ P2.held = P.held /\ P2.tombs = P.tombs /\ P2.top = P.top /\ P2.ceil = P.ceil /\ P2.sid = P.sid
          /\ P.held = entries[n] /\ P.top = context[n] /\ P2.log = log'[n] /\ P2.unpub = Unpublished(n)'
      <4>1. SameProvider(l[1])
        BY <1>3, <2>0
      <4>. QED  BY <2>1, <2>6, <4>1 DEF ProviderOf, SameProvider, Ceiling
    <3>2. ContextCSNs(n) = context[n]
      <4>1. \A u \in UUIDs : CSNBelow(entries[n][u].csn, context[n])
        BY <2>2, <3>1 DEF LinkOK, ServerBehind
      <4>2. entries[n] \in [UUIDs -> Entries] /\ context[n] \in CSNState
        BY <1>1 DEF TypeInv, StoredOK
      <4>. QED  BY <4>1, <4>2, ContextIsStored
    <3>3. P2.log = EmptyLog(P.top)
      <4>1. log'[n] = EmptyLog(ContextCSNs(n))
        BY <1>1, <1>2, <2>0, <2>6 DEF TypeInv, LogsOK
      <4>. QED  BY <3>1, <3>2, <4>1
    <3>4. P2.unpub = {}
      <4>1. ClientsPublish' /\ n \in Providers
        BY <1>1, <2>0, <2>6, OnlyClientsPublishNext
      <4>2. Range(<<>>) = {}
        BY DEF Range
      <4>3. CASE \E k \in Clients : Home[k] = n
        BY <1>4, <3>1, <4>1, <4>2, <4>3 DEF ClientsPublish
      <4>4. CASE \A k \in Clients : Home[k] # n
        BY <3>1, <4>1, <4>4 DEF ClientsPublish
      <4>. QED  BY <4>3, <4>4
    <3>5. LinkOK(P2, C2)
      BY <2>2, <2>3, <2>4, <2>6, <3>1, <3>3, <3>4, LinkRestart
    <3>. QED  BY <2>1, <3>5
  <2>. QED  BY <2>5, <2>6
<1>. QED  BY <1>5 DEF ContentInv

LEMMA CommitContent ==
    ASSUME NoRelays, OneWriter, ContentInv, LogInv',
           NEW k \in Clients, NEW u \in UUIDs, NEW after \in {"none", "in", "out"}, CommitWrite(k, u, after)
    PROVE  ContentInv'
<1>0. TypeInv /\ TypeInv' /\ PersistInv
  BY DEF ContentInv, LogInv, PersistInv
<1>1. PICK n, csn, top : Committed(k, u, after, n, csn, top)
  BY <1>0, CommitFacts
<1>2. /\ n = Home[k] /\ n \in Nodes /\ n \in Providers /\ clock[n] \in Nat /\ csn \in Nat
      /\ csn = CSN(clock[n] + 1, ServerID[n])
      /\ context \in [Nodes -> CSNState]
      /\ publishing' = [publishing EXCEPT ![k] = <<Change(u, entries[n][u].visibility, after, csn)>>]
      /\ publishing[k] = <<>> /\ session' = session /\ log' = log
      /\ \A m \in Nodes : m # n => SameProvider(m)
  BY <1>1 DEF Committed
<1>3. SIDOf(csn) = ServerID[n]
  <2>1. clock[n] + 1 \in Nat /\ ServerID[n] \in SIDs
    BY <1>2, Topology
  <2>. QED  BY <1>2, <2>1, CSNFacts
<1>4. context'[n] = Advance(context[n], csn) /\ cookie' = cookie
  <2>1. context' = [context EXCEPT ![n] = Advance(context[n], csn)] /\ cookie' = cookie
    BY <1>2, Zenon DEF CommitWrite
  <2>. QED  BY <1>2, <2>1
<1>5. /\ Ceiling(n) <= csn /\ csn < Ceiling(n)'
  <2>1. clock'[n] = clock[n] + 1 /\ csn < (clock[n] + 2) * Radix /\ top <= csn /\ top = (clock[n] + 1) * Radix
    BY <1>1 DEF Committed
  <2>2. clock'[n] + 1 = clock[n] + 2
    BY <1>2, <2>1
  <2>. QED  BY <2>1, <2>2 DEF Ceiling
<1>6. ASSUME NEW j \in Clients, j # k PROVE publishing'[j] = publishing[j] /\ Home[j] # n
  <2>1. Home[j] # n
    BY <1>2, <1>6 DEF OneWriter
  <2> DEFINE v == <<Change(u, entries[n][u].visibility, after, csn)>>
  <2> HIDE DEF v
  <2>2. publishing' = [publishing EXCEPT ![k] = v]
    BY <1>2 DEF v
  <2>. QED  BY <1>0, <1>6, <2>1, <2>2 DEF TypeInv
<1>7. ASSUME NEW l \in Links PROVE ConsumerOf(l)' = ConsumerOf(l)
  <2>1. l[2] \in Nodes /\ l[2] # n
    BY <1>2, Topology DEF NoRelays
  <2>2. SameProvider(l[2])
    BY <1>2, <2>1
  <2>. QED  BY <1>2, <1>4, <2>2 DEF ConsumerOf, SameProvider
<1>8. ASSUME NEW l \in Links, l[1] # n PROVE LinkOK(ProviderOf(l[1]), ConsumerOf(l))'
  <2>1. l[1] \in Providers /\ l[1] \in Nodes
    BY Topology
  <2>2. SameProvider(l[1]) /\ log'[l[1]] = log[l[1]]
    BY <1>2, <1>8, <2>1
  <2>3. \A j \in Clients : Home[j] = l[1] => publishing'[j] = publishing[j]
    BY <1>2, <1>6, <1>8
  <2>4. ProviderOf(l[1])' = ProviderOf(l[1])
    BY <1>0, <2>1, <2>2, <2>3, SameProviderOf
  <2>. QED  BY <1>7, <2>4, SameLink DEF ContentInv
<1>9. ASSUME NEW l \in Links, l[1] = n PROVE LinkOK(ProviderOf(l[1]), ConsumerOf(l))'
  <2>1. PICK P, P2, C : P = ProviderOf(l[1]) /\ P2 = ProviderOf(l[1])' /\ C = ConsumerOf(l)
    OBVIOUS
  <2>2. /\ P \in ProviderStates /\ C \in ConsumerStates /\ Clocked(P) /\ LinkOK(P, C) /\ P2 \in ProviderStates
        /\ session[l].phase = "reading" => session[l].view \in [UUIDs -> Entries]
    BY <1>0, <2>1, LinkBefore, LinkAfter
  <2>3. /\ P.held = entries[n] /\ P.tombs = tombstones[n] /\ P.top = context[n] /\ P.ceil = Ceiling(n)
        /\ P.log = log[n] /\ P.unpub = Unpublished(n) /\ P.sid = ServerID[n] /\ C.s = session[l]
        /\ P2.held = entries'[n] /\ P2.tombs = tombstones'[n] /\ P2.top = context'[n] /\ P2.ceil = Ceiling(n)'
        /\ P2.log = log'[n] /\ P2.unpub = Unpublished(n)' /\ P2.sid = ServerID[n]
    BY <1>9, <2>1 DEF ProviderOf, ConsumerOf
  <2>4. P.unpub = {} /\ P2.unpub = {Change(u, P.held[u].visibility, after, csn)}
    <3> DEFINE change == Change(u, entries[n][u].visibility, after, csn)
    <3>1. Unpublished(n) = Range(publishing[k]) /\ Unpublished(n)' = Range(publishing'[k])
      <4>1. ClientsPublish /\ ClientsPublish'
        BY <1>0, OnlyClientsPublish, OnlyClientsPublishNext
      <4>. QED  BY <1>2, <4>1 DEF ClientsPublish
    <3>2. publishing' = [publishing EXCEPT ![k] = <<change>>]
      BY <1>2
    <3> HIDE DEF change
    <3>3. publishing'[k] = <<change>>
      BY <1>0, <3>2 DEF TypeInv
    <3>4. Range(<<>>) = {} /\ Range(<<change>>) = {change}
      BY DEF Range
    <3>5. P.unpub = {} /\ P2.unpub = {change}
      BY <1>2, <2>3, <3>1, <3>3, <3>4
    <3>. QED  BY <2>3, <3>5 DEF change
  <2>5. /\ after = "none" => P2.held[u] = Absent /\ P2.tombs[u] = csn
        /\ after # "none" => P2.held[u] = [visibility |-> after, csn |-> csn]
        /\ \A v \in UUIDs : v # u => P2.held[v] = P.held[v] /\ P2.tombs[v] = P.tombs[v]
    BY <1>1, <2>3 DEF Committed
  <2>6. /\ P.ceil <= csn /\ csn < P2.ceil /\ SIDOf(csn) = P.sid /\ P2.sid = P.sid /\ P2.log = P.log
        /\ P2.top = Advance(P.top, csn) /\ (C.s.phase = "reading" => C.s.view \in [UUIDs -> Entries])
    BY <1>2, <1>3, <1>4, <1>5, <2>2, <2>3
  <2>7. LinkOK(P2, C)
    BY <1>2, <2>2, <2>4, <2>5, <2>6, LinkCommit, SMTT(30)
  <2>8. ConsumerOf(l)' = C
    BY <1>7, <2>1
  <2>. QED  BY <2>1, <2>7, <2>8
<1>. QED  BY <1>8, <1>9 DEF ContentInv

-----------------------------------------------------------------------------
(* The worker of a consumer.                                               *)

\* An entry comes with its own UUID alone.
OneEntry(r) == r.kind = "entry" => \E u : r.uuids = {u}
OneByOne(q) == \A k \in 1..Len(q) : OneEntry(q[k])
EntriesOneByOne == \A l \in Links : OneByOne(session[l].stream)

LEMMA OneByOneKept ==
    ASSUME NEW q \in Seq(Responses), OneByOne(q)
    PROVE  /\ q # <<>> => OneByOne(Tail(q))
           /\ OneByOne(<<>>)
           /\ \A r \in Responses : OneEntry(r) => OneByOne(Append(q, r))
<1>1. ASSUME q # <<>> PROVE OneByOne(Tail(q))
  <2>1. \A k \in 1..Len(Tail(q)) : k + 1 \in 1..Len(q) /\ Tail(q)[k] = q[k + 1]
    BY <1>1
  <2>. QED  BY <2>1 DEF OneByOne
<1>2. OneByOne(<<>>)
  BY DEF OneByOne
<1>3. ASSUME NEW r \in Responses, OneEntry(r) PROVE OneByOne(Append(q, r))
  <2>1. \A k \in 1..Len(Append(q, r)) : (k \in 1..Len(q) /\ Append(q, r)[k] = q[k]) \/ Append(q, r)[k] = r
    BY AppendFacts
  <2>. QED  BY <1>3, <2>1 DEF OneByOne
<1>. QED  BY <1>1, <1>2, <1>3

LEMMA RefreshOneByOne ==
    ASSUME TypeInv, NEW l \in Links, Refresh(l)
    PROVE  OneByOne(session'[l].stream) /\ \A m \in Links : m # l => session'[m] = session[m]
<1> DEFINE s == session[l]
           known == ComparableCookie(cookie[l], s.snapshot)
           replays == known # NoState /\ Usable(log[l[1]], known, s.snapshot)
           from == IF known # NoState /\ ~replays /\ ~CookieStateExists(s.view, known) THEN NoState ELSE known
           replay == IF replays THEN Replayed(log[l[1]], known, s.snapshot) ELSE {}
           failure == SnapshotFailure(cookie[l], s.snapshot)
           phase == IF failure \/ s.mode = "refreshOnly" THEN "ended" ELSE "persist"
           answer == RefreshResponses(s.view, from, s.snapshot, replay, replays)
           stream == IF failure THEN <<Failed>> ELSE answer
<1>1. /\ s \in Sessions /\ session = [m \in Links |-> session[m]]
      /\ s.view \in [UUIDs -> Entries] /\ s.snapshot \in CSNState
  BY SessionRead DEF Refresh, SessionOK
<1>2. known \in CSNState /\ from \in CSNState /\ replays \in BOOLEAN
  BY <1>1, ComparableTyped, VectorsTyped DEF TypeInv, StoredOK, Usable
<1>3. replay \in SUBSET Changes /\ IsFiniteSet(replay)
  <2>1. log[l[1]].changes \in Seq(Changes)
    BY Topology DEF TypeInv, LogsOK, SessionLogs
  <2>2. IsFiniteSet(Range(log[l[1]].changes)) /\ Range(log[l[1]].changes) \in SUBSET Changes
    BY <2>1, FiniteRange
  <2>3. Replayed(log[l[1]], known, s.snapshot) \in SUBSET Range(log[l[1]].changes)
    BY DEF Replayed
  <2>4. IsFiniteSet(Replayed(log[l[1]], known, s.snapshot))
    BY <2>2, <2>3, FS_Subset
  <2>. QED  BY <2>2, <2>3, <2>4, FS_EmptySet
<1>4. session' = [session EXCEPT ![l].phase = phase, ![l].view = <<>>, ![l].stream = stream]
  BY ZenonT(40) DEF Refresh
<1>5. OneByOne(answer)
  <2> HIDE DEF known, replays, from, replay, s
  <2>1. RefreshSequence(answer, s.view, from, s.snapshot, replay, replays)
    BY <1>1, <1>2, <1>3, RefreshFacts
  <2> HIDE DEF answer
  <2>2. ASSUME NEW k \in 1..Len(answer) PROVE OneEntry(answer[k])
    <3>1. /\ Len(answer) \in Nat /\ answer[Len(answer)].kind = "refreshDone"
          /\ \A j \in 1..(Len(answer) - 1) : \/ IsPresent(answer[j], s.view) \/ IsEntry(answer[j], s.view)
                                             \/ IsDelete(answer[j], s.view, from, replay)
      BY <2>1 DEF RefreshSequence
    <3>2. CASE k = Len(answer)
      BY <3>1, <3>2 DEF OneEntry
    <3>3. CASE k \in 1..(Len(answer) - 1)
      BY <3>1, <3>3, Zenon DEF OneEntry, IsPresent, IsEntry, IsDelete
    <3>. QED  BY <3>1, <3>2, <3>3
  <2>. QED  BY <2>2 DEF OneByOne
<1>6. OneByOne(<<Failed>>)
  BY FailedFields DEF OneByOne, OneEntry
<1>7. OneByOne(stream)
  <2> HIDE DEF answer, failure
  <2>. QED  BY <1>5, <1>6
<1> HIDE DEF stream, phase
<1>8. session'[l].stream = stream /\ \A m \in Links : m # l => session'[m] = session[m]
  <2>1. session'[l] = [s EXCEPT !.phase = phase, !.view = <<>>, !.stream = stream]
    BY <1>1, <1>4
  <2>2. \A m \in Links : m # l => session'[m] = session[m]
    BY <1>1, <1>4
  <2> HIDE DEF s
  <2>. QED  BY <1>1, <2>1, <2>2 DEF Sessions
<1>. QED  BY <1>7, <1>8

LEMMA ChangeOneByOne ==
    ASSUME TypeInv, NEW l \in Links, PersistChange(l), OneByOne(session[l].stream)
    PROVE  OneByOne(session'[l].stream) /\ \A m \in Links : m # l => session'[m] = session[m]
<1> DEFINE s == session[l]
           change == Head(s.events)
           sid == SIDOf(change.csn)
           snapshot == [s.snapshot EXCEPT ![sid] = change.csn]
           response == ChangeResponse(change, snapshot)
<1>1. s \in Sessions /\ session = [m \in Links |-> session[m]]
  BY SessionRead
<1>2. /\ s.events # <<>>
      /\ session' = [session EXCEPT ![l] =
              IF Skipped(s, change)
              THEN [s EXCEPT !.events = Tail(s.events)]
              ELSE [s EXCEPT !.events = Tail(s.events), !.snapshot = snapshot, !.live[sid] = change.csn,
                             !.stream = Append(s.stream, response)]]
  BY ZenonT(40) DEF PersistChange
<1>3. response \in Responses /\ OneEntry(response)
  <2>1. change \in Changes /\ change.csn \in Nat
    <3>1. s.events \in Seq(Changes)
      BY <1>1 DEF Sessions
    <3> DEFINE q == s.events
    <3> HIDE DEF q
    <3>2. q \in Seq(Changes) /\ q # <<>>
      BY <1>2, <3>1 DEF q
    <3>3. Head(q) \in Changes
      BY <3>2
    <3>4. Head(q).csn \in Nat
      BY <3>3 DEF Changes
    <3>. QED  BY <3>3, <3>4 DEF q
  <2>2. snapshot \in CSNState
    BY <1>1, <2>1 DEF Sessions, CSNState
  <2> HIDE DEF change, snapshot
  <2>3. response \in Responses
    BY <2>1, <2>2, ChangeResponseTyped
  <2>4. OneEntry(response)
    BY DEF ChangeResponse, Response, OneEntry
  <2>. QED  BY <2>3, <2>4
<1> HIDE DEF change, sid, snapshot, response
<1>4. \A m \in Links : m # l => session'[m] = session[m]
  BY <1>1, <1>2
<1>5. session'[l].stream \in {s.stream, Append(s.stream, response)}
  <2>1. CASE Skipped(s, change)
    <3>1. session'[l] = [s EXCEPT !.events = Tail(s.events)]
      BY <1>1, <1>2, <2>1
    <3> HIDE DEF s
    <3>. QED  BY <1>1, <3>1 DEF Sessions
  <2>2. CASE ~Skipped(s, change)
    <3>1. session'[l] = [s EXCEPT !.events = Tail(s.events), !.snapshot = snapshot, !.live[sid] = change.csn,
                           !.stream = Append(s.stream, response)]
      BY <1>1, <1>2, <2>2
    <3> HIDE DEF s
    <3>. QED  BY <1>1, <3>1 DEF Sessions
  <2>. QED  BY <2>1, <2>2
<1>6. s.stream \in Seq(Responses)
  BY <1>1 DEF Sessions
<1>7. OneByOne(Append(s.stream, response))
  BY <1>3, <1>6, OneByOneKept
<1>. QED  BY <1>4, <1>5, <1>7

LEMMA WorkerOneByOne ==
    ASSUME TypeInv, NEW l \in Links, Worker(l), OneByOne(session[l].stream)
    PROVE  OneByOne(session'[l].stream) /\ \A m \in Links : m # l => session'[m] = session[m]
<1> DEFINE m == Head(session[l].stream)
           old == session[l]
           noted == [old EXCEPT !.seen = old.seen \cup m.uuids]
           closing == [Closed(old.mode) EXCEPT !.stream = old.stream]
<1>1. old \in Sessions /\ old.stream \in Seq(Responses) /\ session = [x \in Links |-> session[x]]
  BY SessionRead
<1>2. CASE SearchFailed(l)
  <2>1. session' = [session EXCEPT ![l] = Closed(old.mode)]
    BY <1>2 DEF SearchFailed
  <2>2. session'[l].stream = <<>> /\ \A x \in Links : x # l => session'[x] = session[x]
    BY <1>1, <2>1 DEF Closed
  <2>. QED  BY <1>1, <2>2, OneByOneKept
<1>3. CASE ~SearchFailed(l)
  <2>1. old.stream # <<>>
    BY <1>3, Zenon DEF Worker, Reads, ApplyEntry, ApplyDelete, ApplyPresent, ApplyNewCookie, FinishRefresh
  <2>2. \E ck, recorded, contextOnly, worker :
           /\ Finish(l, ck, recorded, contextOnly, worker)
           /\ worker \in {old, noted, closing}
    BY <1>3, Zenon DEF Worker, ApplyEntry, ApplyDelete, ApplyPresent, ApplyNewCookie, FinishRefresh
  <2>3. PICK ck, recorded, contextOnly, worker :
           /\ Finish(l, ck, recorded, contextOnly, worker)
           /\ worker \in {old, noted, closing}
    BY <2>2
  <2>4. worker.stream = old.stream /\ DOMAIN worker = DOMAIN old
    <3> HIDE DEF m
    <3>1. noted.stream = old.stream /\ DOMAIN noted = DOMAIN old
      <4> DEFINE S == old.seen \cup m.uuids
      <4> HIDE DEF S, old
      <4>1. [old EXCEPT !.seen = S].stream = old.stream /\ DOMAIN [old EXCEPT !.seen = S] = DOMAIN old
        BY <1>1 DEF Sessions
      <4>. QED  BY <4>1 DEF S
    <3>2. closing.stream = old.stream /\ DOMAIN closing = DOMAIN old
      <4> HIDE DEF old
      <4>. QED  BY <1>1 DEF Closed, Sessions
    <3> HIDE DEF noted, closing, old
    <3>. QED  BY <2>3, <3>1, <3>2
  <2>5. session' = [session EXCEPT ![l] = [worker EXCEPT !.stream = Tail(worker.stream)]]
    BY <2>3 DEF Finish
  <2> DEFINE rest == Tail(old.stream)
  <2>6. session'[l].stream = rest /\ \A x \in Links : x # l => session'[x] = session[x]
    <3>1. session' = [session EXCEPT ![l] = [worker EXCEPT !.stream = rest]]
      BY <2>4, <2>5
    <3>2. DOMAIN worker = {"phase", "mode", "events", "overflow", "snapshot", "view", "live", "stream", "seen"}
      BY <1>1, <2>4 DEF Sessions
    <3> HIDE DEF rest
    <3>. QED  BY <1>1, <3>1, <3>2
  <2>7. OneByOne(rest)
    BY <1>1, <2>1, OneByOneKept
  <2>. QED  BY <2>6, <2>7
<1>. QED  BY <1>2, <1>3

LEMMA NextOneByOne ==
    ASSUME TypeInv, EntriesOneByOne, [Next]_vars
    PROVE  EntriesOneByOne'
<1>0. ASSUME NEW l \in Links
      PROVE  /\ session[l] \in Sessions /\ session[l].stream \in Seq(Responses) /\ OneByOne(session[l].stream)
             /\ OneByOne(<<>>) /\ OneByOne(Append(session[l].stream, Failed))
  <2>1. session[l] \in Sessions /\ session[l].stream \in Seq(Responses) /\ OneByOne(session[l].stream)
    BY SessionRead DEF EntriesOneByOne
  <2>2. OneEntry(Failed) /\ Failed \in Responses
    BY FailedFields DEF OneEntry
  <2>. QED  BY <2>1, <2>2, OneByOneKept
<1>1. session = [m \in Links |-> session[m]]
  BY DEF TypeInv, SessionsOK
<1>2. ASSUME NEW k \in Clients, Add(k) \/ Modify(k) \/ Delete(k) PROVE EntriesOneByOne'
  <2>1. session' = session
    BY <1>2, Zenon DEF Add, Modify, Delete, CommitWrite
  <2>. QED  BY <2>1 DEF EntriesOneByOne
<1>3. ASSUME NEW a \in Clients \cup Links, Publish(a) PROVE EntriesOneByOne'
  <2>1. ASSUME NEW l \in Links PROVE session'[l].stream = session[l].stream
    <3> DEFINE change == Head(publishing[a])
    <3>1. session'[l] \in {Offer(session[l], change), session[l]}
      BY <1>3 DEF Publish
    <3> HIDE DEF change
    <3>2. Offer(session[l], change).stream = session[l].stream
      <4> DEFINE s == session[l]
                 q == Append(s.events, change)
      <4>1. Offer(s, change) \in {[s EXCEPT !.events = q], [s EXCEPT !.overflow = TRUE]}
        BY DEF Offer
      <4> HIDE DEF s, q
      <4>2. s \in Sessions
        BY <1>0 DEF s
      <4>. QED  BY <4>1, <4>2 DEF Sessions, s
    <3>. QED  BY <3>1, <3>2
  <2>. QED  BY <1>0, <2>1 DEF EntriesOneByOne
<1>4. ASSUME NEW l \in Links, OneByOne(session'[l].stream), \A m \in Links : m # l => session'[m] = session[m]
      PROVE  EntriesOneByOne'
  BY <1>0, <1>4 DEF EntriesOneByOne
<1>5. ASSUME NEW l \in Links, Refresh(l) \/ PersistChange(l) \/ Worker(l) PROVE EntriesOneByOne'
  BY <1>0, <1>4, <1>5, RefreshOneByOne, ChangeOneByOne, WorkerOneByOne
<1>6. ASSUME NEW l \in Links, Connect(l) \/ CaptureSnapshot(l) \/ PersistOverflow(l) \/ Disconnect(l)
      PROVE  EntriesOneByOne'
  <2>1. \A m \in Links : m # l => session'[m] = session[m]
    BY <1>1, <1>6 DEF Connect, CaptureSnapshot, PersistOverflow, Disconnect
  <2>2. session[l] \in Sessions
    BY <1>0
  <2>3. session'[l].stream \in {session[l].stream, Append(session[l].stream, Failed), <<>>}
    <3>1. CASE Connect(l)
      BY <1>1, <2>2, <3>1 DEF Connect, Sessions
    <3>2. CASE CaptureSnapshot(l)
      <4> DEFINE top == ContextCSNs(l[1])
      <4>1. session' = [session EXCEPT ![l].phase = "reading", ![l].view = entries[l[1]], ![l].snapshot = top]
        BY <3>2 DEF CaptureSnapshot
      <4> HIDE DEF top
      <4>. QED  BY <1>1, <2>2, <4>1 DEF Sessions
    <3>3. CASE PersistOverflow(l)
      BY <1>1, <2>2, <3>3 DEF PersistOverflow, Sessions
    <3>4. CASE Disconnect(l)
      BY <1>1, <2>2, <3>4 DEF Disconnect, Closed
    <3>. QED  BY <1>6, <3>1, <3>2, <3>3, <3>4
  <2>4. OneByOne(session'[l].stream)
    BY <1>0, <2>3
  <2>. QED  BY <1>4, <2>1, <2>4
<1>7. ASSUME NEW n \in Nodes, Restart(n) PROVE EntriesOneByOne'
  <2>1. \A l \in Links : session'[l].stream \in {<<>>, session[l].stream}
    BY <1>7 DEF Restart, Closed
  <2>. QED  BY <1>0, <2>1 DEF EntriesOneByOne
<1>8. CASE UNCHANGED vars
  BY <1>8 DEF vars, EntriesOneByOne
<1>. QED  BY <1>2, <1>3, <1>5, <1>6, <1>7, <1>8 DEF Next

\* A worker's transaction, and the end of the search that a refreshOnly one is.
LEMMA FinishContent ==
    ASSUME NoRelays, OneWriter, SingleSource, ContentInv, LogInv', NEW l \in Links,
           publishing[l] = <<>>, session[l].stream # <<>>,
           NEW recorded, NEW contextOnly, NEW worker \in Sessions,
           Finish(l, Head(session[l].stream).cookie, recorded, contextOnly, worker),
           worker.stream = session[l].stream,
           \/ /\ worker.seen = Told(session[l].seen, session[l].stream)
              /\ worker.phase = session[l].phase /\ worker.mode = session[l].mode
              /\ worker.events = session[l].events /\ worker.overflow = session[l].overflow
              /\ worker.snapshot = session[l].snapshot
           \/ /\ worker.phase = "idle" /\ worker.events = <<>> /\ worker.seen = {}
              /\ session[l].mode = "refreshOnly" /\ Head(session[l].stream).kind = "refreshDone",
           \A n \in Nodes : n # l[2] => entries'[n] = entries[n] /\ tombstones'[n] = tombstones[n],
           \A u \in UUIDs : StoreStep(cookie[l], session[l].seen, Head(session[l].stream), u,
                                      entries[l[2]][u].csn, tombstones[l[2]][u],
                                      entries'[l[2]][u].csn, tombstones'[l[2]][u])
    PROVE  ContentInv'
<1> DEFINE old == session[l]
           q == session[l].stream
           n == l[2]
<1>0. TypeInv /\ TypeInv' /\ n \notin Providers /\ n \in Nodes
  BY Topology DEF ContentInv, LogInv, PersistInv, NoRelays
<1>1. /\ old \in Sessions /\ q \in Seq(Responses) /\ session = [x \in Links |-> session[x]]
      /\ Head(q) = q[1] /\ q[1].cookie \in CSNState
  <2>1. old \in Sessions /\ q \in Seq(Responses) /\ session = [x \in Links |-> session[x]]
    BY <1>0, SessionRead
  <2>2. Head(q).cookie \in CSNState
    BY <1>0, HeadTyped
  <2>3. Head(q) = q[1]
    BY <2>1
  <2>. QED  BY <2>1, <2>2, <2>3
<1>2. publishing' = publishing
  <2>1. publishing' = [publishing EXCEPT ![l] = <<>>]
    BY <1>0 DEF Finish
  <2>. QED  BY <1>0, <2>1 DEF TypeInv
<1>3. /\ \E c : context' = [context EXCEPT ![n] = c]
      /\ clock' = clock /\ log' = log
      /\ cookie' = [cookie EXCEPT ![l] = Merge(cookie[l], Head(q).cookie)]
      /\ session' = [session EXCEPT ![l] = [worker EXCEPT !.stream = Tail(worker.stream)]]
  BY Zenon DEF Finish
<1>4. ASSUME NEW x \in Links PROVE ProviderOf(x[1])' = ProviderOf(x[1])
  <2>1. x[1] \in Providers /\ x[1] \in Nodes /\ x[1] # n
    BY <1>0, Topology
  <2>2. context'[x[1]] = context[x[1]]
    BY <1>0, <1>3, <2>1 DEF TypeInv, StoredOK
  <2>3. SameProvider(x[1])
    BY <1>3, <2>1, <2>2 DEF SameProvider
  <2>. QED  BY <1>0, <1>2, <1>3, <2>1, <2>3, SameProviderOf
<1> HIDE DEF q
<1>5. ASSUME NEW x \in Links, x # l PROVE LinkOK(ProviderOf(x[1]), ConsumerOf(x))'
  <2>1. x[2] # n /\ x[2] \in Nodes
    BY <1>5, Topology DEF SingleSource
  <2>2. cookie'[x] = cookie[x]
    BY <1>0, <1>3, <1>5 DEF TypeInv, StoredOK
  <2>3. session'[x] = session[x]
    BY <1>1, <1>3, <1>5
  <2>4. ConsumerOf(x)' = ConsumerOf(x)
    BY <2>1, <2>2, <2>3 DEF ConsumerOf
  <2>. QED  BY <1>4, <2>4, SameLink DEF ContentInv
<1>6. LinkOK(ProviderOf(l[1]), ConsumerOf(l))'
  <2>1. PICK P, C, C2 : P = ProviderOf(l[1]) /\ C = ConsumerOf(l) /\ C2 = ConsumerOf(l)'
    OBVIOUS
  <2>2. /\ P \in ProviderStates /\ C \in ConsumerStates /\ C2 \in ConsumerStates /\ Clocked(P) /\ LinkOK(P, C)
    BY <1>0, <2>1, LinkBefore, LinkAfter
  <2>3. /\ C.s = old /\ C.ck = cookie[l] /\ C.held = entries[n] /\ C.tombs = tombstones[n]
        /\ C2.s = session'[l] /\ C2.ck = cookie'[l] /\ C2.held = entries'[n] /\ C2.tombs = tombstones'[n]
    BY <2>1 DEF ConsumerOf
  <2>4. C2.ck = Merge(C.ck, C.s.stream[1].cookie)
    BY <1>0, <1>1, <1>3, <2>3 DEF TypeInv, StoredOK, q
  <2>5. \A u \in UUIDs : StoreStep(C.ck, C.s.seen, C.s.stream[1], u, C.held[u].csn, C.tombs[u],
                                   C2.held[u].csn, C2.tombs[u])
    BY <1>1, <2>3 DEF q
  <2> DEFINE rest == Tail(q)
  <2>6. rest \in Seq(Responses)
    BY <1>1 DEF q
  <2> HIDE DEF rest
  <2>7. C2.s = [worker EXCEPT !.stream = rest]
    BY <1>1, <1>3, <2>3 DEF q, rest
  <2>8. /\ C2.s.stream = rest /\ C2.s.seen = worker.seen /\ C2.s.phase = worker.phase /\ C2.s.mode = worker.mode
        /\ C2.s.events = worker.events /\ C2.s.overflow = worker.overflow /\ C2.s.snapshot = worker.snapshot
    BY <2>7 DEF Sessions
  <2>9. C.s.stream # <<>> /\ rest = Tail(C.s.stream)
    BY <2>3 DEF q, rest
  <2>10. CASE /\ worker.seen = Told(session[l].seen, session[l].stream)
              /\ worker.phase = session[l].phase /\ worker.mode = session[l].mode
              /\ worker.events = session[l].events /\ worker.overflow = session[l].overflow
              /\ worker.snapshot = session[l].snapshot
    <3>1. /\ C2.s.stream = Tail(C.s.stream) /\ C2.s.seen = Told(C.s.seen, C.s.stream)
          /\ C2.s.phase = C.s.phase /\ C2.s.events = C.s.events /\ C2.s.overflow = C.s.overflow
          /\ C2.s.mode = C.s.mode /\ C2.s.snapshot = C.s.snapshot
      BY <2>3, <2>8, <2>9, <2>10
    <3>2. LinkOK(P, C2)
      BY <2>2, <2>4, <2>5, <2>9, <3>1, LinkWorker
    <3>. QED  BY <1>4, <2>1, <3>2
  <2>11. CASE /\ worker.phase = "idle" /\ worker.events = <<>> /\ worker.seen = {}
              /\ session[l].mode = "refreshOnly" /\ Head(session[l].stream).kind = "refreshDone"
    <3>1. rest = <<>>
      <4>1. \A k \in 1..Len(q) : q[k].kind = "refreshDone" => k = Len(q)
        BY <2>2, <2>3, <2>11 DEF LinkOK, SearchShape, q
      <4>2. q # <<>> /\ q[1].kind = "refreshDone"
        BY <1>1, <2>11 DEF q
      <4>3. Len(q) = 1
        <5>1. q \in Seq(Responses) /\ q # <<>>
          BY <1>1, <4>2
        <5>2. Len(q) \in Nat /\ Len(q) >= 1
          BY <5>1, EmptySeq
        <5>3. 1 \in 1..Len(q)
          BY <5>2
        <5>. QED  BY <4>1, <4>2, <5>3
      <4>4. Len(rest) = 0
        BY <1>1, <4>2, <4>3 DEF rest
      <4>. QED  BY <2>6, <4>4, EmptySeq
    <3> DEFINE told == Told(C.s.seen, C.s.stream)
    <3>2. told \in SUBSET UUIDs
      <4>1. C.s.seen \in SUBSET UUIDs /\ C.s.stream[1].uuids \in SUBSET UUIDs
        <5>1. C.s.seen \in SUBSET UUIDs
          BY <2>2, ConsumerFields
        <5>2. q[1] \in Responses
          BY <1>1, <2>9, <2>3 DEF q
        <5>. QED  BY <2>3, <5>1, <5>2 DEF q, Responses
      <4>. QED  BY <4>1 DEF Told
    <3> HIDE DEF told
    <3> DEFINE s1 == [old EXCEPT !.seen = told, !.stream = rest]
               C1 == [s |-> s1, ck |-> C2.ck, held |-> C2.held, tombs |-> C2.tombs]
    <3>3. /\ s1 \in Sessions /\ s1.stream = rest /\ s1.seen = told /\ s1.phase = old.phase /\ s1.mode = old.mode
          /\ s1.events = old.events /\ s1.overflow = old.overflow /\ s1.snapshot = old.snapshot
      <4> HIDE DEF old
      <4>. QED  BY <1>1, <2>6, <3>2 DEF Sessions
    <3> HIDE DEF s1
    <3>4. C1 \in ConsumerStates
      BY <2>2, <3>3 DEF ConsumerStates
    <3>5. C1.s = s1 /\ C1.ck = C2.ck /\ C1.held = C2.held /\ C1.tombs = C2.tombs
      OBVIOUS
    <3> HIDE DEF C1
    <3>6. /\ C1.s.stream = Tail(C.s.stream) /\ C1.s.seen = Told(C.s.seen, C.s.stream)
          /\ C1.s.phase = C.s.phase /\ C1.s.events = C.s.events /\ C1.s.overflow = C.s.overflow
          /\ C1.s.mode = C.s.mode /\ C1.s.snapshot = C.s.snapshot
      BY <2>3, <2>9, <3>3, <3>5 DEF told
    <3>7. /\ C1.ck = Merge(C.ck, C.s.stream[1].cookie)
          /\ \A u \in UUIDs : StoreStep(C.ck, C.s.seen, C.s.stream[1], u, C.held[u].csn, C.tombs[u],
                                        C1.held[u].csn, C1.tombs[u])
      BY <2>4, <2>5, <3>5
    <3>8. LinkOK(P, C1)
      BY <2>2, <2>9, <3>4, <3>6, <3>7, LinkWorker
    <3>9. SameStore(C1, C2) /\ C2.s.phase = "idle" /\ C2.s.events = <<>> /\ C2.s.stream = <<>> /\ C2.s.seen = {}
      BY <2>8, <2>11, <3>1, <3>5 DEF SameStore
    <3>10. LinkOK(P, C2)
      BY <2>2, <3>4, <3>8, <3>9, LinkDrop
    <3>. QED  BY <1>4, <2>1, <3>10
  <2>. QED  BY <2>10, <2>11
<1>. QED  BY <1>5, <1>6 DEF ContentInv

\* What a worker's step starts from.
LEMMA WorkerReads ==
    ASSUME NoRelays, ContentInv, NEW l \in Links, session[l].stream # <<>>
    PROVE  /\ TypeInv /\ l[2] \in Nodes /\ l[2] \notin Providers
           /\ session[l] \in Sessions /\ session[l].stream \in Seq(Responses)
           /\ Head(session[l].stream) = session[l].stream[1] /\ Head(session[l].stream) \in Responses
           /\ entries \in [Nodes -> [UUIDs -> Entries]] /\ tombstones \in [Nodes -> [UUIDs -> Nat]]
           /\ \A u \in UUIDs : /\ entries[l[2]][u].csn \in Nat /\ tombstones[l[2]][u] \in Nat
                               /\ entries[l[2]][u] = Absent <=> entries[l[2]][u].csn = NoCSN
<1>1. TypeInv
  BY DEF ContentInv, LogInv, PersistInv
<1>2. l[2] \in Nodes /\ l[2] \notin Providers
  BY Topology DEF NoRelays
<1>3. session[l] \in Sessions /\ session[l].stream \in Seq(Responses)
  BY <1>1, SessionRead
<1>4. Head(session[l].stream) = session[l].stream[1] /\ Head(session[l].stream) \in Responses
  <2>1. Head(session[l].stream) \in Responses
    BY <1>1, HeadTyped
  <2>. QED  BY <1>3, <2>1
<1>5. entries \in [Nodes -> [UUIDs -> Entries]] /\ tombstones \in [Nodes -> [UUIDs -> Nat]]
  BY <1>1 DEF TypeInv, StoredOK
<1>6. \A u \in UUIDs : entries[l[2]][u] \in Entries /\ tombstones[l[2]][u] \in Nat
  BY <1>2, <1>5
<1>. QED  BY <1>1, <1>2, <1>3, <1>4, <1>5, <1>6, EntryTyped

\* The worker that notes the UUIDs of a response.
LEMMA NotedWorker ==
    ASSUME NEW old \in Sessions, NEW S \in SUBSET UUIDs
    PROVE  LET w == [old EXCEPT !.seen = S]
           IN  /\ w \in Sessions /\ w.seen = S /\ w.stream = old.stream /\ w.phase = old.phase /\ w.mode = old.mode
               /\ w.events = old.events /\ w.overflow = old.overflow /\ w.snapshot = old.snapshot
BY DEF Sessions

LEMMA PresentContent ==
    ASSUME NoRelays, OneWriter, SingleSource, ContentInv, LogInv', NEW l \in Links, ApplyPresent(l) \/ ApplyNewCookie(l)
    PROVE  ContentInv'
<1> DEFINE m == Head(session[l].stream)
           old == session[l]
           noted == [old EXCEPT !.seen = old.seen \cup m.uuids]
<1>1. publishing[l] = <<>> /\ old.stream # <<>> /\ entries' = entries /\ tombstones' = tombstones
  BY Zenon DEF ApplyPresent, ApplyNewCookie, Reads
<1>2. /\ old \in Sessions /\ m \in Responses /\ m = old.stream[1]
  BY <1>1, WorkerReads
<1>3. old.seen \in SUBSET UUIDs /\ old.seen \cup m.uuids \in SUBSET UUIDs
  BY <1>2 DEF Sessions, Responses
<1>4. m.kind \in {"present", "newCookie"} /\ \A u \in UUIDs : StoreStep(cookie[l], old.seen, m, u,
         entries[l[2]][u].csn, tombstones[l[2]][u], entries'[l[2]][u].csn, tombstones'[l[2]][u])
  <2>1. m.kind \in {"present", "newCookie"}
    BY DEF ApplyPresent, ApplyNewCookie, Reads
  <2> HIDE DEF m, old
  <2>. QED  BY <1>1, <2>1 DEF StoreStep
<1>5. CASE ApplyPresent(l)
  <2>1. PICK contextOnly : Finish(l, m.cookie, <<>>, contextOnly, noted) /\ m.kind = "present"
    BY <1>5, Zenon DEF ApplyPresent, Reads
  <2>2. Told(old.seen, old.stream) = old.seen \cup m.uuids
    BY <1>2, <2>1 DEF Told
  <2> DEFINE S == old.seen \cup m.uuids
             w == [old EXCEPT !.seen = S]
  <2>3. /\ w \in Sessions /\ w.seen = S /\ w.stream = old.stream /\ w.phase = old.phase /\ w.mode = old.mode
        /\ w.events = old.events /\ w.overflow = old.overflow /\ w.snapshot = old.snapshot
    <3> HIDE DEF S, old
    <3>1. S \in SUBSET UUIDs
      BY <1>3 DEF S
    <3>. QED  BY <1>2, <3>1, NotedWorker
  <2>4. Finish(l, m.cookie, <<>>, contextOnly, w) /\ w.seen = Told(old.seen, old.stream)
    BY <2>1, <2>2, <2>3
  <2> HIDE DEF w
  <2>. QED  BY <1>1, <1>4, <2>3, <2>4, FinishContent
<1>6. CASE ApplyNewCookie(l)
  <2>1. PICK contextOnly : Finish(l, m.cookie, <<>>, contextOnly, old) /\ m.kind = "newCookie"
    BY <1>6, Zenon DEF ApplyNewCookie, Reads
  <2>2. Told(old.seen, old.stream) = old.seen
    BY <1>2, <2>1 DEF Told
  <2>. QED  BY <1>1, <1>2, <1>4, <2>1, <2>2, FinishContent
<1>. QED  BY <1>5, <1>6

LEMMA EntryContent ==
    ASSUME NoRelays, OneWriter, SingleSource, ContentInv, EntriesOneByOne, LogInv', NEW l \in Links, ApplyEntry(l)
    PROVE  ContentInv'
<1> DEFINE m == Head(session[l].stream)
           n == l[2]
           old == session[l]
           noted == [old EXCEPT !.seen = old.seen \cup m.uuids]
<1>1. publishing[l] = <<>> /\ old.stream # <<>> /\ m.kind = "entry"
  BY Zenon DEF ApplyEntry, Reads
<1>2. /\ old \in Sessions /\ m \in Responses /\ m = old.stream[1] /\ old.stream \in Seq(Responses)
      /\ n \in Nodes /\ entries \in [Nodes -> [UUIDs -> Entries]] /\ tombstones \in [Nodes -> [UUIDs -> Nat]]
      /\ \A u \in UUIDs : /\ entries[n][u].csn \in Nat /\ tombstones[n][u] \in Nat
                          /\ entries[n][u] = Absent <=> entries[n][u].csn = NoCSN
  BY <1>1, WorkerReads
<1>3. /\ old.seen \cup m.uuids \in SUBSET UUIDs /\ m.csn \in Nat /\ Told(old.seen, old.stream) = old.seen \cup m.uuids
  BY <1>1, <1>2 DEF Sessions, Responses, Told
<1>4. PICK u \in m.uuids :
         IF Stale(n, u, m.csn)
         THEN /\ UNCHANGED <<entries, tombstones>>
              /\ \E contextOnly : Finish(l, m.cookie, <<>>, contextOnly, noted)
         ELSE /\ entries' = [entries EXCEPT ![n][u] = [visibility |-> "in", csn |-> m.csn]]
              /\ tombstones' = [tombstones EXCEPT ![n] = Entombed(tombstones[n], u, "in", m.csn)]
              /\ \E recorded, contextOnly : Finish(l, m.cookie, recorded, contextOnly, noted)
  BY Zenon DEF ApplyEntry
<1>5. m.uuids = {u} /\ u \in UUIDs
  <2>1. OneEntry(old.stream[1])
    <3>1. old.stream \in Seq(Responses) /\ old.stream # <<>> /\ OneByOne(old.stream)
      BY <1>1, <1>2 DEF EntriesOneByOne
    <3> DEFINE q == old.stream
    <3> HIDE DEF q
    <3>2. q \in Seq(Responses) /\ q # <<>> /\ OneByOne(q)
      BY <3>1 DEF q
    <3>3. 1 \in 1..Len(q)
      BY <3>2
    <3>4. OneEntry(q[1])
      BY <3>2, <3>3 DEF OneByOne
    <3>. QED  BY <3>4 DEF q
  <2>2. m.uuids \in SUBSET UUIDs
    BY <1>2 DEF Responses
  <2>. QED  BY <1>1, <1>2, <1>4, <2>1, <2>2 DEF OneEntry
<1> DEFINE S == old.seen \cup m.uuids
           w == [old EXCEPT !.seen = S]
<1>6. /\ w \in Sessions /\ w.seen = Told(old.seen, old.stream) /\ w.stream = old.stream /\ w.phase = old.phase
      /\ w.mode = old.mode /\ w.events = old.events /\ w.overflow = old.overflow /\ w.snapshot = old.snapshot
  <2>1. S \in SUBSET UUIDs /\ Told(old.seen, old.stream) = S
    BY <1>3
  <2>2. /\ w \in Sessions /\ w.seen = S /\ w.stream = old.stream /\ w.phase = old.phase /\ w.mode = old.mode
        /\ w.events = old.events /\ w.overflow = old.overflow /\ w.snapshot = old.snapshot
    <3> HIDE DEF S, old
    <3>. QED  BY <1>2, <2>1, NotedWorker, ZenonT(40)
  <2> HIDE DEF w, S
  <2>. QED  BY <2>1, <2>2
<1>7. \E recorded, contextOnly : Finish(l, m.cookie, recorded, contextOnly, w)
  BY <1>4, Zenon
<1>8. \A x \in Nodes : x # n => entries'[x] = entries[x] /\ tombstones'[x] = tombstones[x]
  <2> DEFINE t == Entombed(tombstones[n], u, "in", m.csn)
             e == [visibility |-> "in", csn |-> m.csn]
  <2>1. /\ entries' = entries \/ entries' = [entries EXCEPT ![n][u] = e]
        /\ tombstones' = tombstones \/ tombstones' = [tombstones EXCEPT ![n] = t]
    BY <1>4
  <2> HIDE DEF t, e, m, old
  <2>. QED  BY <1>2, <2>1
<1>9. ASSUME NEW v \in UUIDs
      PROVE  StoreStep(cookie[l], old.seen, m, v, entries[n][v].csn, tombstones[n][v],
                       entries'[n][v].csn, tombstones'[n][v])
  <2>1. CASE Stale(n, u, m.csn)
    <3>1. entries' = entries /\ tombstones' = tombstones
      BY <1>4, <2>1
    <3>2. v = u => m.csn <= tombstones[n][v] \/ (entries[n][v].csn # NoCSN /\ m.csn <= entries[n][v].csn)
      BY <1>2, <2>1 DEF Stale
    <3> HIDE DEF m, old
    <3>3. CASE v = u
      BY <1>1, <1>5, <3>1, <3>2, <3>3, Zenon DEF StoreStep
    <3>4. CASE v # u
      BY <1>1, <1>5, <3>1, <3>4 DEF StoreStep
    <3>. QED  BY <3>3, <3>4
  <2>2. CASE ~Stale(n, u, m.csn)
    <3>1. ~(m.csn <= tombstones[n][u] \/ (entries[n][u].csn # NoCSN /\ m.csn <= entries[n][u].csn))
      BY <1>2, <1>5, <2>2 DEF Stale
    <3> DEFINE e == [visibility |-> "in", csn |-> m.csn]
               t == Entombed(tombstones[n], u, "in", m.csn)
    <3>2. entries' = [entries EXCEPT ![n][u] = e] /\ tombstones' = [tombstones EXCEPT ![n] = t] /\ e.csn = m.csn
      BY <1>4, <2>2
    <3>3. t[u] = NoCSN /\ (v # u => t[v] = tombstones[n][v])
      <4>1. tombstones[n] \in [UUIDs -> Nat] /\ m.csn > tombstones[n][u]
        BY <1>2, <1>3, <1>5, <3>1
      <4> HIDE DEF m
      <4>. QED  BY <1>5, <4>1 DEF Entombed
    <3> HIDE DEF e, t, m, old
    <3>4. entries'[n][v] = (IF v = u THEN e ELSE entries[n][v]) /\ tombstones'[n][v] = t[v]
      BY <1>2, <1>5, <3>2
    <3>5. CASE v = u
      BY <1>1, <1>5, <3>1, <3>2, <3>3, <3>4, <3>5 DEF StoreStep
    <3>6. CASE v # u
      BY <1>1, <1>5, <3>3, <3>4, <3>6 DEF StoreStep
    <3>. QED  BY <3>5, <3>6
  <2>. QED  BY <2>1, <2>2
<1> HIDE DEF w
<1>. QED  BY <1>1, <1>6, <1>7, <1>8, <1>9, FinishContent

\* The CSN of a deletion.
LEMMA DeletionFacts ==
    ASSUME NEW l \in Links, cookie[l] \in CSNState, NEW m \in Responses
    PROVE  /\ DeletionCSN(l, m) \in Nat /\ m.cookie \in CSNState
           /\ \/ m.csn # NoCSN /\ DeletionCSN(l, m) = m.csn
              \/ /\ m.csn = NoCSN /\ (DeletionCSN(l, m) = NoCSN \/ \E s \in SIDs : DeletionCSN(l, m) = m.cookie[s])
                 /\ \A s \in SIDs : m.cookie[s] > cookie[l][s] => m.cookie[s] <= DeletionCSN(l, m)
<1>1. m.cookie \in CSNState /\ m.csn \in Nat
  BY DEF Responses
<1>2. CASE m.csn # NoCSN
  BY <1>1, <1>2 DEF DeletionCSN
<1>3. CASE m.csn = NoCSN
  <2> DEFINE A == {NoCSN} \cup Advances(l, m.cookie)
  <2>1. DeletionCSN(l, m) = Max(A)
    BY <1>3 DEF DeletionCSN
  <2>2. A \in SUBSET Nat /\ A # {} /\ IsFiniteSet(A)
    <3>1. Advances(l, m.cookie) \in SUBSET Nat /\ IsFiniteSet(Advances(l, m.cookie))
      BY <1>1, AdvancesFacts
    <3> DEFINE B == Advances(l, m.cookie)
    <3> HIDE DEF B
    <3>2. IsFiniteSet({NoCSN} \cup B)
      BY <3>1, FS_Singleton, FS_Union DEF B
    <3>. QED  BY <3>1, <3>2 DEF NoCSN, B
  <2>3. \A x \in A : x = NoCSN \/ \E s \in SIDs : x = m.cookie[s]
    BY DEF Advances
  <2>4. \A s \in SIDs : m.cookie[s] > cookie[l][s] => m.cookie[s] \in A
    BY DEF Advances
  <2> HIDE DEF A
  <2>5. Max(A) \in A /\ \A y \in A : Max(A) >= y
    BY <2>2, GreatestNumber
  <2>6. Max(A) \in Nat /\ \A s \in SIDs : m.cookie[s] \in Nat
    BY <1>1, <2>2, <2>5 DEF CSNState
  <2>7. ASSUME NEW s \in SIDs, m.cookie[s] > cookie[l][s] PROVE m.cookie[s] <= Max(A)
    <3>1. m.cookie[s] \in A
      BY <2>4, <2>7
    <3>. QED  BY <2>5, <2>6, <3>1
  <2>. QED  BY <1>1, <1>3, <2>1, <2>3, <2>5, <2>6, <2>7
<1>. QED  BY <1>2, <1>3

LEMMA DeleteContent ==
    ASSUME NoRelays, OneWriter, SingleSource, ContentInv, LogInv', NEW l \in Links, ApplyDelete(l)
    PROVE  ContentInv'
<1> DEFINE m == Head(session[l].stream)
           n == l[2]
           old == session[l]
           csn == DeletionCSN(l, m)
           gone == {u \in m.uuids : entries[n][u] # Absent /\ entries[n][u].csn <= csn}
           tombs == [u \in UUIDs |-> IF u \in m.uuids THEN Max({tombstones[n][u], csn}) ELSE tombstones[n][u]]
<1>1. publishing[l] = <<>> /\ old.stream # <<>> /\ m.kind = "delete"
  BY Zenon DEF ApplyDelete, Reads
<1>2. /\ old \in Sessions /\ m \in Responses /\ m = old.stream[1] /\ TypeInv
      /\ n \in Nodes /\ entries \in [Nodes -> [UUIDs -> Entries]] /\ tombstones \in [Nodes -> [UUIDs -> Nat]]
      /\ \A u \in UUIDs : /\ entries[n][u].csn \in Nat /\ tombstones[n][u] \in Nat
                          /\ entries[n][u] = Absent <=> entries[n][u].csn = NoCSN
  BY <1>1, WorkerReads
<1>3. Told(old.seen, old.stream) = old.seen
  BY <1>1, <1>2 DEF Told
<1>4. /\ csn \in Nat
      /\ \/ m.csn # NoCSN /\ csn = m.csn
         \/ /\ m.csn = NoCSN /\ (csn = NoCSN \/ \E s \in SIDs : csn = m.cookie[s])
            /\ \A s \in SIDs : m.cookie[s] > cookie[l][s] => m.cookie[s] <= csn
  <2>1. cookie[l] \in CSNState
    BY <1>2 DEF TypeInv, StoredOK
  <2> HIDE DEF m
  <2>. QED  BY <1>2, <2>1, DeletionFacts
<1>5. IF csn = NoCSN
      THEN /\ UNCHANGED <<entries, tombstones>>
           /\ Finish(l, m.cookie, <<>>, <<>>, old)
      ELSE /\ entries' = [entries EXCEPT ![n] = Without(entries[n], gone)]
           /\ tombstones' = [tombstones EXCEPT ![n] = tombs]
           /\ \E recorded, contextOnly : Finish(l, m.cookie, recorded, contextOnly, old)
  BY ZenonT(40) DEF ApplyDelete
<1>6. \E recorded, contextOnly : Finish(l, m.cookie, recorded, contextOnly, old)
  BY <1>5, Zenon
<1> HIDE DEF csn
<1>7. \A x \in Nodes : x # n => entries'[x] = entries[x] /\ tombstones'[x] = tombstones[x]
  <2> DEFINE e == Without(entries[n], gone)
  <2>1. /\ entries' = entries \/ entries' = [entries EXCEPT ![n] = e]
        /\ tombstones' = tombstones \/ tombstones' = [tombstones EXCEPT ![n] = tombs]
    BY <1>5
  <2> HIDE DEF e, tombs, m, old, gone
  <2>. QED  BY <1>2, <2>1
<1>8. ASSUME NEW v \in UUIDs
      PROVE  /\ v \in m.uuids => /\ entries'[n][v].csn = IF entries[n][v].csn <= csn THEN NoCSN ELSE entries[n][v].csn
                                 /\ tombstones'[n][v] = IF tombstones[n][v] > csn THEN tombstones[n][v] ELSE csn
             /\ v \notin m.uuids => /\ entries'[n][v].csn = entries[n][v].csn
                                    /\ tombstones'[n][v] = tombstones[n][v]
  <2> DEFINE x == entries[n][v].csn
             t == tombstones[n][v]
  <2>1. x \in Nat /\ t \in Nat /\ (entries[n][v] = Absent <=> x = NoCSN)
    BY <1>2
  <2>2. CASE csn = NoCSN
    <3>1. entries' = entries /\ tombstones' = tombstones
      BY <1>5, <2>2
    <3> HIDE DEF m
    <3>. QED  BY <2>1, <2>2, <3>1 DEF NoCSN
  <2>3. CASE csn # NoCSN
    <3>1. entries' = [entries EXCEPT ![n] = Without(entries[n], gone)] /\ tombstones' = [tombstones EXCEPT ![n] = tombs]
      BY <1>5, <2>3
    <3>2. entries'[n][v] = (IF v \in gone THEN Absent ELSE entries[n][v]) /\ tombstones'[n][v] = tombs[v]
      <4> HIDE DEF gone, tombs
      <4>. QED  BY <1>2, <3>1 DEF Without
    <3>3. v \in gone <=> v \in m.uuids /\ x # NoCSN /\ x <= csn
      <4> HIDE DEF m
      <4>. QED  BY <2>1
    <3>4. tombs[v] = IF v \in m.uuids THEN Max({t, csn}) ELSE t
      <4> HIDE DEF m
      <4>. QED  OBVIOUS
    <3>5. Max({t, csn}) = IF t > csn THEN t ELSE csn
      <4> HIDE DEF t
      <4>1. {t, csn} \in SUBSET Nat /\ {t, csn} # {} /\ IsFiniteSet({t, csn})
        <5>1. IsFiniteSet({t} \cup {csn}) /\ {t} \cup {csn} = {t, csn}
          BY FS_Singleton, FS_Union
        <5>. QED  BY <1>4, <2>1, <5>1
      <4>2. Max({t, csn}) \in {t, csn} /\ \A y \in {t, csn} : Max({t, csn}) >= y
        BY <4>1, GreatestNumber
      <4>. QED  BY <1>4, <2>1, <4>2
    <3>6. Absent.csn = NoCSN
      BY DEF Absent
    <3> HIDE DEF gone, tombs, m, t
    <3>7. /\ v \in m.uuids => /\ entries'[n][v].csn = IF x <= csn THEN NoCSN ELSE x
                              /\ tombstones'[n][v] = IF t > csn THEN t ELSE csn
          /\ v \notin m.uuids => entries'[n][v].csn = x /\ tombstones'[n][v] = t
      BY <1>4, <2>1, <3>2, <3>3, <3>4, <3>5, <3>6 DEF NoCSN
    <3>. QED  BY <3>7 DEF t
  <2>. QED  BY <2>2, <2>3
<1>9. ASSUME NEW v \in UUIDs
      PROVE  StoreStep(cookie[l], old.seen, m, v, entries[n][v].csn, tombstones[n][v],
                       entries'[n][v].csn, tombstones'[n][v])
  <2> HIDE DEF m, old
  <2>1. CASE v \in m.uuids
    <3>1. /\ entries'[n][v].csn = IF entries[n][v].csn <= csn THEN NoCSN ELSE entries[n][v].csn
          /\ tombstones'[n][v] = IF tombstones[n][v] > csn THEN tombstones[n][v] ELSE csn
      BY <1>8, <2>1
    <3>. QED  BY <1>1, <1>4, <2>1, <3>1, Zenon DEF StoreStep
  <2>2. CASE v \notin m.uuids
    <3>1. entries'[n][v].csn = entries[n][v].csn /\ tombstones'[n][v] = tombstones[n][v]
      BY <1>8, <2>2
    <3>. QED  BY <1>1, <2>2, <3>1 DEF StoreStep
  <2>. QED  BY <2>1, <2>2
<1>. QED  BY <1>1, <1>2, <1>3, <1>6, <1>7, <1>9, FinishContent

LEMMA RefreshEndContent ==
    ASSUME NoRelays, OneWriter, SingleSource, ContentInv, LogInv', NEW l \in Links, FinishRefresh(l)
    PROVE  ContentInv'
<1> DEFINE m == Head(session[l].stream)
           n == l[2]
           old == session[l]
           csn == Max({m.cookie[s] : s \in SIDs})
           gone == IF m.refreshDeletes THEN {} ELSE Unseen(l, m)
           closing == [Closed(old.mode) EXCEPT !.stream = old.stream]
           worker == IF old.mode = "refreshOnly" THEN closing ELSE old
           tombs == [u \in UUIDs |-> IF u \in gone /\ n \in Providers THEN Max({tombstones[n][u], csn}) ELSE tombstones[n][u]]
<1>1. publishing[l] = <<>> /\ old.stream # <<>> /\ m.kind = "refreshDone"
  BY Zenon DEF FinishRefresh, Reads
<1>2. /\ old \in Sessions /\ m \in Responses /\ m = old.stream[1] /\ TypeInv /\ n \notin Providers
      /\ n \in Nodes /\ entries \in [Nodes -> [UUIDs -> Entries]] /\ tombstones \in [Nodes -> [UUIDs -> Nat]]
      /\ \A u \in UUIDs : /\ entries[n][u].csn \in Nat /\ tombstones[n][u] \in Nat
                          /\ entries[n][u] = Absent <=> entries[n][u].csn = NoCSN
  BY <1>1, WorkerReads
<1>3. Told(old.seen, old.stream) = old.seen
  BY <1>1, <1>2 DEF Told
<1>4. /\ entries' = [entries EXCEPT ![n] = Without(entries[n], gone)]
      /\ tombstones' = [tombstones EXCEPT ![n] = tombs]
      /\ \E recorded, contextOnly : Finish(l, m.cookie, recorded, contextOnly, worker)
  BY ZenonT(40) DEF FinishRefresh
<1>5. tombs = tombstones[n]
  <2>1. tombstones[n] \in [UUIDs -> Nat]
    BY <1>2
  <2> HIDE DEF gone, csn
  <2>. QED  BY <1>2, <2>1
<1> HIDE DEF tombs
<1>6. tombstones' = tombstones /\ \A x \in Nodes : x # n => entries'[x] = entries[x]
  <2> DEFINE e == Without(entries[n], gone)
  <2>1. entries' = [entries EXCEPT ![n] = e]
    BY <1>4
  <2> HIDE DEF e, gone, worker
  <2>. QED  BY <1>2, <1>4, <1>5, <2>1
<1>7. ASSUME NEW v \in UUIDs
      PROVE  entries'[n][v] = IF v \in gone THEN Absent ELSE entries[n][v]
  <2> HIDE DEF gone, worker
  <2>. QED  BY <1>2, <1>4 DEF Without
<1>8. ASSUME NEW v \in UUIDs
      PROVE  StoreStep(cookie[l], old.seen, m, v, entries[n][v].csn, tombstones[n][v],
                       entries'[n][v].csn, tombstones'[n][v])
  <2>1. v \in gone <=> /\ ~m.refreshDeletes /\ v \notin old.seen /\ entries[n][v].csn # NoCSN
                       /\ entries[n][v].csn <= m.cookie[SIDOf(entries[n][v].csn)]
    BY <1>2, Zenon DEF Unseen
  <2>2. Absent.csn = NoCSN
    BY DEF Absent
  <2>3. entries'[n][v] = IF v \in gone THEN Absent ELSE entries[n][v]
    BY <1>7
  <2> HIDE DEF m, old, gone
  <2>4. CASE ~m.refreshDeletes /\ v \notin old.seen
    <3>1. entries'[n][v].csn = IF entries[n][v].csn # NoCSN /\ entries[n][v].csn <= m.cookie[SIDOf(entries[n][v].csn)]
                               THEN NoCSN ELSE entries[n][v].csn
      BY <2>1, <2>2, <2>3, <2>4
    <3>. QED  BY <1>1, <1>6, <2>4, <3>1, Zenon DEF StoreStep
  <2>5. CASE ~(~m.refreshDeletes /\ v \notin old.seen)
    <3>1. entries'[n][v] = entries[n][v]
      BY <2>1, <2>3, <2>5
    <3>. QED  BY <1>1, <1>6, <2>5, <3>1 DEF StoreStep
  <2>. QED  BY <2>4, <2>5
<1>9. /\ worker \in Sessions /\ worker.stream = old.stream
      /\ \/ worker = old
         \/ /\ worker.phase = "idle" /\ worker.events = <<>> /\ worker.seen = {} /\ old.mode = "refreshOnly"
  <2>1. closing \in Sessions /\ closing.stream = old.stream
        /\ closing.phase = "idle" /\ closing.events = <<>> /\ closing.seen = {}
    <3> DEFINE c == Closed(old.mode)
               q == old.stream
    <3>1. c \in Sessions /\ c.phase = "idle" /\ c.events = <<>> /\ c.seen = {} /\ q \in Seq(Responses)
      BY <1>2, ClosedOK DEF SessionOK, Sessions, Closed
    <3> HIDE DEF c, q
    <3>2. /\ [c EXCEPT !.stream = q] \in Sessions /\ [c EXCEPT !.stream = q].phase = "idle"
          /\ [c EXCEPT !.stream = q].events = <<>> /\ [c EXCEPT !.stream = q].seen = {}
          /\ [c EXCEPT !.stream = q].stream = q
      BY <3>1 DEF Sessions
    <3>. QED  BY <3>2 DEF c, q
  <2> HIDE DEF closing
  <2>. QED  BY <1>2, <2>1
<1> HIDE DEF worker
<1>10. PICK recorded, contextOnly : Finish(l, m.cookie, recorded, contextOnly, worker)
  BY <1>4, Zenon
<1>11. /\ \A x \in Nodes : x # n => entries'[x] = entries[x] /\ tombstones'[x] = tombstones[x]
  BY <1>6
<1>12. \/ /\ worker.seen = Told(old.seen, old.stream)
          /\ worker.phase = old.phase /\ worker.mode = old.mode
          /\ worker.events = old.events /\ worker.overflow = old.overflow
          /\ worker.snapshot = old.snapshot
       \/ /\ worker.phase = "idle" /\ worker.events = <<>> /\ worker.seen = {}
          /\ old.mode = "refreshOnly" /\ m.kind = "refreshDone"
  BY <1>1, <1>3, <1>9
<1>. QED  BY <1>1, <1>8, <1>9, <1>10, <1>11, <1>12, FinishContent

LEMMA WorkerContent ==
    ASSUME NoRelays, OneWriter, SingleSource, ContentInv, EntriesOneByOne, LogInv', NEW l \in Links, Worker(l)
    PROVE  ContentInv'
BY SearchContent, EntryContent, DeleteContent, PresentContent, RefreshEndContent DEF Worker

LEMMA NextContent ==
    ASSUME NoRelays, OneWriter, SingleSource, ContentInv, EntriesOneByOne, [Next]_vars
    PROVE  ContentInv' /\ EntriesOneByOne'
<1>0. LogInv' /\ EntriesOneByOne'
  <2>1. LogInv /\ TypeInv
    BY DEF ContentInv, LogInv, PersistInv
  <2>. QED  BY <2>1, NextLog, NextOneByOne
<1>1. ASSUME NEW k \in Clients, Add(k) \/ Modify(k) \/ Delete(k) PROVE ContentInv'
  <2>1. \A after \in Matching : after \in {"none", "in", "out"}
    BY BoundsAssumption
  <2>2. \E u \in UUIDs, after \in {"none", "in", "out"} : CommitWrite(k, u, after)
    BY <1>1, <2>1, Zenon DEF Add, Modify, Delete
  <2>. QED  BY <1>0, <2>2, CommitContent
<1>2. ASSUME NEW a \in Clients \cup Links, Publish(a) PROVE ContentInv'
  BY <1>0, <1>2, PublishContent
<1>3. ASSUME NEW l \in Links,
             Connect(l) \/ CaptureSnapshot(l) \/ Refresh(l) \/ PersistChange(l) \/ PersistOverflow(l)
      PROVE  ContentInv'
  BY <1>0, <1>3, SearchContent, RefreshContent, ChangeContent
<1>4. ASSUME NEW l \in Links, Worker(l) PROVE ContentInv'
  BY <1>0, <1>4, WorkerContent
<1>5. ASSUME NEW l \in Links, Disconnect(l) PROVE ContentInv'
  BY <1>0, <1>5, SearchContent
<1>6. ASSUME NEW n \in Nodes, Restart(n) PROVE ContentInv'
  BY <1>0, <1>6, RestartContent
<1>7. CASE UNCHANGED vars
  <2>1. ASSUME NEW l \in Links PROVE LinkOK(ProviderOf(l[1]), ConsumerOf(l))'
    <3>1. ProviderOf(l[1])' = ProviderOf(l[1]) /\ ConsumerOf(l)' = ConsumerOf(l)
      BY <1>7 DEF vars, ProviderOf, ConsumerOf, Ceiling, Unpublished
    <3>. QED  BY <3>1, SameLink DEF ContentInv
  <2>. QED  BY <1>0, <2>1 DEF ContentInv
<1>. QED  BY <1>0, <1>1, <1>2, <1>3, <1>4, <1>5, <1>6, <1>7 DEF Next

\* A link of two servers that have just started.
LEMMA LinkInit ==
    ASSUME NEW P \in ProviderStates, NEW C \in ConsumerStates,
           \A u \in UUIDs : P.held[u].visibility = "in" \/ P.held[u] = Absent,
           \A u \in UUIDs : CSNBelow(P.held[u].csn, P.top) /\ P.tombs[u] = NoCSN,
           P.log.changes = <<>>, P.unpub = {}, P.ceil > 0,
           C.s.phase = "idle", C.s.events = <<>>, C.s.stream = <<>>, C.s.seen = {},
           \A s \in SIDs : C.ck[s] = NoCSN, \A u \in UUIDs : C.held[u].csn = NoCSN /\ C.tombs[u] = NoCSN
    PROVE  LinkOK(P, C)
<1>0. Range(<<>>) = {} /\ \A k : k \notin 1..Len(<<>>)
  BY DEF Range
<1>1. /\ \A u \in UUIDs : P.held[u].csn \in Nat /\ (P.held[u].visibility = "in" => P.held[u].csn # NoCSN)
      /\ \A s \in SIDs : P.top[s] \in Nat /\ P.log.base[s] \in Nat
      /\ P.sid \in SIDs /\ P.ceil \in Nat
  BY ProviderFields
<1>2. ServerBehind(P)
  BY <1>0 DEF ServerBehind
<1>3. ConsumerBehind(P, C)
  BY <1>0, <1>1 DEF ConsumerBehind, VectorBelow, CSNBelow, NoCSN
<1>4. ChannelOrdered(P, C) /\ SearchShape(P, C)
  BY <1>0 DEF ChannelOrdered, SearchShape
<1>5. ASSUME NEW u \in UUIDs PROVE ContentOf(P, C, u)
  <2>1. \A i, z : Follows(P, C, u, i, z)
    BY ClosedSearch
  <2>2. CASE P.held[u].visibility = "in"
    <3> DEFINE c == P.held[u].csn
    <3>1. c \in Nat /\ c # NoCSN /\ SIDOf(c) \in SIDs
      BY <1>1, <2>2 DEF CSNBelow
    <3> HIDE DEF c
    <3>2. InStream(<<>>, C.ck, {}, NoCSN, u, c)
      <4>1. ~Reached(C.ck, <<>>, 0, SIDOf(c), c)
        BY <3>1 DEF Reached, NoCSN
      <4>2. \A j \in 0..Len(<<>>) : j = 0
        OBVIOUS
      <4>. QED  BY <1>0, <3>1, <4>1, <4>2 DEF InStream, NoCSN
    <3>3. InLink(P, C, u, c)
      BY <1>0, <2>1, <3>1, <3>2 DEF InLink, NoCSN
    <3>. QED  BY <2>2, <3>3 DEF ContentOf, c
  <2>3. CASE P.held[u].visibility # "in"
    <3>1. Newest(P, u) = 0
      BY <2>3 DEF Newest, NoCSN
    <3>2. OutServer(P, u, 0)
      BY <1>0, <1>1 DEF OutServer, NoCSN
    <3>3. OutLink(P, C, u, 0)
      BY <1>0, <2>1 DEF OutLink, OutStream
    <3>4. 0 \in 0..Newest(P, u)
      BY <3>1
    <3>. QED  BY <2>3, <3>2, <3>3, <3>4 DEF ContentOf
  <2>. QED  BY <2>2, <2>3
<1>. QED  BY <1>2, <1>3, <1>4, <1>5 DEF LinkOK

LEMMA LoadedCovered == \A u \in Loaded : CSNBelow(LoadedCSN(u), LoadedContext)
<1> SUFFICES ASSUME NEW u \in Loaded PROVE CSNBelow(LoadedCSN(u), LoadedContext)
  OBVIOUS
<1> DEFINE f == [v \in Loaded |-> LoadedCSN(v)]
           A == {NoCSN} \cup {LoadedCSN(v) : v \in Loaded}
<1>1. \A v \in Loaded : LoadedCSN(v) \in Nat /\ SIDOf(LoadedCSN(v)) = Min(SIDs)
  BY LoadedFacts
<1>2. A \in SUBSET Nat /\ A # {}
  BY <1>1 DEF NoCSN
<1>3. IsFiniteSet(A)
  <2>1. IsFiniteSet(Loaded) /\ Loaded \subseteq DOMAIN f
    BY Bounds
  <2>2. A = {NoCSN} \cup {f[x] : x \in Loaded}
    OBVIOUS
  <2> HIDE DEF f
  <2>3. IsFiniteSet({f[x] : x \in Loaded})
    BY <2>1, FiniteImage
  <2>4. IsFiniteSet({NoCSN} \cup {f[x] : x \in Loaded})
    BY <2>3, FS_Singleton, FS_Union
  <2>. QED  BY <2>2, <2>4
<1>4. LoadedCSN(u) \in A
  OBVIOUS
<1>5. LoadedContext[Min(SIDs)] = Max(A)
  <2>1. LoadedContext = [NoState EXCEPT ![Min(SIDs)] = Max(A)]
    BY DEF LoadedContext
  <2> HIDE DEF A
  <2>. QED  BY <2>1, CSNFacts DEF NoState
<1> HIDE DEF A
<1>6. Max(A) >= LoadedCSN(u) /\ Max(A) \in Nat
  BY <1>2, <1>3, <1>4, GreatestNumber
<1>7. LoadedCSN(u) <= LoadedContext[Min(SIDs)]
  BY <1>1, <1>5, <1>6
<1>. QED  BY <1>1, <1>7, CSNFacts DEF CSNBelow

LEMMA InitContent == NoRelays /\ OneWriter /\ Init => ContentInv /\ EntriesOneByOne
<1> SUFFICES ASSUME NoRelays, OneWriter, Init PROVE ContentInv /\ EntriesOneByOne
  OBVIOUS
<1>0. LogInv /\ TypeInv
  BY InitLog DEF LogInv, PersistInv
<1>1. ASSUME NEW l \in Links
      PROVE  /\ session[l].phase = "idle" /\ session[l].events = <<>> /\ session[l].stream = <<>>
             /\ session[l].seen = {}
  <2>1. session[l] \in {Closed(mode) : mode \in Modes}
    BY DEF Init
  <2>. QED  BY <2>1 DEF Closed
<1>2. EntriesOneByOne
  BY <1>1 DEF EntriesOneByOne, OneByOne
<1>3. ASSUME NEW l \in Links PROVE LinkOK(ProviderOf(l[1]), ConsumerOf(l))
  <2>1. /\ l[1] \in Nodes /\ l[1] \in Providers /\ l[2] \in Nodes /\ l[2] \notin Providers
    BY Topology DEF NoRelays
  <2>2. PICK P, C : P = ProviderOf(l[1]) /\ C = ConsumerOf(l)
    OBVIOUS
  <2>3. P \in ProviderStates /\ C \in ConsumerStates
    BY <1>0, <2>2, LinksAreTyped DEF LinksTyped
  <2>4. \A u \in UUIDs : P.held[u] = IF u \in Loaded THEN [visibility |-> "in", csn |-> LoadedCSN(u)] ELSE Absent
    BY <2>1, <2>2 DEF ProviderOf, Init
  <2>5. P.tombs = [u \in UUIDs |-> NoCSN] /\ P.top = LoadedContext /\ P.log = EmptyLog(LoadedContext)
    BY <2>1, <2>2 DEF ProviderOf, Init
  <2>6. P.unpub = {}
    <3>1. \A a \in DOMAIN publishing : Range(publishing[a]) = {}
      BY DEF Init, Range
    <3>2. Unpublished(l[1]) = {}
      BY <3>1, Zenon DEF Unpublished
    <3>. QED  BY <2>2, <3>2 DEF ProviderOf
  <2>7. P.ceil > 0
    <3>1. clock[l[1]] \in Nat
      BY <1>0, <2>1, Bounds DEF TypeInv, CountersOK
    <3>. QED  BY <2>2, <3>1, CeilingFacts DEF ProviderOf, Ceiling
  <2>8. /\ C.ck = NoState /\ \A u \in UUIDs : C.held[u] = Absent /\ C.tombs[u] = NoCSN
    BY <2>1, <2>2 DEF ConsumerOf, Init
  <2>9. C.s.phase = "idle" /\ C.s.events = <<>> /\ C.s.stream = <<>> /\ C.s.seen = {}
    BY <1>1, <2>2 DEF ConsumerOf
  <2>10. /\ \A u \in UUIDs : P.held[u].visibility = "in" \/ P.held[u] = Absent
         /\ \A u \in UUIDs : CSNBelow(P.held[u].csn, P.top) /\ P.tombs[u] = NoCSN
    <3>1. Absent.csn = NoCSN
      BY DEF Absent
    <3>2. ASSUME NEW u \in UUIDs PROVE CSNBelow(P.held[u].csn, P.top)
      <4>1. CASE u \in Loaded
        <5>1. P.held[u].csn = LoadedCSN(u)
          <6> DEFINE y == LoadedCSN(u)
          <6>1. P.held[u] = [visibility |-> "in", csn |-> y]
            BY <2>4, <4>1
          <6> HIDE DEF y
          <6>2. P.held[u].csn = y
            BY <6>1
          <6>. QED  BY <6>2 DEF y
        <5>. QED  BY <2>5, <4>1, <5>1, LoadedCovered
      <4>2. CASE u \notin Loaded
        BY <2>4, <3>1, <4>2 DEF CSNBelow
      <4>. QED  BY <4>1, <4>2
    <3>3. ASSUME NEW u \in UUIDs PROVE P.held[u].visibility = "in" \/ P.held[u] = Absent
      <4> DEFINE y == LoadedCSN(u)
      <4>1. P.held[u] = [visibility |-> "in", csn |-> y] \/ P.held[u] = Absent
        BY <2>4
      <4> HIDE DEF y
      <4>. QED  BY <4>1
    <3>. QED  BY <2>5, <3>2, <3>3
  <2>11. P.log.changes = <<>>
    BY <2>5 DEF EmptyLog
  <2>12. /\ \A s \in SIDs : C.ck[s] = NoCSN
         /\ \A u \in UUIDs : C.held[u].csn = NoCSN /\ C.tombs[u] = NoCSN
    BY <2>8 DEF NoState, Absent
  <2>13. LinkOK(P, C)
    BY <2>3, <2>6, <2>7, <2>9, <2>10, <2>11, <2>12, LinkInit
  <2>. QED  BY <2>2, <2>13
<1>. QED  BY <1>0, <1>2, <1>3 DEF ContentInv

LEMMA LinkContent ==
    ASSUME NEW P \in ProviderStates, NEW C \in ConsumerStates, LinkOK(P, C), NEW u \in UUIDs
    PROVE  /\ P.held[u].visibility = "in" /\ P.held[u].csn <= C.ck[SIDOf(P.held[u].csn)]
              => C.held[u].csn >= P.held[u].csn
           /\ P.held[u].visibility # "in" /\ Newest(P, u) # NoCSN /\ Newest(P, u) <= C.ck[SIDOf(Newest(P, u))]
              => C.held[u] = Absent
<1> DEFINE c == P.held[u].csn
           x == C.held[u].csn
           z == Newest(P, u)
<1>1. /\ c \in Nat /\ z \in Nat /\ P.sid \in SIDs
  BY ProviderFields
<1>2. x \in Nat /\ (C.held[u] = Absent <=> x = NoCSN) /\ \A s \in SIDs : C.ck[s] \in Nat /\ Len(C.s.stream) \in Nat
  BY ConsumerFields
<1>3. ContentOf(P, C, u)
  BY DEF LinkOK
<1>4. ASSUME P.held[u].visibility = "in", c <= C.ck[SIDOf(c)] PROVE x >= c
  <2>1. InStream(C.s.stream, C.ck, C.s.seen, x, u, c)
    BY <1>3, <1>4 DEF ContentOf, InLink
  <2> HIDE DEF c, x
  <2>2. Len(C.s.stream) \in Nat
    BY <1>2, ConsumerFields
  <2>3. 0 \in 0..Len(C.s.stream)
    BY <2>2
  <2>4. Reached(C.ck, C.s.stream, 0, SIDOf(c), c)
    BY <1>4 DEF Reached
  <2>5. Given(x, C.s.stream, 0, u, c)
    BY <2>1, <2>3, <2>4 DEF InStream
  <2>6. x = c
    BY <2>5 DEF Given
  <2>. QED  BY <1>1, <2>6
<1>5. ASSUME P.held[u].visibility # "in", z # NoCSN, z <= C.ck[SIDOf(z)] PROVE C.held[u] = Absent
  <2>1. PICK d \in 0..z : OutServer(P, u, d) /\ OutLink(P, C, u, d)
    BY <1>3, <1>5 DEF ContentOf
  <2>2. x # NoCSN => x < d /\ C.ck[P.sid] < d
    BY <2>1 DEF OutLink, OutStream
  <2>3. d # NoCSN => SIDOf(z) = P.sid
    BY <2>1 DEF OutServer
  <2> HIDE DEF z, x
  <2>4. x = NoCSN
    BY <1>1, <1>2, <1>5, <2>1, <2>2, <2>3 DEF NoCSN
  <2>. QED  BY <1>2, <2>4
<1>. QED  BY <1>4, <1>5

LEMMA ContentInvImplies == ContentInv => CookieMeansContent
<1> SUFFICES ASSUME ContentInv PROVE CookieMeansContent
  OBVIOUS
<1>1. TypeInv
  BY DEF ContentInv, LogInv, PersistInv
<1> SUFFICES ASSUME NEW l \in Links, NEW u \in UUIDs
             PROVE  LET there == entries[l[1]][u]
                        here == entries[l[2]][u]
                        left == IF there = Absent THEN tombstones[l[1]][u] ELSE there.csn
                    IN  /\ there.visibility = "in" /\ there.csn <= cookie[l][SIDOf(there.csn)]
                           => here.csn >= there.csn
                        /\ there.visibility # "in" /\ left # NoCSN /\ left <= cookie[l][SIDOf(left)]
                           => here = Absent \/ here.csn > left
  BY DEF CookieMeansContent
<1>2. PICK P, C : P = ProviderOf(l[1]) /\ C = ConsumerOf(l)
  OBVIOUS
<1>3. P \in ProviderStates /\ C \in ConsumerStates /\ LinkOK(P, C)
  BY <1>1, <1>2, LinksAreTyped DEF LinksTyped, ContentInv
<1>4. /\ P.held = entries[l[1]] /\ P.tombs = tombstones[l[1]] /\ C.held = entries[l[2]] /\ C.ck = cookie[l]
  BY <1>2 DEF ProviderOf, ConsumerOf
<1>5. /\ P.held[u].visibility = "in" /\ P.held[u].csn <= C.ck[SIDOf(P.held[u].csn)]
         => C.held[u].csn >= P.held[u].csn
      /\ P.held[u].visibility # "in" /\ Newest(P, u) # NoCSN /\ Newest(P, u) <= C.ck[SIDOf(Newest(P, u))]
         => C.held[u] = Absent
  BY <1>3, LinkContent
<1>6. Newest(P, u) = IF P.held[u] = Absent THEN P.tombs[u] ELSE P.held[u].csn
  BY DEF Newest
<1>. QED  BY <1>4, <1>5, <1>6

\* What runSyncConsumerCycle rests on when it resumes from its stored cookie.
\* Where each server's changes are published by one writer, no consumer is a
\* provider itself and none has a second provider, the cookie means content in
\* every reachable state: whatever was lost or restarted, however the refresh
\* was answered (session log, Present phase or everything), whatever the
\* channel dropped, the consumer has what its cookie covers.
THEOREM CookiesMeanContent ==
    NoRelays /\ OneWriter /\ SingleSource => (Spec => []CookieMeansContent)
<1> SUFFICES ASSUME NoRelays, OneWriter, SingleSource PROVE Spec => []CookieMeansContent
  OBVIOUS
<1>1. Init => ContentInv /\ EntriesOneByOne
  BY InitContent
<1>2. ContentInv /\ EntriesOneByOne /\ [Next]_vars => ContentInv' /\ EntriesOneByOne'
  BY NextContent
<1>3. Spec => []ContentInv
  BY <1>1, <1>2, PTL DEF Spec
<1>. QED  BY <1>3, ContentInvImplies, PTL

=============================================================================
