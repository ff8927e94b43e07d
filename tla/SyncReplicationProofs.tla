---------------------- MODULE SyncReplicationProofs -----------------------
(***************************************************************************)
(* Proofs about replication, for any set of servers and links, any number  *)
(* of writers, consumers and entries, and any sizes of the session log and *)
(* of the change channels.                                                 *)
(***************************************************************************)
EXTENDS SyncReplication, FiniteSetTheorems, SequenceTheorems, TLAPS

-----------------------------------------------------------------------------
(* Finite sets of numbers.                                                 *)

\* A nonempty set of natural numbers has a smallest element.
LEMMA LeastNumber ==
    ASSUME NEW S \in SUBSET Nat, S # {}
    PROVE  \E x \in S : \A y \in S : x <= y
<1>1. PICK x \in S : \A y \in S : ~(<<y, x>> \in OpToRel(<, Nat))
  BY NatLessThanWellFounded, WFMin
<1>2. \A y \in Nat : <<y, x>> \in OpToRel(<, Nat) <=> y < x
  BY DEF OpToRel
<1>3. ASSUME NEW y \in S PROVE x <= y
  <2>1. ~(y < x)
    BY <1>1, <1>2
  <2>. QED  BY <2>1
<1>. QED  BY <1>3

\* The image of a finite set under a function is finite.
LEMMA FiniteImage ==
    ASSUME NEW S, IsFiniteSet(S), NEW f, S \subseteq DOMAIN f
    PROVE  IsFiniteSet({f[x] : x \in S})
<1> DEFINE T == {f[x] : x \in S}
           g == [x \in S |-> f[x]]
<1>1. g \in Surjection(S, T)
  BY DEF Surjection
<1>. QED  BY <1>1, FS_Surjection

\* A nonempty finite set of natural numbers has a greatest element, and Max is it.
LEMMA GreatestNumber ==
    ASSUME NEW S \in SUBSET Nat, S # {}, IsFiniteSet(S)
    PROVE  /\ Max(S) \in S
           /\ \A y \in S : Max(S) >= y
<1> DEFINE Above(x) == {z \in S : z > x}
           above == [x \in S |-> Cardinality(Above(x))]
           C == {above[x] : x \in S}
<1>1. \A x \in S : IsFiniteSet(Above(x)) /\ Cardinality(Above(x)) \in Nat
  BY FS_Subset, FS_CardinalityType
<1>2. C \in SUBSET Nat /\ C # {}
  BY <1>1
<1>3. PICK c \in C : \A d \in C : c <= d
  BY <1>2, LeastNumber
<1>4. PICK x \in S : c = Cardinality(Above(x))
  BY <1>3
<1>5. ASSUME NEW y \in S PROVE x >= y
  <2>1. SUFFICES ASSUME y > x PROVE FALSE
    BY <1>4
  <2>2. Above(y) \in SUBSET Above(x) /\ y \in Above(x) /\ y \notin Above(y)
    BY <1>4, <2>1
  <2>3. Cardinality(Above(y)) < Cardinality(Above(x))
    <3>1. Cardinality(Above(y)) <= Cardinality(Above(x)) /\ Cardinality(Above(y)) # Cardinality(Above(x))
      BY <1>1, <2>2, FS_Subset, Zenon
    <3>. QED  BY <3>1, <1>1
  <2>4. c <= Cardinality(Above(y))
    BY <1>3
  <2>. QED  BY <1>1, <1>4, <2>3, <2>4, SMTT(30)
<1>. QED  BY <1>4, <1>5 DEF Max

\* A finite set of numbers can be listed in ascending order, and Sorted does it.
LEMMA SortedFacts ==
    ASSUME NEW S \in SUBSET Nat, IsFiniteSet(S)
    PROVE  /\ Cardinality(S) \in Nat
           /\ Sorted(S) \in [1..Cardinality(S) -> S]
           /\ \A i, j \in 1..Cardinality(S) : i < j => Sorted(S)[i] < Sorted(S)[j]
<1> DEFINE n == Cardinality(S)
           UpTo(x) == {y \in S : y <= x}
           rank == [x \in S |-> Cardinality(UpTo(x))]
<1>1. n \in Nat
  BY FS_CardinalityType
<1>2. \A x \in S : IsFiniteSet(UpTo(x)) /\ Cardinality(UpTo(x)) \in Nat /\ Cardinality(UpTo(x)) <= n
  BY FS_Subset, FS_CardinalityType
<1>3. \A x \in S : Cardinality(UpTo(x)) >= 1
  <2>1. ASSUME NEW x \in S PROVE Cardinality(UpTo(x)) >= 1
    <3>1. x \in UpTo(x)
      OBVIOUS
    <3>2. Cardinality(UpTo(x)) # 0
      BY <1>2, <3>1, FS_EmptySet
    <3>. QED  BY <1>2, <3>2
  <2>. QED  BY <2>1
<1>4. ASSUME NEW x \in S, NEW y \in S, x < y PROVE rank[x] < rank[y]
  <2>0. x \in Nat /\ y \in Nat
    OBVIOUS
  <2>a. \A z \in S : z \in Nat /\ (z <= x => z <= y)
    BY <1>4, <2>0
  <2>b. UpTo(x) \in SUBSET UpTo(y)
    BY <2>a, Zenon
  <2>c. y <= y /\ ~(y <= x)
    BY <1>4, <2>0
  <2>1. UpTo(x) \in SUBSET UpTo(y) /\ y \in UpTo(y) /\ y \notin UpTo(x)
    BY <2>b, <2>c, Zenon
  <2>2. Cardinality(UpTo(x)) <= Cardinality(UpTo(y)) /\ Cardinality(UpTo(x)) # Cardinality(UpTo(y))
    BY <1>2, <2>1, FS_Subset, Zenon
  <2>. QED  BY <1>2, <2>2
<1>5. rank \in Injection(S, 1..n)
  <2>1. rank \in [S -> 1..n]
    BY <1>1, <1>2, <1>3
  <2>2. ASSUME NEW x \in S, NEW y \in S, rank[x] = rank[y] PROVE x = y
    <3>1. x < y \/ x = y \/ y < x
      OBVIOUS
    <3>2. rank[x] \in Nat /\ rank[y] \in Nat
      BY <1>2
    <3>. QED  BY <1>4, <2>2, <3>1, <3>2
  <2>. QED  BY <2>1, <2>2 DEF Injection, IsInjective
<1>6. rank \in Surjection(S, 1..n)
  <2>1. IsFiniteSet(1..n) /\ Cardinality(1..n) = n
    BY <1>1, FS_Interval
  <2>. QED  BY <1>5, <2>1, FS_Injection
<1>7. \A i \in 1..n : \E x \in S : rank[x] = i
  BY <1>6 DEF Surjection
<1> DEFINE seq == [i \in 1..n |-> CHOOSE x \in S : rank[x] = i]
<1>8. seq \in [1..n -> S] /\ \A i \in 1..n : rank[seq[i]] = i
  BY <1>7
<1> HIDE DEF seq, rank
<1>9. ASSUME NEW i \in 1..n, NEW j \in 1..n, i < j PROVE seq[i] < seq[j]
  <2>1. seq[i] \in S /\ seq[j] \in S /\ rank[seq[i]] = i /\ rank[seq[j]] = j
    BY <1>8
  <2>2. seq[i] \in Nat /\ seq[j] \in Nat
    BY <2>1
  <2>3. seq[j] < seq[i] => j < i
    BY <1>4, <2>1
  <2>4. i \in Nat /\ j \in Nat /\ ~(j < i) /\ i # j
    BY <1>9, <1>1
  <2>. QED  BY <2>1, <2>2, <2>3, <2>4
<1>. QED  BY <1>1, <1>8, <1>9 DEF Sorted

-----------------------------------------------------------------------------
(* CSNs, vectors of CSNs and the session log.                              *)

\* A CSN names the server that issued it, and later ones of any server are larger.
LEMMA CSNFacts ==
    /\ Min(SIDs) \in SIDs
    /\ Radix \in Nat /\ Radix > 0
    /\ \A t \in Nat, s \in SIDs : /\ CSN(t, s) \in Nat
                                  /\ SIDOf(CSN(t, s)) = s
                                  /\ CSN(t, s) < (t + 1) * Radix
                                  /\ t * Radix <= CSN(t, s)
                                  /\ t > 0 => CSN(t, s) > 0
<1>1. SIDs \in SUBSET Nat /\ SIDs # {} /\ IsFiniteSet(SIDs)
  BY SIDsAssumption
<1>2. Min(SIDs) \in SIDs
  BY <1>1, LeastNumber DEF Min
<1>3. Max(SIDs) \in Nat /\ \A s \in SIDs : s < Max(SIDs) + 1
  <2>1. Max(SIDs) \in SIDs /\ \A s \in SIDs : Max(SIDs) >= s
    BY <1>1, GreatestNumber, Zenon
  <2> DEFINE m == Max(SIDs)
  <2> HIDE DEF m
  <2>2. m \in Nat /\ \A s \in SIDs : s \in Nat /\ m >= s
    BY <1>1, <2>1 DEF m
  <2>3. \A s \in SIDs : s < m + 1
    BY <2>2
  <2>. QED  BY <2>2, <2>3 DEF m
<1>4. Radix \in Nat /\ Radix > 0 /\ \A s \in SIDs : s < Radix
  BY <1>3 DEF Radix
<1>5. ASSUME NEW t \in Nat, NEW s \in SIDs
      PROVE  /\ CSN(t, s) \in Nat
             /\ SIDOf(CSN(t, s)) = s
             /\ CSN(t, s) < (t + 1) * Radix
             /\ t * Radix <= CSN(t, s)
             /\ t > 0 => CSN(t, s) > 0
  <2>1. s \in Nat /\ s < Radix
    BY <1>1, <1>4
  <2> DEFINE r == Radix
  <2>2. r \in Nat /\ r > 0 /\ s < r
    BY <1>4, <2>1
  <2> HIDE DEF r
  <2>3. (t * r + s) % r = s
    BY <2>1, <2>2, SMT
  <2>4. t * r \in Nat /\ (t + 1) * r = t * r + r /\ (t > 0 => t * r > 0)
    BY <2>2, SMT
  <2>5. t * r + s \in Nat /\ t * r + s < (t + 1) * r /\ t * r <= t * r + s /\ (t > 0 => t * r + s > 0)
    BY <2>1, <2>2, <2>4
  <2>. QED  BY <2>3, <2>5 DEF CSN, SIDOf, r
<1>. QED  BY <1>2, <1>4, <1>5

\* The vectors: merging and advancing keeps them vectors.
LEMMA VectorsTyped ==
    /\ NoState \in CSNState
    /\ \A a, b \in CSNState : Merge(a, b) \in CSNState
    /\ \A a \in CSNState, c \in Nat : Advance(a, c) \in CSNState
  BY DEF NoState, CSNState, NoCSN, Merge, Advance

\* A stored entry has a CSN; an absent one has none.
LEMMA EntryTyped ==
    /\ Absent \in Entries
    /\ \A e \in Entries : e.csn \in Nat /\ (e = Absent <=> e.csn = NoCSN)
                        /\ e.visibility \in Visibility
  BY DEF Entries, Absent, NoCSN, Visibility

\* syncContextCSNs: a vector that covers the stored one and every stored entry.
LEMMA ContextFacts ==
    ASSUME NEW n \in Nodes, entries[n] \in [UUIDs -> Entries], context[n] \in CSNState
    PROVE  /\ ContextCSNs(n) \in CSNState
           /\ \A s \in SIDs : ContextCSNs(n)[s] >= context[n][s]
           /\ \A u \in UUIDs : LET c == entries[n][u].csn IN
                 c # NoCSN /\ SIDOf(c) \in SIDs => ContextCSNs(n)[SIDOf(c)] >= c
<1> DEFINE Issued(s) == {v \in UUIDs : entries[n][v].csn # NoCSN /\ SIDOf(entries[n][v].csn) = s}
           csnOf == [v \in UUIDs |-> entries[n][v].csn]
           C(s) == {context[n][s]} \cup {entries[n][u].csn : u \in Issued(s)}
<1>1. \A v \in UUIDs : entries[n][v].csn \in Nat
  BY EntryTyped
<1>2. ASSUME NEW s \in SIDs
      PROVE  C(s) \in SUBSET Nat /\ C(s) # {} /\ IsFiniteSet(C(s))
  <2>1. IsFiniteSet(Issued(s))
    BY FS_Subset, BoundsAssumption
  <2>2. IsFiniteSet({csnOf[u] : u \in Issued(s)})
    BY <2>1, FiniteImage, ZenonT(40)
  <2>3. IsFiniteSet({entries[n][u].csn : u \in Issued(s)})
    BY <2>2
  <2>4. IsFiniteSet(C(s))
    BY <2>3, FS_Singleton, FS_Union
  <2>5. context[n][s] \in Nat
    BY DEF CSNState
  <2>. QED  BY <1>1, <2>4, <2>5
<1>3. \A s \in SIDs : Max(C(s)) \in Nat /\ \A y \in C(s) : Max(C(s)) >= y
  BY <1>2, GreatestNumber
<1>4. ContextCSNs(n) = [s \in SIDs |-> Max(C(s))]
  BY DEF ContextCSNs
<1>5. \A s \in SIDs : context[n][s] \in C(s)
  OBVIOUS
<1>6. \A u \in UUIDs : entries[n][u].csn # NoCSN /\ SIDOf(entries[n][u].csn) \in SIDs
                       => entries[n][u].csn \in C(SIDOf(entries[n][u].csn))
  OBVIOUS
<1> HIDE DEF C
<1>. QED  BY <1>3, <1>4, <1>5, <1>6 DEF CSNState

\* The changes that a session log holds.
SessionLogs == [base : CSNState, latest : CSNState, changes : Seq(Changes)]

LEMMA EmptyLogTyped ==
    ASSUME NEW c \in CSNState
    PROVE  EmptyLog(c) \in SessionLogs /\ Len(EmptyLog(c).changes) = 0
  BY DEF EmptyLog, SessionLogs

\* log.append: the window stays within its size.
LEMMA LogAppendTyped ==
    ASSUME NEW g \in SessionLogs, Len(g.changes) <= LogSize, NEW change \in Changes
    PROVE  LogAppend(g, change) \in SessionLogs /\ Len(LogAppend(g, change).changes) <= LogSize
<1> DEFINE sid == SIDOf(change.csn)
           moved == [g EXCEPT !.latest[sid] = change.csn]
           longer == [moved EXCEPT !.changes = Append(@, change)]
<1>1. change.csn \in Nat /\ g.base \in CSNState /\ g.latest \in CSNState /\ g.changes \in Seq(Changes)
  BY DEF Changes, SessionLogs
<1>2. /\ moved \in SessionLogs /\ moved.changes = g.changes /\ moved.base = g.base
  <2>1. [g.latest EXCEPT ![sid] = change.csn] \in CSNState
    BY <1>1 DEF CSNState
  <2>. QED  BY <2>1 DEF SessionLogs
<1> HIDE DEF moved
<1>3. longer \in SessionLogs /\ longer.changes = Append(g.changes, change)
  <2>1. Append(moved.changes, change) \in Seq(Changes)
    BY <1>1, <1>2
  <2>. QED  BY <1>2, <2>1 DEF SessionLogs
<1> HIDE DEF longer
<1>4. Trim(longer) \in SessionLogs /\ Len(Trim(longer).changes) <= LogSize
  <2>1. LogSize \in Nat /\ Len(longer.changes) = Len(g.changes) + 1 /\ Len(g.changes) \in Nat
    BY <1>1, <1>3, LogSizeAssumption
  <2>2. CASE ~(Len(longer.changes) > LogSize)
    BY <1>3, <2>1, <2>2 DEF Trim
  <2>3. CASE Len(longer.changes) > LogSize
    <3>1. longer.changes \in Seq(Changes) /\ longer.changes # <<>> /\ longer.base \in CSNState
      BY <1>1, <1>3 DEF SessionLogs
    <3>2. Head(longer.changes) \in Changes /\ Tail(longer.changes) \in Seq(Changes)
          /\ Len(Tail(longer.changes)) = Len(longer.changes) - 1
      BY <3>1
    <3>3. Advance(longer.base, Head(longer.changes).csn) \in CSNState
      BY <3>1, <3>2, VectorsTyped DEF Changes
    <3>4. Trim(longer) = [longer EXCEPT !.base = Advance(longer.base, Head(longer.changes).csn),
                                        !.changes = Tail(longer.changes)]
      BY <2>3 DEF Trim
    <3> DEFINE b == Advance(longer.base, Head(longer.changes).csn)
               t == Tail(longer.changes)
    <3> HIDE DEF b, t
    <3>5. /\ [longer EXCEPT !.base = b, !.changes = t] \in SessionLogs
          /\ [longer EXCEPT !.base = b, !.changes = t].changes = t
      BY <1>3, <3>2, <3>3 DEF SessionLogs, b, t
    <3>6. Len(t) <= LogSize
      BY <1>3, <2>1, <3>2 DEF t
    <3>. QED  BY <3>4, <3>5, <3>6 DEF b, t
  <2>. QED  BY <2>2, <2>3
<1>5. LogAppend(g, change) \in {g, moved, Trim(longer)}
  BY DEF LogAppend, moved, longer
<1>. QED  BY <1>1, <1>2, <1>4, <1>5

\* The elements of a sequence are finitely many.
LEMMA FiniteRange ==
    ASSUME NEW T, NEW s \in Seq(T)
    PROVE  IsFiniteSet(Range(s)) /\ Range(s) \in SUBSET T
<1>1. DOMAIN s = 1..Len(s) /\ Len(s) \in Nat /\ \A i \in DOMAIN s : s[i] \in T
  OBVIOUS
<1>2. IsFiniteSet(DOMAIN s)
  BY <1>1, FS_Interval
<1>3. IsFiniteSet({s[i] : i \in DOMAIN s})
  BY <1>2, FiniteImage
<1>. QED  BY <1>1, <1>3 DEF Range

\* prepareSyncRefresh: the CSN at which an entry left is a number.
LEMMA LeftAtTyped ==
    ASSUME NEW R \in SUBSET Changes, IsFiniteSet(R), NEW u
    PROVE  LeftAt(R, u) \in Nat
<1> DEFINE mine == {change \in R : change.uuid = u /\ "in" \in {change.before, change.after}}
           csnOf == [change \in R |-> change.csn]
           C == {change.csn : change \in mine}
<1>1. IsFiniteSet(mine) /\ mine \subseteq R
  BY FS_Subset
<1>2. C = {csnOf[x] : x \in mine}
  OBVIOUS
<1>3. IsFiniteSet(C)
  <2>1. mine \subseteq DOMAIN csnOf
    BY <1>1
  <2> HIDE DEF csnOf, mine
  <2>2. IsFiniteSet({csnOf[x] : x \in mine})
    BY <1>1, <2>1, FiniteImage
  <2>. QED  BY <1>2, <2>2
<1>4. C \in SUBSET Nat
  BY DEF Changes
<1>5. mine # {} => C # {}
  OBVIOUS
<1>6. mine # {} => Max(C) \in Nat
  BY <1>3, <1>4, <1>5, GreatestNumber
<1>. QED  BY <1>6 DEF LeftAt, NoCSN

-----------------------------------------------------------------------------
(* What a search returns.                                                  *)

\* One response of each kind.
LEMMA ResponseTyped ==
    ASSUME NEW kind \in {"entry", "delete", "present", "newCookie", "refreshDone", "failed"},
           NEW U \in SUBSET UUIDs, NEW c \in Nat, NEW ck \in CSNState, NEW rd \in BOOLEAN
    PROVE  Response(kind, U, c, ck, rd) \in Responses
  BY DEF Response, Responses

\* A sequence given by its elements.
LEMMA SequenceOf ==
    ASSUME NEW T, NEW n \in Nat, NEW f, f = [i \in 1..n |-> f[i]], \A i \in 1..n : f[i] \in T
    PROVE  f \in Seq(T) /\ Len(f) = n
  OBVIOUS

\* The elements of a concatenation.
LEMMA RangeConcat ==
    ASSUME NEW T, NEW q \in Seq(T), NEW r \in Seq(T)
    PROVE  Range(q \o r) \subseteq Range(q) \cup Range(r)
<1>1. /\ Len(q) \in Nat /\ Len(r) \in Nat
      /\ DOMAIN q = 1..Len(q) /\ DOMAIN r = 1..Len(r) /\ DOMAIN (q \o r) = 1..(Len(q) + Len(r))
      /\ \A i \in 1..(Len(q) + Len(r)) : (q \o r)[i] = IF i <= Len(q) THEN q[i] ELSE r[i - Len(q)]
  OBVIOUS
<1>2. ASSUME NEW i \in 1..(Len(q) + Len(r)) PROVE (q \o r)[i] \in Range(q) \cup Range(r)
  <2>1. CASE i <= Len(q)
    <3>1. i \in 1..Len(q)
      BY <1>1, <2>1
    <3>. QED  BY <1>1, <2>1, <3>1 DEF Range
  <2>2. CASE ~(i <= Len(q))
    <3>1. i - Len(q) \in 1..Len(r)
      BY <1>1, <2>2
    <3>. QED  BY <1>1, <2>2, <3>1 DEF Range
  <2>. QED  BY <2>1, <2>2
<1> DEFINE t == q \o r
<1> HIDE DEF t
<1>3. DOMAIN t = 1..(Len(q) + Len(r)) /\ \A i \in 1..(Len(q) + Len(r)) : t[i] \in Range(q) \cup Range(r)
  BY <1>1, <1>2 DEF t
<1>4. Range(t) \subseteq Range(q) \cup Range(r)
  BY <1>3 DEF Range
<1>. QED  BY <1>4 DEF t

\* writeSyncSearch: a refresh is a sequence of responses, and sends no entry that
\* its read transaction does not show in the search.
LEMMA RefreshTyped ==
    ASSUME NEW view \in [UUIDs -> Entries], NEW ck \in CSNState, NEW snapshot \in CSNState,
           NEW R \in SUBSET Changes, IsFiniteSet(R), NEW rd \in BOOLEAN
    PROVE  /\ RefreshResponses(view, ck, snapshot, R, rd) \in Seq(Responses)
           /\ \A r \in Range(RefreshResponses(view, ck, snapshot, R, rd)) :
                 r.kind = "entry" => \A u \in r.uuids : view[u].visibility = "in"
<1> DEFINE current == {u \in UUIDs : view[u].visibility = "in"}
           changed == {u \in current : EntryChanged(ck, view[u].csn)}
           left == {u \in UUIDs \ current : LeftAt(R, u) # NoCSN}
           leftAt == [u \in UUIDs |-> LeftAt(R, u)]
           L == {LeftAt(R, u) : u \in left}
           at == Sorted(L)
           Here(s, i) == {at[j] : j \in {k \in 1..i : SIDOf(at[k]) = s}}
           upTo(i) == [s \in SIDs |-> Max({ck[s]} \cup Here(s, i))]
           present == current \ changed
           A == IF rd \/ present = {} THEN <<>>
                ELSE <<Response("present", present, NoCSN, NoState, FALSE)>>
           B == [i \in 1..Cardinality(changed) |->
                   LET u == Sorted(changed)[i] IN Response("entry", {u}, view[u].csn, NoState, FALSE)]
           D == [i \in 1..Len(at) |->
                   Response("delete", {u \in left : LeftAt(R, u) = at[i]}, at[i], upTo(i), FALSE)]
           E == <<Response("refreshDone", {}, NoCSN, snapshot, rd)>>
<1>1. NoState \in CSNState /\ NoCSN \in Nat
  BY VectorsTyped DEF NoCSN
<1>2. \A u \in UUIDs : view[u].csn \in Nat
  BY EntryTyped
<1>3. changed \in SUBSET UUIDs /\ changed \in SUBSET Nat /\ IsFiniteSet(changed)
  BY FS_Subset, BoundsAssumption
<1>4. Cardinality(changed) \in Nat /\ Sorted(changed) \in [1..Cardinality(changed) -> changed]
  BY <1>3, SortedFacts
<1>5. IsFiniteSet(left) /\ left \subseteq UUIDs
  BY FS_Subset, BoundsAssumption
<1>6. IsFiniteSet(L) /\ L \in SUBSET Nat
  <2>1. left \subseteq DOMAIN leftAt
    BY <1>5
  <2>2. L = {leftAt[x] : x \in left}
    BY <1>5
  <2>3. \A u \in left : LeftAt(R, u) \in Nat
    BY LeftAtTyped
  <2> HIDE DEF leftAt, left
  <2>4. IsFiniteSet({leftAt[x] : x \in left})
    BY <1>5, <2>1, FiniteImage
  <2>. QED  BY <2>2, <2>3, <2>4
<1> HIDE DEF L
<1>7. Cardinality(L) \in Nat /\ at \in [1..Cardinality(L) -> L]
  BY <1>6, SortedFacts
<1> HIDE DEF at
<1>8. at \in Seq(Nat) /\ Len(at) = Cardinality(L)
  <2>1. at = [i \in 1..Cardinality(L) |-> at[i]] /\ \A i \in 1..Cardinality(L) : at[i] \in Nat
    BY <1>6, <1>7
  <2>. QED  BY <1>7, <2>1, SequenceOf
<1>9. ASSUME NEW i \in 1..Len(at) PROVE upTo(i) \in CSNState
  <2>1. ASSUME NEW s \in SIDs PROVE Max({ck[s]} \cup Here(s, i)) \in Nat
    <3> DEFINE K == {k \in 1..i : SIDOf(at[k]) = s}
    <3>1. IsFiniteSet(K) /\ K \subseteq 1..Len(at)
      <4>1. i \in Int /\ Len(at) \in Nat /\ i <= Len(at)
        BY <1>8
      <4>2. IsFiniteSet(1..i) /\ 1..i \subseteq 1..Len(at)
        BY <4>1, FS_Interval
      <4>. QED  BY <4>2, FS_Subset
    <3>2. \A k \in K : at[k] \in Nat
      BY <1>8, <3>1
    <3>3. DOMAIN at = 1..Len(at)
      BY <1>8
    <3>4. Here(s, i) = {at[x] : x \in K}
      OBVIOUS
    <3> HIDE DEF K
    <3>5. IsFiniteSet({at[x] : x \in K})
      BY <3>1, <3>3, FiniteImage
    <3>6. IsFiniteSet({ck[s]} \cup {at[x] : x \in K})
      BY <3>5, FS_Singleton, FS_Union
    <3>7. {ck[s]} \cup {at[x] : x \in K} \in SUBSET Nat
      BY <3>2 DEF CSNState
    <3>8. Max({ck[s]} \cup {at[x] : x \in K}) \in Nat
      BY <3>6, <3>7, GreatestNumber
    <3>. QED  BY <3>4, <3>8
  <2> HIDE DEF Here
  <2>. QED  BY <2>1 DEF CSNState
<1> HIDE DEF upTo
<1>10. A \in Seq(Responses)
  <2>1. Response("present", present, NoCSN, NoState, FALSE) \in Responses
    BY <1>1, ResponseTyped
  <2> DEFINE r == Response("present", present, NoCSN, NoState, FALSE)
  <2> HIDE DEF r
  <2>a. r \in Responses
    BY <2>1 DEF r
  <2>2. <<r>> \in Seq(Responses)
    BY <2>a
  <2>3. <<>> \in Seq(Responses)
    OBVIOUS
  <2>. QED  BY <2>2, <2>3, Zenon DEF r
<1>11. B \in Seq(Responses)
  <2>1. ASSUME NEW i \in 1..Cardinality(changed) PROVE B[i] \in Responses
    <3>1. Sorted(changed)[i] \in UUIDs
      BY <1>3, <1>4
    <3>2. Response("entry", {Sorted(changed)[i]}, view[Sorted(changed)[i]].csn, NoState, FALSE) \in Responses
      BY <1>1, <1>2, <3>1, ResponseTyped
    <3>. QED  BY <3>2
  <2>2. B = [i \in 1..Cardinality(changed) |-> B[i]]
    OBVIOUS
  <2> HIDE DEF B
  <2>. QED  BY <1>4, <2>1, <2>2, SequenceOf
<1>12. D \in Seq(Responses)
  <2>1. ASSUME NEW i \in 1..Len(at) PROVE D[i] \in Responses
    <3>1. at[i] \in Nat /\ upTo(i) \in CSNState
      BY <1>8, <1>9
    <3>2. {u \in left : LeftAt(R, u) = at[i]} \in SUBSET UUIDs
      BY <1>5
    <3>3. Response("delete", {u \in left : LeftAt(R, u) = at[i]}, at[i], upTo(i), FALSE) \in Responses
      BY <3>1, <3>2, ResponseTyped
    <3>. QED  BY <3>3
  <2>2. D = [i \in 1..Len(at) |-> D[i]]
    OBVIOUS
  <2>3. Len(at) \in Nat
    BY <1>8
  <2> HIDE DEF D
  <2>. QED  BY <2>1, <2>2, <2>3, SequenceOf
<1>13. E \in Seq(Responses)
  <2>1. Response("refreshDone", {}, NoCSN, snapshot, rd) \in Responses
    BY <1>1, ResponseTyped
  <2>. QED  BY <2>1
<1>14. RefreshResponses(view, ck, snapshot, R, rd) = A \o B \o D \o E
  BY DEF RefreshResponses, at, L, upTo
<1>15. \A r \in Range(A) \cup Range(D) \cup Range(E) : r.kind # "entry"
  <2>1. Range(<<>>) = {} /\ \A x : Range(<<x>>) = {x}
    BY DEF Range
  <2>2. \A kind, U, c, v, d : Response(kind, U, c, v, d).kind = kind
    BY DEF Response
  <2>3. \A r \in Range(A) : r.kind # "entry"
    <3> DEFINE p == Response("present", present, NoCSN, NoState, FALSE)
    <3>1. p.kind = "present"
      <4> HIDE DEF present
      <4>. QED  BY DEF Response
    <3>2. A = <<>> \/ A = <<p>>
      OBVIOUS
    <3> HIDE DEF A, p
    <3>. QED  BY <2>1, <3>1, <3>2
  <2>4. \A r \in Range(E) : r.kind # "entry"
    <3> DEFINE p == Response("refreshDone", {}, NoCSN, snapshot, rd)
    <3>1. p.kind = "refreshDone" /\ E = <<p>>
      BY <2>2
    <3> HIDE DEF E, p
    <3>. QED  BY <2>1, <3>1
  <2>5. \A r \in Range(D) : r.kind # "entry"
    <3>1. ASSUME NEW i \in 1..Len(at) PROVE D[i].kind = "delete"
      <4> DEFINE U == {u \in left : LeftAt(R, u) = at[i]}
                 v == upTo(i)
      <4>1. D[i] = Response("delete", U, at[i], v, FALSE)
        OBVIOUS
      <4> HIDE DEF U, v, D
      <4>. QED  BY <4>1 DEF Response
    <3>2. DOMAIN D = 1..Len(at)
      OBVIOUS
    <3> HIDE DEF D
    <3>. QED  BY <3>1, <3>2 DEF Range
  <2>. QED  BY <2>3, <2>4, <2>5
<1>16. \A r \in Range(B) : \A u \in r.uuids : view[u].visibility = "in"
  <2>1. ASSUME NEW i \in 1..Cardinality(changed), NEW u \in B[i].uuids PROVE view[u].visibility = "in"
    <3>1. B[i].uuids = {Sorted(changed)[i]}
      BY DEF Response
    <3>2. Sorted(changed)[i] \in changed
      BY <1>4
    <3>. QED  BY <3>1, <3>2
  <2>2. DOMAIN B = 1..Cardinality(changed)
    OBVIOUS
  <2> HIDE DEF B
  <2>. QED  BY <2>1, <2>2, SMTT(30) DEF Range
<1> HIDE DEF A, B, D, E
<1>17. A \o B \in Seq(Responses) /\ A \o B \o D \in Seq(Responses) /\ A \o B \o D \o E \in Seq(Responses)
  BY <1>10, <1>11, <1>12, <1>13
<1>18. Range(A \o B \o D \o E) \subseteq Range(A) \cup Range(B) \cup Range(D) \cup Range(E)
  <2>1. Range(A \o B) \subseteq Range(A) \cup Range(B)
    BY <1>10, <1>11, RangeConcat
  <2>2. Range((A \o B) \o D) \subseteq Range(A \o B) \cup Range(D)
    BY <1>12, <1>17, RangeConcat
  <2>3. Range((A \o B \o D) \o E) \subseteq Range(A \o B \o D) \cup Range(E)
    BY <1>13, <1>17, RangeConcat
  <2>. QED  BY <2>1, <2>2, <2>3
<1>. QED  BY <1>14, <1>15, <1>16, <1>17, <1>18

-----------------------------------------------------------------------------
(* The state keeps its type.                                               *)

Sessions == [phase : {"idle", "subscribed", "reading", "persist", "ended"}, mode : Modes,
             events : Seq(Changes), overflow : BOOLEAN, snapshot : CSNState,
             view : [UUIDs -> Entries] \cup {<<>>},
             live : CSNState, stream : Seq(Responses), seen : SUBSET UUIDs]

\* What TypeOK says of one session, and the read transaction that a reading one has.
SessionOK(s) ==
    /\ s \in Sessions
    /\ Len(s.events) <= ChannelSize
    /\ s.phase = "reading" => s.view \in [UUIDs -> Entries]

StoredOK ==
    /\ entries \in [Nodes -> [UUIDs -> Entries]]
    /\ context \in [Nodes -> CSNState] /\ tombstones \in [Nodes -> [UUIDs -> Nat]]
    /\ cookie \in [Links -> CSNState]

LogsOK ==
    /\ log \in [Nodes -> SessionLogs]
    /\ \A n \in Nodes : Len(log[n].changes) <= LogSize

SessionsOK ==
    /\ session = [l \in Links |-> session[l]]
    /\ \A l \in Links : SessionOK(session[l])

CountersOK == clock \in [Nodes -> 0..MaxTime] /\ faults \in 0..MaxFaults

\* The type of the state, and what a search in its read transaction has in hand.
TypeInv ==
    /\ StoredOK /\ LogsOK /\ SessionsOK /\ CountersOK
    /\ publishing \in [Clients \cup Links -> Seq(Changes)]

LEMMA TypeInvImpliesTypeOK == TypeInv => TypeOK
<1> SUFFICES ASSUME TypeInv PROVE TypeOK
  OBVIOUS
<1>1. session \in [Links -> Sessions] /\ \A l \in Links : Len(session[l].events) <= ChannelSize
  BY DEF TypeInv, SessionsOK, SessionOK
<1>. QED  BY <1>1 DEF TypeInv, TypeOK, StoredOK, LogsOK, CountersOK, SessionLogs, Sessions

LEMMA Bounds ==
    /\ ChannelSize \in Nat /\ MaxStream \in Nat /\ MaxTime \in Nat /\ MaxFaults \in Nat
    /\ \A u \in UUIDs : u \in Nat /\ u # NoUUID
    /\ Cardinality(Loaded) \in 0..MaxTime
    /\ IsFiniteSet(Loaded)
<1>1. IsFiniteSet(Loaded) /\ Cardinality(Loaded) \in Nat
  BY FS_Subset, FS_CardinalityType, BoundsAssumption
<1>. QED  BY <1>1, BoundsAssumption

LEMMA ClosedOK == \A mode \in Modes : SessionOK(Closed(mode))
<1>1. <<>> \in Seq(Changes) /\ Len(<<>>) = 0 /\ <<>> \in Seq(Responses)
  OBVIOUS
<1>2. SUFFICES ASSUME NEW mode \in Modes PROVE SessionOK(Closed(mode))
  OBVIOUS
<1>3. NoState \in CSNState
  BY VectorsTyped
<1>4. Closed(mode) \in Sessions
  BY <1>1, <1>3 DEF Closed, Sessions
<1>5. Closed(mode).events = <<>> /\ Closed(mode).phase = "idle"
  BY DEF Closed
<1>. QED  BY <1>1, <1>4, <1>5, Bounds DEF SessionOK

\* The entries that the providers start with have CSNs of their own.
LEMMA LoadedFacts ==
    /\ \A u \in Loaded : LoadedCSN(u) \in Nat /\ LoadedCSN(u) > 0 /\ SIDOf(LoadedCSN(u)) = Min(SIDs)
    /\ LoadedContext \in CSNState
<1>1. ASSUME NEW u \in Loaded
      PROVE  LoadedCSN(u) \in Nat /\ LoadedCSN(u) > 0 /\ SIDOf(LoadedCSN(u)) = Min(SIDs)
  <2> DEFINE V == {v \in Loaded : v <= u}
             c == Cardinality(V)
  <2>1. u \in V
    BY Bounds, BoundsAssumption
  <2>2. IsFiniteSet(V) /\ c \in Nat /\ (c = 0 <=> V = {})
    BY Bounds, FS_Subset, FS_CardinalityType, FS_EmptySet
  <2>3. c \in Nat /\ c > 0
    BY <2>1, <2>2
  <2> HIDE DEF c
  <2>4. CSN(c, Min(SIDs)) \in Nat /\ CSN(c, Min(SIDs)) > 0 /\ SIDOf(CSN(c, Min(SIDs))) = Min(SIDs)
    BY <2>3, CSNFacts
  <2>. QED  BY <2>4 DEF LoadedCSN, c
<1>2. LoadedContext \in CSNState
  <2> DEFINE f == [u \in Loaded |-> LoadedCSN(u)]
             C == {NoCSN} \cup {LoadedCSN(u) : u \in Loaded}
  <2>1. {LoadedCSN(u) : u \in Loaded} = {f[x] : x \in Loaded} /\ Loaded \subseteq DOMAIN f
    OBVIOUS
  <2>2. IsFiniteSet({f[x] : x \in Loaded})
    <3> HIDE DEF f
    <3>. QED  BY <2>1, Bounds, FiniteImage
  <2>3. IsFiniteSet(C)
    BY <2>1, <2>2, FS_Singleton, FS_Union
  <2>4. C \in SUBSET Nat /\ C # {}
    BY <1>1 DEF NoCSN
  <2>5. Max(C) \in Nat
    BY <2>3, <2>4, GreatestNumber
  <2> HIDE DEF C
  <2>6. LoadedContext = [NoState EXCEPT ![Min(SIDs)] = Max(C)]
    BY DEF LoadedContext, C
  <2>. QED  BY <2>5, <2>6, VectorsTyped DEF CSNState
<1>. QED  BY <1>1, <1>2

LEMMA InitTyped == Init => TypeInv
<1> SUFFICES ASSUME Init PROVE TypeInv
  OBVIOUS
<1>1. NoState \in CSNState /\ LoadedContext \in CSNState
  BY VectorsTyped, LoadedFacts
<1>2. entries \in [Nodes -> [UUIDs -> Entries]]
  <2>1. \A u \in Loaded : [visibility |-> "in", csn |-> LoadedCSN(u)] \in Entries
    BY LoadedFacts DEF Entries, NoCSN
  <2>. QED  BY <2>1, EntryTyped DEF Init
<1>3. StoredOK
  BY <1>1, <1>2 DEF Init, StoredOK, NoCSN
<1>4. LogsOK
  <2>1. \A n \in Nodes : log[n] \in SessionLogs /\ Len(log[n].changes) = 0
    BY <1>1, EmptyLogTyped DEF Init
  <2>2. log = [n \in Nodes |-> log[n]]
    BY DEF Init
  <2>. QED  BY <2>1, <2>2, LogSizeAssumption DEF LogsOK
<1>5. SessionsOK
  <2>1. \A l \in Links : session[l] \in {Closed(mode) : mode \in Modes}
    BY DEF Init
  <2>2. session = [l \in Links |-> session[l]]
    BY DEF Init
  <2>. QED  BY <2>1, <2>2, ClosedOK DEF SessionsOK
<1>6. CountersOK
  BY Bounds DEF Init, CountersOK
<1>7. publishing \in [Clients \cup Links -> Seq(Changes)]
  BY DEF Init
<1>. QED  BY <1>3, <1>4, <1>5, <1>6, <1>7 DEF TypeInv

\* What an action changes: the parts that it leaves alone stay typed.
LEMMA SessionsOnly ==
    ASSUME TypeInv, UNCHANGED <<stored, clock, log, publishing, faults>>, SessionsOK'
    PROVE  TypeInv'
  BY DEF TypeInv, stored, StoredOK, LogsOK, CountersOK

LEMMA OneSession ==
    ASSUME SessionsOK, NEW l \in Links, SessionOK(session[l])', session' = [session EXCEPT ![l] = session'[l]]
    PROVE  SessionsOK'
<1>1. \A m \in Links : m # l => session'[m] = session[m]
  BY DEF SessionsOK
<1>2. session' = [m \in Links |-> session'[m]]
  BY DEF SessionsOK
<1>3. \A m \in Links : SessionOK(session[m])'
  BY <1>1 DEF SessionsOK, SessionOK
<1>. QED  BY <1>2, <1>3 DEF SessionsOK

\* Servers and what they are.
LEMMA Topology ==
    /\ \A l \in Links : l[1] \in Nodes /\ l[2] \in Nodes /\ l[1] \in Providers
    /\ \A k \in Clients : Home[k] \in Nodes /\ Home[k] \in Providers
    /\ \A n \in Nodes : ServerID[n] \in SIDs
    /\ \A n \in Providers : n \in Nodes
  BY TopologyAssumption

\* A client's write.
LEMMA CommitTyped ==
    ASSUME TypeInv, NEW k \in Clients, NEW u \in UUIDs, NEW after \in {"none", "in", "out"},
           CommitWrite(k, u, after)
    PROVE  TypeInv'
<1> DEFINE n == Home[k]
           csn == CSN(clock[n] + 1, ServerID[n])
           change == Change(u, entries[n][u].visibility, after, csn)
<1>1. n \in Nodes /\ ServerID[n] \in SIDs /\ clock[n] \in Nat /\ clock[n] < MaxTime
  BY Topology, Bounds DEF CommitWrite, TypeInv, CountersOK
<1>2. csn \in Nat /\ csn > 0
  <2>1. clock[n] + 1 \in Nat /\ clock[n] + 1 > 0
    BY <1>1
  <2>. QED  BY <1>1, <2>1, CSNFacts
<1>3. entries[n][u] \in Entries
  BY <1>1 DEF TypeInv, StoredOK
<1> HIDE DEF n, csn
<1>4. change \in Changes
  BY <1>2, <1>3, EntryTyped DEF Change, Changes, Visibility
<1> HIDE DEF change
<1>5. StoredOK'
  <2>1. entries' = [entries EXCEPT ![n][u] =
              IF after = "none" THEN Absent ELSE [visibility |-> after, csn |-> csn]]
    BY DEF CommitWrite, n, csn
  <2>2. (IF after = "none" THEN Absent ELSE [visibility |-> after, csn |-> csn]) \in Entries
    BY <1>2, EntryTyped DEF Entries, NoCSN
  <2>3. entries' \in [Nodes -> [UUIDs -> Entries]]
    BY <2>1, <2>2 DEF TypeInv, StoredOK
  <2>4. tombstones' = [tombstones EXCEPT ![n] = Entombed(tombstones[n], u, after, csn)]
    BY DEF CommitWrite, n, csn
  <2>5. \A t \in [UUIDs -> Nat] : Entombed(t, u, after, csn) \in [UUIDs -> Nat]
    BY <1>2 DEF Entombed, NoCSN
  <2>6. tombstones' \in [Nodes -> [UUIDs -> Nat]]
    BY <1>1, <2>4, <2>5 DEF TypeInv, StoredOK
  <2>7. context' = [context EXCEPT ![n] = Advance(context[n], csn)]
    BY DEF CommitWrite, n, csn
  <2>8. context' \in [Nodes -> CSNState]
    BY <1>1, <1>2, <2>7, VectorsTyped DEF TypeInv, StoredOK
  <2>9. cookie' = cookie
    BY DEF CommitWrite
  <2>. QED  BY <2>3, <2>6, <2>8, <2>9 DEF TypeInv, StoredOK
<1>6. CountersOK'
  <2>1. clock' = [clock EXCEPT ![n] = clock[n] + 1] /\ faults' = faults
    BY DEF CommitWrite, n
  <2>2. clock[n] + 1 \in 0..MaxTime
    BY <1>1, Bounds
  <2>. QED  BY <2>1, <2>2 DEF TypeInv, CountersOK
<1>7. publishing' \in [Clients \cup Links -> Seq(Changes)]
  <2>1. publishing' = [publishing EXCEPT ![k] = <<change>>]
    BY DEF CommitWrite, change, n, csn
  <2>. QED  BY <1>4, <2>1 DEF TypeInv
<1>8. LogsOK' /\ SessionsOK'
  <2>1. log' = log /\ session' = session
    BY DEF CommitWrite
  <2>. QED  BY <2>1 DEF TypeInv, LogsOK, SessionsOK
<1>. QED  BY <1>5, <1>6, <1>7, <1>8 DEF TypeInv

LEMMA ClientTyped ==
    ASSUME TypeInv, NEW k \in Clients, Add(k) \/ Modify(k) \/ Delete(k)
    PROVE  TypeInv'
<1>1. \A a \in Matching : a \in {"none", "in", "out"}
  BY BoundsAssumption
<1>2. \E u \in UUIDs, after \in {"none", "in", "out"} : CommitWrite(k, u, after)
  BY <1>1, Zenon DEF Add, Modify, Delete
<1>. QED  BY <1>2, CommitTyped

\* syncChangeHub.publish: a full channel overflows and does not grow.
LEMMA PublishTyped ==
    ASSUME TypeInv, NEW a \in Clients \cup Links, Publish(a)
    PROVE  TypeInv'
<1> DEFINE n == NodeOf(a)
           change == Head(publishing[a])
<1>1. n \in Nodes
  BY Topology DEF NodeOf
<1>2. publishing[a] \in Seq(Changes) /\ publishing[a] # <<>>
  BY DEF TypeInv, Publish
<1>3. change \in Changes /\ Tail(publishing[a]) \in Seq(Changes)
  BY <1>2
<1>4. publishing' \in [Clients \cup Links -> Seq(Changes)]
  BY <1>3 DEF Publish, TypeInv
<1>5. LogsOK'
  <2>1. log' = [log EXCEPT ![n] = IF LogSize > 0 THEN LogAppend(log[n], change) ELSE log[n]]
    BY DEF Publish
  <2>2. log[n] \in SessionLogs /\ Len(log[n].changes) <= LogSize
    BY <1>1 DEF TypeInv, LogsOK
  <2>3. LogAppend(log[n], change) \in SessionLogs /\ Len(LogAppend(log[n], change).changes) <= LogSize
    BY <1>3, <2>2, LogAppendTyped
  <2> HIDE DEF n, change
  <2>4. \A m \in Nodes : log'[m] \in SessionLogs /\ Len(log'[m].changes) <= LogSize
    BY <2>1, <2>2, <2>3 DEF TypeInv, LogsOK
  <2>5. log' = [m \in Nodes |-> log'[m]]
    BY <2>1 DEF TypeInv, LogsOK
  <2>. QED  BY <2>4, <2>5 DEF LogsOK
<1>6. SessionsOK'
  <2> HIDE DEF n, change
  <2>1. session' = [l \in Links |->
              IF l[1] = n /\ Subscribed(l) THEN Offer(session[l], change) ELSE session[l]]
    BY DEF Publish, n, change
  <2>2. ASSUME NEW l \in Links PROVE SessionOK(Offer(session[l], change))
    <3> DEFINE s == session[l]
    <3>1. SessionOK(s) /\ s.events \in Seq(Changes) /\ Len(s.events) \in Nat
      BY DEF TypeInv, SessionsOK, SessionOK, Sessions
    <3> HIDE DEF s
    <3>2. CASE Len(s.events) < ChannelSize
      <4>1. Append(s.events, change) \in Seq(Changes) /\ Len(Append(s.events, change)) <= ChannelSize
        BY <1>3, <3>1, <3>2, Bounds
      <4>2. [s EXCEPT !.events = Append(s.events, change)] \in Sessions
        BY <3>1, <4>1 DEF SessionOK, Sessions
      <4>3. /\ [s EXCEPT !.events = Append(s.events, change)].events = Append(s.events, change)
            /\ [s EXCEPT !.events = Append(s.events, change)].phase = s.phase
            /\ [s EXCEPT !.events = Append(s.events, change)].view = s.view
        BY <3>1 DEF SessionOK, Sessions
      <4>4. Offer(s, change) = [s EXCEPT !.events = Append(s.events, change)]
        BY <3>2 DEF Offer
      <4>. QED  BY <3>1, <4>1, <4>2, <4>3, <4>4 DEF SessionOK, s
    <3>3. CASE ~(Len(s.events) < ChannelSize)
      <4>1. Offer(s, change) = [s EXCEPT !.overflow = TRUE]
        BY <3>3 DEF Offer
      <4>. QED  BY <3>1, <4>1 DEF SessionOK, Sessions, s
    <3>. QED  BY <3>2, <3>3
  <2>3. \A l \in Links : SessionOK(session[l])'
    BY <2>1, <2>2 DEF TypeInv, SessionsOK, SessionOK
  <2>. QED  BY <2>1, <2>3 DEF SessionsOK
<1>7. StoredOK' /\ CountersOK'
  BY DEF Publish, TypeInv, stored, StoredOK, CountersOK
<1>. QED  BY <1>4, <1>5, <1>6, <1>7 DEF TypeInv

\* A session that changes its phase, its cookie and what it streams.
LEMMA SessionRead ==
    ASSUME TypeInv, NEW l \in Links
    PROVE  /\ session[l] \in Sessions /\ SessionOK(session[l])
           /\ session[l].mode \in Modes /\ session[l].events \in Seq(Changes)
           /\ session[l].snapshot \in CSNState /\ session[l].live \in CSNState
           /\ session[l].stream \in Seq(Responses)
           /\ session = [m \in Links |-> session[m]]
  BY DEF TypeInv, SessionsOK, SessionOK, Sessions

\* The provider's side of a search.
LEMMA ConnectTyped ==
    ASSUME TypeInv, NEW l \in Links, Connect(l)
    PROVE  TypeInv'
<1>1. session' = [session EXCEPT ![l] = [session[l] EXCEPT !.phase = "subscribed"]]
  BY SessionRead DEF Connect
<1>2. SessionOK([session[l] EXCEPT !.phase = "subscribed"])
  BY SessionRead DEF SessionOK, Sessions
<1>3. SessionOK(session[l])' /\ session' = [session EXCEPT ![l] = session'[l]]
  BY <1>1, <1>2, SessionRead
<1>. QED  BY <1>3, OneSession, SessionsOnly DEF Connect, TypeInv

LEMMA CaptureTyped ==
    ASSUME TypeInv, NEW l \in Links, CaptureSnapshot(l)
    PROVE  TypeInv'
<1> DEFINE view == entries[l[1]]
           snapshot == ContextCSNs(l[1])
           s == [session[l] EXCEPT !.phase = "reading", !.view = view, !.snapshot = snapshot]
<1>1. view \in [UUIDs -> Entries] /\ snapshot \in CSNState
  <2>1. l[1] \in Nodes /\ entries[l[1]] \in [UUIDs -> Entries] /\ context[l[1]] \in CSNState
    BY Topology DEF TypeInv, StoredOK
  <2>. QED  BY <2>1, ContextFacts
<1>2. session' = [session EXCEPT ![l] = s]
  BY SessionRead DEF CaptureSnapshot
<1> HIDE DEF view, snapshot
<1>3. SessionOK(s)
  BY <1>1, SessionRead DEF SessionOK, Sessions
<1> HIDE DEF s
<1>4. SessionOK(session[l])' /\ session' = [session EXCEPT ![l] = session'[l]]
  BY <1>2, <1>3, SessionRead
<1>. QED  BY <1>4, OneSession, SessionsOnly DEF CaptureSnapshot, TypeInv

\* A cookie that is not comparable is not used; one that is keeps the type.
LEMMA ComparableTyped ==
    ASSUME NEW ck \in CSNState, NEW snapshot \in CSNState
    PROVE  ComparableCookie(ck, snapshot) \in CSNState
  BY VectorsTyped, SMTT(30) DEF ComparableCookie, CSNState, NoCSN

LEMMA RefreshOK ==
    ASSUME TypeInv, NEW l \in Links, Refresh(l)
    PROVE  TypeInv'
<1> DEFINE old == session[l]
           known == ComparableCookie(cookie[l], old.snapshot)
           replays == known # NoState /\ Usable(log[l[1]], known, old.snapshot)
           from == IF known # NoState /\ ~replays /\ ~CookieStateExists(old.view, known) THEN NoState ELSE known
           replay == IF replays THEN Replayed(log[l[1]], known, old.snapshot) ELSE {}
           failure == SnapshotFailure(cookie[l], old.snapshot)
           phase == IF failure \/ old.mode = "refreshOnly" THEN "ended" ELSE "persist"
           stream == IF failure THEN <<Failed>>
                     ELSE RefreshResponses(old.view, from, old.snapshot, replay, replays)
           s == [old EXCEPT !.phase = phase, !.view = <<>>, !.stream = stream]
<1>1. old.phase = "reading" /\ old.view \in [UUIDs -> Entries] /\ old.snapshot \in CSNState
  BY SessionRead DEF Refresh, SessionOK
<1>2. known \in CSNState /\ from \in CSNState
  BY <1>1, ComparableTyped, VectorsTyped DEF TypeInv, StoredOK
<1>3. replay \in SUBSET Changes /\ IsFiniteSet(replay)
  <2>1. log[l[1]].changes \in Seq(Changes)
    BY Topology DEF TypeInv, LogsOK, SessionLogs
  <2>2. IsFiniteSet(Range(log[l[1]].changes)) /\ Range(log[l[1]].changes) \in SUBSET Changes
    BY <2>1, FiniteRange
  <2>3. Replayed(log[l[1]], known, old.snapshot) \in SUBSET Range(log[l[1]].changes)
    BY DEF Replayed
  <2>4. IsFiniteSet(Replayed(log[l[1]], known, old.snapshot))
    BY <2>2, <2>3, FS_Subset
  <2>. QED  BY <2>2, <2>3, <2>4, FS_EmptySet
<1>4. replays \in BOOLEAN
  BY DEF Usable
<1>5. session' = [session EXCEPT ![l] = s]
  BY SessionRead DEF Refresh
<1> HIDE DEF known, replays, from, replay
<1>6. stream \in Seq(Responses)
  <2>1. RefreshResponses(old.view, from, old.snapshot, replay, replays) \in Seq(Responses)
    BY <1>1, <1>2, <1>3, <1>4, RefreshTyped
  <2>2. Failed \in Responses
    BY ResponseTyped, VectorsTyped DEF Failed, NoCSN
  <2>3. <<Failed>> \in Seq(Responses)
    BY <2>2
  <2>. QED  BY <2>1, <2>3
<1>7. phase \in {"ended", "persist"}
  OBVIOUS
<1> HIDE DEF stream, phase
<1>8. SessionOK(s)
  BY <1>6, <1>7, SessionRead DEF SessionOK, Sessions
<1> HIDE DEF s
<1>9. SessionOK(session[l])' /\ session' = [session EXCEPT ![l] = session'[l]]
  BY <1>5, <1>8, SessionRead
<1>. QED  BY <1>9, OneSession, SessionsOnly DEF Refresh, TypeInv

LEMMA ChangeResponseTyped ==
    ASSUME NEW change \in Changes, NEW snapshot \in CSNState
    PROVE  ChangeResponse(change, snapshot) \in Responses
<1>1. change.csn \in Nat /\ NoState \in CSNState /\ NoCSN \in Nat
  BY VectorsTyped DEF Changes, NoCSN
<1>2. Advance(NoState, change.csn) \in CSNState
  BY <1>1, VectorsTyped
<1>3. change.after = "in" \/ change.before = "in" => {change.uuid} \in SUBSET UUIDs
  BY SMTT(30) DEF Changes
<1>. QED  BY <1>1, <1>2, <1>3, ResponseTyped DEF ChangeResponse

LEMMA PersistChangeTyped ==
    ASSUME TypeInv, NEW l \in Links, PersistChange(l)
    PROVE  TypeInv'
<1> DEFINE old == session[l]
           change == Head(old.events)
           sid == SIDOf(change.csn)
           snapshot == [old.snapshot EXCEPT ![sid] = change.csn]
           live == [old.live EXCEPT ![sid] = change.csn]
           stream == Append(old.stream, ChangeResponse(change, snapshot))
           rest == Tail(old.events)
           skip == [old EXCEPT !.events = rest]
           send == [old EXCEPT !.events = rest, !.snapshot = snapshot, !.live = live, !.stream = stream]
<1>1. old.events \in Seq(Changes) /\ old.events # <<>> /\ Len(old.events) <= ChannelSize /\ old.phase = "persist"
  BY SessionRead DEF PersistChange, SessionOK
<1>2. change \in Changes /\ rest \in Seq(Changes) /\ Len(rest) <= ChannelSize
  <2> HIDE DEF old
  <2>. QED  BY <1>1, Bounds
<1>3. change.csn \in Nat
  BY <1>2 DEF Changes
<1>4. snapshot \in CSNState /\ live \in CSNState
  BY <1>3, SessionRead DEF CSNState
<1>5. session' = [session EXCEPT ![l] = IF Skipped(old, change) THEN skip ELSE send]
  BY SessionRead DEF PersistChange
<1> HIDE DEF change, sid, snapshot, live, rest
<1>6. stream \in Seq(Responses)
  BY <1>2, <1>4, ChangeResponseTyped, SessionRead
<1> HIDE DEF stream
<1>7. SessionOK(skip)
  BY <1>1, <1>2, SessionRead DEF SessionOK, Sessions
<1>8. SessionOK(send)
  BY <1>1, <1>2, <1>4, <1>6, SessionRead DEF SessionOK, Sessions
<1> HIDE DEF skip, send
<1>9. SessionOK(session[l])' /\ session' = [session EXCEPT ![l] = session'[l]]
  <2>1. CASE Skipped(old, change)
    BY <1>5, <1>7, <2>1, SessionRead
  <2>2. CASE ~Skipped(old, change)
    BY <1>5, <1>8, <2>2, SessionRead
  <2>. QED  BY <2>1, <2>2
<1>. QED  BY <1>9, OneSession, SessionsOnly, Zenon DEF PersistChange, TypeInv

LEMMA PersistOverflowTyped ==
    ASSUME TypeInv, NEW l \in Links, PersistOverflow(l)
    PROVE  TypeInv'
<1> DEFINE stream == Append(session[l].stream, Failed)
           s == [session[l] EXCEPT !.phase = "ended", !.stream = stream]
<1>1. Failed \in Responses
  BY ResponseTyped, VectorsTyped DEF Failed, NoCSN
<1>2. stream \in Seq(Responses)
  BY <1>1, SessionRead
<1>3. session' = [session EXCEPT ![l] = s]
  BY SessionRead DEF PersistOverflow
<1> HIDE DEF stream
<1>4. SessionOK(s)
  BY <1>2, SessionRead DEF SessionOK, Sessions
<1> HIDE DEF s
<1>5. SessionOK(session[l])' /\ session' = [session EXCEPT ![l] = session'[l]]
  BY <1>3, <1>4, SessionRead
<1>. QED  BY <1>5, OneSession, SessionsOnly DEF PersistOverflow, TypeInv

\* A search that is dropped.
LEMMA SearchFailedTyped ==
    ASSUME TypeInv, NEW l \in Links, SearchFailed(l)
    PROVE  TypeInv'
<1>1. session' = [session EXCEPT ![l] = Closed(session[l].mode)]
  BY DEF SearchFailed
<1>2. SessionOK(Closed(session[l].mode))
  BY ClosedOK, SessionRead
<1>3. SessionOK(session[l])' /\ session' = [session EXCEPT ![l] = session'[l]]
  BY <1>1, <1>2, SessionRead
<1>. QED  BY <1>3, OneSession, SessionsOnly DEF SearchFailed, TypeInv

LEMMA DisconnectTyped ==
    ASSUME TypeInv, NEW l \in Links, Disconnect(l)
    PROVE  TypeInv'
<1>1. session' = [session EXCEPT ![l] = Closed(session[l].mode)]
  BY DEF Disconnect
<1>2. SessionOK(Closed(session[l].mode))
  BY ClosedOK, SessionRead
<1>3. SessionOK(session[l])' /\ session' = [session EXCEPT ![l] = session'[l]]
  BY <1>1, <1>2, SessionRead
<1>4. SessionsOK'
  BY <1>3, OneSession DEF TypeInv
<1>5. CountersOK'
  BY Bounds DEF Disconnect, TypeInv, CountersOK
<1>6. StoredOK' /\ LogsOK' /\ publishing' = publishing
  BY DEF Disconnect, stored, TypeInv, StoredOK, LogsOK
<1>. QED  BY <1>4, <1>5, <1>6 DEF TypeInv

LEMMA RestartTyped ==
    ASSUME TypeInv, NEW n \in Nodes, Restart(n)
    PROVE  TypeInv'
<1>1. SessionsOK'
  <2>1. session' = [l \in Links |-> IF n \in {l[1], l[2]} THEN Closed(session[l].mode) ELSE session[l]]
    BY DEF Restart
  <2>2. \A l \in Links : SessionOK(Closed(session[l].mode)) /\ SessionOK(session[l])
    BY ClosedOK, SessionRead
  <2>3. \A l \in Links : SessionOK(session[l])'
    BY <2>1, <2>2
  <2>. QED  BY <2>1, <2>3 DEF SessionsOK
<1>2. LogsOK'
  <2>1. log' = [log EXCEPT ![n] = IF n \in Providers THEN EmptyLog(ContextCSNs(n)) ELSE log[n]]
    BY DEF Restart
  <2>2. ContextCSNs(n) \in CSNState
    <3>1. entries[n] \in [UUIDs -> Entries] /\ context[n] \in CSNState
      BY DEF TypeInv, StoredOK
    <3>. QED  BY <3>1, ContextFacts
  <2>3. EmptyLog(ContextCSNs(n)) \in SessionLogs /\ Len(EmptyLog(ContextCSNs(n)).changes) <= LogSize
    BY <2>2, EmptyLogTyped, LogSizeAssumption
  <2>4. \A m \in Nodes : log'[m] \in SessionLogs /\ Len(log'[m].changes) <= LogSize
    BY <2>1, <2>3 DEF TypeInv, LogsOK
  <2>5. log' = [m \in Nodes |-> log'[m]]
    BY <2>1 DEF TypeInv, LogsOK
  <2>. QED  BY <2>4, <2>5 DEF LogsOK
<1>3. publishing' \in [Clients \cup Links -> Seq(Changes)]
  <2>1. <<>> \in Seq(Changes)
    OBVIOUS
  <2>. QED  BY <2>1 DEF Restart, TypeInv
<1>4. CountersOK'
  BY Bounds DEF Restart, TypeInv, CountersOK
<1>5. StoredOK'
  BY DEF Restart, stored, TypeInv, StoredOK
<1>. QED  BY <1>1, <1>2, <1>3, <1>4, <1>5 DEF TypeInv

-----------------------------------------------------------------------------
(* The worker's transactions keep the type.                                *)

\* The CSNs by which a cookie advances are finitely many.
LEMMA AdvancesFacts ==
    ASSUME NEW l \in Links, NEW ck \in CSNState
    PROVE  Advances(l, ck) \in SUBSET Nat /\ IsFiniteSet(Advances(l, ck))
<1> DEFINE A == {s \in SIDs : ck[s] > cookie[l][s]}
<1>1. IsFiniteSet(A) /\ A \subseteq SIDs
  BY FS_Subset, SIDsAssumption
<1>2. DOMAIN ck = SIDs /\ \A s \in SIDs : ck[s] \in Nat
  BY DEF CSNState
<1>3. Advances(l, ck) = {ck[x] : x \in A}
  BY DEF Advances
<1> HIDE DEF A
<1>4. IsFiniteSet({ck[x] : x \in A})
  BY <1>1, <1>2, FiniteImage
<1>. QED  BY <1>1, <1>2, <1>3, <1>4

\* A set of CSNs in ascending order.
LEMMA SortedNumbers ==
    ASSUME NEW S \in SUBSET Nat, IsFiniteSet(S), NEW T
    PROVE  Sorted(S) \in Seq(Nat) /\ Sorted(S \ T) \in Seq(Nat)
<1>1. ASSUME NEW R \in SUBSET Nat, IsFiniteSet(R) PROVE Sorted(R) \in Seq(Nat)
  <2> DEFINE q == Sorted(R)
  <2>1. Cardinality(R) \in Nat /\ q \in [1..Cardinality(R) -> R]
    BY <1>1, SortedFacts
  <2> HIDE DEF q
  <2>2. q = [i \in 1..Cardinality(R) |-> q[i]] /\ \A i \in 1..Cardinality(R) : q[i] \in Nat
    BY <2>1
  <2>3. q \in Seq(Nat)
    BY <2>1, <2>2, SequenceOf
  <2>. QED  BY <2>3 DEF q
<1>2. S \ T \in SUBSET Nat /\ IsFiniteSet(S \ T)
  BY FS_Subset
<1>. QED  BY <1>1, <1>2

\* The deletions of a transaction.
LEMMA DeletionsTyped ==
    ASSUME TypeInv, NEW n \in Nodes, NEW gone \in SUBSET UUIDs, NEW csn \in Nat
    PROVE  Deletions(n, gone, csn) \in Seq(Changes)
<1> DEFINE D == Deletions(n, gone, csn)
<1>1. IsFiniteSet(gone) /\ gone \in SUBSET Nat
  BY FS_Subset, BoundsAssumption
<1>2. Cardinality(gone) \in Nat /\ Sorted(gone) \in [1..Cardinality(gone) -> gone]
  BY <1>1, SortedFacts
<1>3. D = [i \in 1..Cardinality(gone) |->
            Change(Sorted(gone)[i], entries[n][Sorted(gone)[i]].visibility, "none", csn)]
  BY DEF Deletions
<1>4. ASSUME NEW i \in 1..Cardinality(gone) PROVE D[i] \in Changes
  <2>1. Sorted(gone)[i] \in UUIDs
    BY <1>2
  <2>2. entries[n][Sorted(gone)[i]].visibility \in Visibility
    BY <2>1, EntryTyped DEF TypeInv, StoredOK
  <2>. QED  BY <1>3, <2>1, <2>2 DEF Change, Changes, Visibility
<1>5. D = [i \in 1..Cardinality(gone) |-> D[i]]
  BY <1>3
<1> HIDE DEF D
<1>6. D \in Seq(Changes)
  BY <1>2, <1>4, <1>5, SequenceOf
<1>. QED  BY <1>6 DEF D

\* The rest of a transaction.
LEMMA FinishTyped ==
    ASSUME TypeInv, NEW l \in Links, NEW ck \in CSNState, NEW recorded \in Seq(Changes),
           NEW contextOnly \in Seq(Nat), NEW worker, SessionOK(worker), worker.stream # <<>>,
           Finish(l, ck, recorded, contextOnly, worker),
           entries' \in [Nodes -> [UUIDs -> Entries]], tombstones' \in [Nodes -> [UUIDs -> Nat]]
    PROVE  TypeInv'
<1> DEFINE n == l[2]
           merged == Merge(cookie[l], ck)
           own == [i \in 1..Len(contextOnly) |-> Change(NoUUID, "none", "none", contextOnly[i])]
           changes == recorded \o own
           J(s) == {j \in 1..Len(changes) : SIDOf(changes[j].csn) = s}
           C(s) == {NoCSN} \cup {changes[i].csn : i \in J(s)}
           newest == [s \in SIDs |-> IF n \notin Providers THEN NoCSN ELSE Max(C(s))]
           s2 == [worker EXCEPT !.stream = Tail(worker.stream)]
<1>1. n \in Nodes /\ cookie[l] \in CSNState
  BY Topology DEF TypeInv, StoredOK
<1>2. merged \in CSNState
  BY <1>1, VectorsTyped
<1>3. changes \in Seq(Changes)
  <2>1. Len(contextOnly) \in Nat /\ \A i \in 1..Len(contextOnly) : own[i] \in Changes
    BY DEF Change, Changes
  <2>2. own = [i \in 1..Len(contextOnly) |-> own[i]]
    OBVIOUS
  <2> HIDE DEF own
  <2>3. own \in Seq(Changes)
    BY <2>1, <2>2, SequenceOf
  <2>. QED  BY <2>3
<1> HIDE DEF changes
<1>4. newest \in CSNState
  <2>1. ASSUME NEW s \in SIDs PROVE Max(C(s)) \in Nat
    <3> DEFINE f == [i \in 1..Len(changes) |-> changes[i].csn]
    <3>1. Len(changes) \in Nat /\ \A i \in 1..Len(changes) : changes[i].csn \in Nat
      BY <1>3 DEF Changes
    <3>2. IsFiniteSet(J(s)) /\ J(s) \subseteq DOMAIN f /\ \A x \in J(s) : f[x] \in Nat
      <4>1. IsFiniteSet(1..Len(changes)) /\ J(s) \in SUBSET (1..Len(changes))
        BY <3>1, FS_Interval
      <4>2. IsFiniteSet(J(s))
        <5> HIDE DEF J
        <5>. QED  BY <4>1, FS_Subset
      <4>3. DOMAIN f = 1..Len(changes) /\ \A x \in 1..Len(changes) : f[x] \in Nat
        BY <3>1
      <4>. QED  BY <4>1, <4>2, <4>3
    <3>3. C(s) = {NoCSN} \cup {f[x] : x \in J(s)}
      OBVIOUS
    <3> HIDE DEF f, J, C
    <3>4. IsFiniteSet({f[x] : x \in J(s)})
      BY <3>2, FiniteImage
    <3>5. IsFiniteSet({NoCSN} \cup {f[x] : x \in J(s)})
      BY <3>4, FS_Singleton, FS_Union
    <3>6. {NoCSN} \cup {f[x] : x \in J(s)} \in SUBSET Nat
      BY <3>2 DEF NoCSN
    <3>7. Max({NoCSN} \cup {f[x] : x \in J(s)}) \in Nat
      BY <3>5, <3>6, GreatestNumber
    <3>. QED  BY <3>3, <3>7
  <2> HIDE DEF C
  <2>. QED  BY <2>1 DEF CSNState, NoCSN
<1>5. cookie' = [cookie EXCEPT ![l] = merged] /\ context' = [context EXCEPT ![n] = Merge(Merge(context[n], merged), newest)]
  BY DEF Finish, changes
<1>6. publishing' = [publishing EXCEPT ![l] = IF n \in Providers THEN changes ELSE <<>>]
  BY DEF Finish, changes
<1>7. session' = [session EXCEPT ![l] = s2] /\ UNCHANGED <<clock, log, faults>>
  BY DEF Finish
<1> HIDE DEF n, merged, newest
<1>8. StoredOK'
  <2>1. Merge(Merge(context[n], merged), newest) \in CSNState
    BY <1>1, <1>2, <1>4, VectorsTyped DEF TypeInv, StoredOK
  <2>. QED  BY <1>2, <1>5, <2>1 DEF TypeInv, StoredOK
<1>9. publishing' \in [Clients \cup Links -> Seq(Changes)]
  <2>1. <<>> \in Seq(Changes)
    OBVIOUS
  <2>. QED  BY <1>3, <1>6, <2>1 DEF TypeInv
<1>10. SessionOK(s2)
  <2>1. worker.stream \in Seq(Responses)
    BY DEF SessionOK, Sessions
  <2>2. Tail(worker.stream) \in Seq(Responses)
    BY <2>1
  <2>. QED  BY <2>2 DEF SessionOK, Sessions
<1> HIDE DEF s2
<1>11. SessionOK(session[l])' /\ session' = [session EXCEPT ![l] = session'[l]]
  BY <1>7, <1>10, SessionRead
<1>12. SessionsOK'
  BY <1>11, OneSession DEF TypeInv
<1>13. LogsOK' /\ CountersOK'
  BY <1>7 DEF TypeInv, LogsOK, CountersOK
<1>. QED  BY <1>8, <1>9, <1>12, <1>13 DEF TypeInv

\* The head of a stream.
LEMMA HeadTyped ==
    ASSUME TypeInv, NEW l \in Links, session[l].stream # <<>>
    PROVE  LET m == Head(session[l].stream)
           IN  /\ m \in Responses
               /\ m.uuids \in SUBSET UUIDs /\ m.csn \in Nat /\ m.cookie \in CSNState
<1>1. session[l].stream \in Seq(Responses)
  BY SessionRead
<1>2. Head(session[l].stream) \in Responses
  BY <1>1
<1>. QED  BY <1>2 DEF Responses

\* What the worker has seen of a Present phase.
LEMMA SeenOK ==
    ASSUME TypeInv, NEW l \in Links, NEW U \in SUBSET UUIDs
    PROVE  /\ SessionOK([session[l] EXCEPT !.seen = session[l].seen \cup U])
           /\ [session[l] EXCEPT !.seen = session[l].seen \cup U].stream = session[l].stream
<1>1. session[l].seen \cup U \in SUBSET UUIDs
  BY SessionRead DEF Sessions
<1> DEFINE seen == session[l].seen \cup U
<1> HIDE DEF seen
<1>2. seen \in SUBSET UUIDs
  BY <1>1 DEF seen
<1>3. SessionOK([session[l] EXCEPT !.seen = seen]) /\ [session[l] EXCEPT !.seen = seen].stream = session[l].stream
  BY <1>2, SessionRead DEF SessionOK, Sessions
<1>. QED  BY <1>3 DEF seen

LEMMA ApplyPresentTyped ==
    ASSUME TypeInv, NEW l \in Links, ApplyPresent(l) \/ ApplyNewCookie(l)
    PROVE  TypeInv'
<1> DEFINE m == Head(session[l].stream)
           contextOnly == Sorted(Advances(l, m.cookie))
           noted == [session[l] EXCEPT !.seen = session[l].seen \cup m.uuids]
<1>1. session[l].stream # <<>>
  BY DEF ApplyPresent, ApplyNewCookie, Reads
<1>2. m.uuids \in SUBSET UUIDs /\ m.cookie \in CSNState
  BY <1>1, HeadTyped
<1>3. contextOnly \in Seq(Nat)
  <2>1. Advances(l, m.cookie) \in SUBSET Nat /\ IsFiniteSet(Advances(l, m.cookie))
    BY <1>2, AdvancesFacts
  <2>. QED  BY <2>1, SortedNumbers
<1>4. SessionOK(noted) /\ noted.stream # <<>>
  BY <1>1, <1>2, SeenOK
<1>5. SessionOK(session[l])
  BY SessionRead
<1>6. <<>> \in Seq(Changes)
  OBVIOUS
<1>7. entries' \in [Nodes -> [UUIDs -> Entries]] /\ tombstones' \in [Nodes -> [UUIDs -> Nat]]
  BY DEF ApplyPresent, ApplyNewCookie, TypeInv, StoredOK
<1>8. Finish(l, m.cookie, <<>>, contextOnly, noted) \/ Finish(l, m.cookie, <<>>, contextOnly, session[l])
  BY DEF ApplyPresent, ApplyNewCookie
<1> HIDE DEF m, contextOnly, noted
<1>. QED  BY <1>1, <1>2, <1>3, <1>4, <1>5, <1>6, <1>7, <1>8, FinishTyped

LEMMA ApplyEntryTyped ==
    ASSUME TypeInv, NEW l \in Links, ApplyEntry(l)
    PROVE  TypeInv'
<1> DEFINE m == Head(session[l].stream)
           n == l[2]
           worker == [session[l] EXCEPT !.seen = session[l].seen \cup m.uuids]
           advances == Advances(l, m.cookie)
<1>1. session[l].stream # <<>>
  BY DEF ApplyEntry, Reads
<1>2. m.uuids \in SUBSET UUIDs /\ m.cookie \in CSNState /\ m.csn \in Nat /\ n \in Nodes
  BY <1>1, HeadTyped, Topology
<1>3. SessionOK(worker) /\ worker.stream # <<>>
  BY <1>1, <1>2, SeenOK
<1>4. Sorted(advances) \in Seq(Nat) /\ Sorted(advances \ {m.csn}) \in Seq(Nat)
  <2>1. advances \in SUBSET Nat /\ IsFiniteSet(advances)
    BY <1>2, AdvancesFacts
  <2>. QED  BY <2>1, SortedNumbers
<1>5. PICK u \in m.uuids :
              IF Stale(n, u, m.csn)
              THEN /\ UNCHANGED <<entries, tombstones>>
                   /\ Finish(l, m.cookie, <<>>, Sorted(advances), worker)
              ELSE /\ entries' = [entries EXCEPT ![n][u] = [visibility |-> "in", csn |-> m.csn]]
                   /\ tombstones' = [tombstones EXCEPT ![n] = Entombed(tombstones[n], u, "in", m.csn)]
                   /\ Finish(l, m.cookie, <<Change(u, entries[n][u].visibility, "in", m.csn)>>,
                             Sorted(advances \ {m.csn}), worker)
  BY DEF ApplyEntry
<1>6. u \in UUIDs
  BY <1>2
<1> HIDE DEF m, n, worker, advances
<1>7. CASE Stale(n, u, m.csn)
  <2>1. entries' \in [Nodes -> [UUIDs -> Entries]] /\ tombstones' \in [Nodes -> [UUIDs -> Nat]]
    BY <1>5, <1>7 DEF TypeInv, StoredOK
  <2>2. <<>> \in Seq(Changes)
    OBVIOUS
  <2>3. Finish(l, m.cookie, <<>>, Sorted(advances), worker)
    BY <1>5, <1>7
  <2>. QED  BY <1>2, <1>3, <1>4, <2>1, <2>2, <2>3, FinishTyped
<1>8. CASE ~Stale(n, u, m.csn)
  <2>1. m.csn # NoCSN
    <3>1. tombstones[n][u] \in Nat
      BY <1>2, <1>6 DEF TypeInv, StoredOK
    <3>. QED  BY <1>2, <1>8, <3>1 DEF Stale, NoCSN
  <2>2. [visibility |-> "in", csn |-> m.csn] \in Entries
    BY <1>2, <2>1 DEF Entries
  <2>3. entries' \in [Nodes -> [UUIDs -> Entries]]
    <3> DEFINE e == [visibility |-> "in", csn |-> m.csn]
    <3>1. entries' = [entries EXCEPT ![n][u] = e]
      BY <1>5, <1>8
    <3> HIDE DEF e
    <3>2. e \in Entries
      BY <2>2 DEF e
    <3>. QED  BY <3>1, <3>2 DEF TypeInv, StoredOK
  <2>4. Entombed(tombstones[n], u, "in", m.csn) \in [UUIDs -> Nat]
    BY <1>2 DEF TypeInv, StoredOK, Entombed, NoCSN
  <2>5. tombstones' \in [Nodes -> [UUIDs -> Nat]]
    BY <1>5, <1>8, <2>4 DEF TypeInv, StoredOK
  <2> DEFINE change == Change(u, entries[n][u].visibility, "in", m.csn)
  <2>6. change \in Changes
    <3>1. entries[n][u].visibility \in Visibility
      BY <1>2, <1>6, EntryTyped DEF TypeInv, StoredOK
    <3>. QED  BY <1>2, <1>6, <3>1 DEF Change, Changes, Visibility
  <2>7. Finish(l, m.cookie, <<change>>, Sorted(advances \ {m.csn}), worker)
    BY <1>5, <1>8
  <2> HIDE DEF change
  <2>8. <<change>> \in Seq(Changes)
    BY <2>6
  <2>. QED  BY <1>2, <1>3, <1>4, <2>3, <2>5, <2>7, <2>8, FinishTyped
<1>. QED  BY <1>7, <1>8

LEMMA ApplyDeleteTyped ==
    ASSUME TypeInv, NEW l \in Links, ApplyDelete(l)
    PROVE  TypeInv'
<1> DEFINE m == Head(session[l].stream)
           n == l[2]
           csn == DeletionCSN(l, m)
           gone == {u \in m.uuids : entries[n][u] # Absent /\ entries[n][u].csn <= csn}
           visible == IF gone = {} THEN {} ELSE {csn}
           advances == Advances(l, m.cookie)
           buried == [u \in UUIDs |-> IF u \in m.uuids THEN Max({tombstones[n][u], csn}) ELSE tombstones[n][u]]
<1>1. session[l].stream # <<>>
  BY DEF ApplyDelete, Reads
<1>2. m.uuids \in SUBSET UUIDs /\ m.cookie \in CSNState /\ m.csn \in Nat /\ n \in Nodes
  BY <1>1, HeadTyped, Topology
<1>3. advances \in SUBSET Nat /\ IsFiniteSet(advances)
  BY <1>2, AdvancesFacts
<1>4. csn \in Nat
  <2> HIDE DEF advances
  <2>0. IsFiniteSet({NoCSN} \cup advances)
    BY <1>3, FS_Singleton, FS_Union
  <2>1. IsFiniteSet({NoCSN} \cup advances) /\ {NoCSN} \cup advances \in SUBSET Nat
    BY <1>3, <2>0 DEF NoCSN
  <2>2. Max({NoCSN} \cup advances) \in Nat
    BY <2>1, GreatestNumber
  <2>. QED  BY <1>2, <2>2 DEF DeletionCSN, advances
<1>5. /\ Reads(l, "delete")
      /\ IF csn = NoCSN
         THEN /\ UNCHANGED <<entries, tombstones>>
              /\ Finish(l, m.cookie, <<>>, <<>>, session[l])
         ELSE /\ entries' = [entries EXCEPT ![n] = Without(entries[n], gone)]
              /\ tombstones' = [tombstones EXCEPT ![n] = buried]
              /\ Finish(l, m.cookie, Deletions(n, gone, csn), Sorted(advances \ visible), session[l])
  BY DEF ApplyDelete
<1>6. gone \in SUBSET UUIDs
  BY <1>2
<1>7. buried \in [UUIDs -> Nat]
  <2>1. ASSUME NEW u \in UUIDs PROVE Max({tombstones[n][u], csn}) \in Nat
    <3>1. tombstones[n][u] \in Nat
      BY <1>2 DEF TypeInv, StoredOK
    <3>2. {tombstones[n][u], csn} = {tombstones[n][u]} \cup {csn}
      OBVIOUS
    <3>3. IsFiniteSet({tombstones[n][u]} \cup {csn})
      BY FS_Singleton, FS_Union
    <3>4. {tombstones[n][u], csn} \in SUBSET Nat /\ IsFiniteSet({tombstones[n][u], csn})
      BY <1>4, <3>1, <3>2, <3>3
    <3>. QED  BY <3>4, GreatestNumber
  <2>2. \A u \in UUIDs : tombstones[n][u] \in Nat
    BY <1>2 DEF TypeInv, StoredOK
  <2>. QED  BY <2>1, <2>2
<1> HIDE DEF m, n, csn, gone, advances, visible, buried
<1>8. SessionOK(session[l])
  BY SessionRead
<1>9. <<>> \in Seq(Changes) /\ <<>> \in Seq(Nat)
  OBVIOUS
<1>10. CASE csn = NoCSN
  <2>1. entries' \in [Nodes -> [UUIDs -> Entries]] /\ tombstones' \in [Nodes -> [UUIDs -> Nat]]
    BY <1>5, <1>10 DEF TypeInv, StoredOK
  <2>2. Finish(l, m.cookie, <<>>, <<>>, session[l])
    BY <1>5, <1>10
  <2>. QED  BY <1>1, <1>2, <1>8, <1>9, <2>1, <2>2, FinishTyped
<1>11. CASE csn # NoCSN
  <2>1. \A e \in [UUIDs -> Entries] : Without(e, gone) \in [UUIDs -> Entries]
    BY EntryTyped DEF Without
  <2>2. entries' \in [Nodes -> [UUIDs -> Entries]]
    <3>1. entries' = [entries EXCEPT ![n] = Without(entries[n], gone)]
      BY <1>5, <1>11
    <3>2. entries \in [Nodes -> [UUIDs -> Entries]]
      BY DEF TypeInv, StoredOK
    <3>. QED  BY <1>2, <2>1, <3>1, <3>2
  <2>3. tombstones' \in [Nodes -> [UUIDs -> Nat]]
    BY <1>2, <1>5, <1>7, <1>11 DEF TypeInv, StoredOK
  <2>4. Deletions(n, gone, csn) \in Seq(Changes)
    BY <1>2, <1>4, <1>6, DeletionsTyped
  <2>5. Sorted(advances \ visible) \in Seq(Nat)
    BY <1>3, SortedNumbers
  <2>6. Finish(l, m.cookie, Deletions(n, gone, csn), Sorted(advances \ visible), session[l])
    BY <1>5, <1>11
  <2>. QED  BY <1>1, <1>2, <1>8, <2>2, <2>3, <2>4, <2>5, <2>6, FinishTyped
<1>. QED  BY <1>10, <1>11

LEMMA FinishRefreshTyped ==
    ASSUME TypeInv, NEW l \in Links, FinishRefresh(l)
    PROVE  TypeInv'
<1> DEFINE m == Head(session[l].stream)
           n == l[2]
           C == {m.cookie[s] : s \in SIDs}
           csn == Max(C)
           gone == IF m.refreshDeletes THEN {} ELSE Unseen(l, m)
           visible == IF gone = {} THEN {} ELSE {csn}
           advances == Advances(l, m.cookie)
           closing == [Closed(session[l].mode) EXCEPT !.stream = session[l].stream]
           worker == IF session[l].mode = "refreshOnly" THEN closing ELSE session[l]
           buried == [u \in UUIDs |-> IF u \in gone /\ n \in Providers
                                      THEN Max({tombstones[n][u], csn}) ELSE tombstones[n][u]]
<1>1. session[l].stream # <<>>
  BY DEF FinishRefresh, Reads
<1>2. m.uuids \in SUBSET UUIDs /\ m.cookie \in CSNState /\ m.csn \in Nat /\ n \in Nodes
  BY <1>1, HeadTyped, Topology
<1>3. advances \in SUBSET Nat /\ IsFiniteSet(advances)
  BY <1>2, AdvancesFacts
<1>4. csn \in Nat
  <2> DEFINE ck == m.cookie
  <2>1. DOMAIN ck = SIDs /\ (\A s \in SIDs : ck[s] \in Nat) /\ SIDs # {} /\ IsFiniteSet(SIDs)
    BY <1>2, SIDsAssumption DEF CSNState
  <2>2. C = {ck[x] : x \in SIDs}
    OBVIOUS
  <2> HIDE DEF ck
  <2>3. IsFiniteSet({ck[x] : x \in SIDs})
    BY <2>1, FiniteImage
  <2>4. {ck[x] : x \in SIDs} \in SUBSET Nat /\ {ck[x] : x \in SIDs} # {}
    BY <2>1
  <2>5. Max({ck[x] : x \in SIDs}) \in Nat
    BY <2>3, <2>4, GreatestNumber, SMTT(30)
  <2>. QED  BY <2>2, <2>5
<1>5. /\ entries' = [entries EXCEPT ![n] = Without(entries[n], gone)]
      /\ tombstones' = [tombstones EXCEPT ![n] = buried]
      /\ Finish(l, m.cookie, Deletions(n, gone, csn), Sorted(advances \ visible), worker)
  BY DEF FinishRefresh
<1>6. gone \in SUBSET UUIDs
  BY DEF Unseen
<1> HIDE DEF csn
<1>7. buried \in [UUIDs -> Nat]
  <2>1. ASSUME NEW u \in UUIDs PROVE Max({tombstones[n][u], csn}) \in Nat
    <3>1. tombstones[n][u] \in Nat
      BY <1>2 DEF TypeInv, StoredOK
    <3>2. {tombstones[n][u], csn} = {tombstones[n][u]} \cup {csn}
      OBVIOUS
    <3>3. IsFiniteSet({tombstones[n][u]} \cup {csn})
      BY FS_Singleton, FS_Union
    <3>4. {tombstones[n][u], csn} \in SUBSET Nat /\ IsFiniteSet({tombstones[n][u], csn})
      BY <1>4, <3>1, <3>2, <3>3
    <3>. QED  BY <3>4, GreatestNumber
  <2>2. \A u \in UUIDs : tombstones[n][u] \in Nat
    BY <1>2 DEF TypeInv, StoredOK
  <2>. QED  BY <2>1, <2>2
<1>8. SessionOK(worker) /\ worker.stream # <<>>
  <2>1. SessionOK(session[l]) /\ session[l].stream \in Seq(Responses) /\ session[l].mode \in Modes
    BY SessionRead
  <2> DEFINE stream == session[l].stream
             closed == Closed(session[l].mode)
  <2>2. SessionOK(closed) /\ stream \in Seq(Responses)
    BY <2>1, ClosedOK
  <2> HIDE DEF stream, closed
  <2>3. SessionOK([closed EXCEPT !.stream = stream]) /\ [closed EXCEPT !.stream = stream].stream = stream
    BY <2>2 DEF SessionOK, Sessions
  <2>. QED  BY <1>1, <2>1, <2>3 DEF stream, closed
<1> HIDE DEF m, n, gone, advances, visible, buried, worker
<1>9. \A e \in [UUIDs -> Entries] : Without(e, gone) \in [UUIDs -> Entries]
  BY EntryTyped DEF Without
<1>10. entries' \in [Nodes -> [UUIDs -> Entries]]
  BY <1>2, <1>5, <1>9 DEF TypeInv, StoredOK
<1>11. tombstones' \in [Nodes -> [UUIDs -> Nat]]
  BY <1>2, <1>5, <1>7 DEF TypeInv, StoredOK
<1>12. Deletions(n, gone, csn) \in Seq(Changes)
  BY <1>2, <1>4, <1>6, DeletionsTyped
<1>13. Sorted(advances \ visible) \in Seq(Nat)
  BY <1>3, SortedNumbers
<1>14. Finish(l, m.cookie, Deletions(n, gone, csn), Sorted(advances \ visible), worker)
  BY <1>5
<1>. QED  BY <1>2, <1>8, <1>10, <1>11, <1>12, <1>13, <1>14, FinishTyped

\* A server that does nothing.
LEMMA IdleTyped == TypeInv /\ UNCHANGED vars => TypeInv'
<1> SUFFICES ASSUME TypeInv, UNCHANGED vars PROVE TypeInv'
  OBVIOUS
<1>1. UNCHANGED <<entries, context, tombstones, cookie, clock, log, publishing, session, faults>>
  BY DEF vars
<1>2. StoredOK' /\ CountersOK'
  BY <1>1 DEF TypeInv, StoredOK, CountersOK
<1>3. LogsOK' /\ SessionsOK'
  BY <1>1 DEF TypeInv, LogsOK, SessionsOK
<1>. QED  BY <1>1, <1>2, <1>3 DEF TypeInv

LEMMA NextTyped == TypeInv /\ [Next]_vars => TypeInv'
<1> SUFFICES ASSUME TypeInv, [Next]_vars PROVE TypeInv'
  OBVIOUS
<1>1. CASE \E k \in Clients : Add(k) \/ Modify(k) \/ Delete(k)
  BY <1>1, ClientTyped
<1>2. CASE \E a \in Clients \cup Links : Publish(a)
  BY <1>2, PublishTyped
<1>3. ASSUME NEW l \in Links,
             Connect(l) \/ CaptureSnapshot(l) \/ Refresh(l) \/ PersistChange(l) \/ PersistOverflow(l)
      PROVE  TypeInv'
  BY <1>3, ConnectTyped, CaptureTyped, RefreshOK, PersistChangeTyped, PersistOverflowTyped
<1>4. ASSUME NEW l \in Links, Worker(l) PROVE TypeInv'
  BY <1>4, ApplyEntryTyped, ApplyDeleteTyped, ApplyPresentTyped, FinishRefreshTyped, SearchFailedTyped DEF Worker
<1>5. CASE \E l \in Links : Disconnect(l)
  BY <1>5, DisconnectTyped
<1>6. CASE \E n \in Nodes : Restart(n)
  BY <1>6, RestartTyped
<1>7. CASE UNCHANGED vars
  BY <1>7, IdleTyped
<1>. QED  BY <1>1, <1>2, <1>3, <1>4, <1>5, <1>6, <1>7 DEF Next

\* The state of every server, session log, channel and worker has its type,
\* and no session log and no change channel outgrows its size.
THEOREM TypeCorrect == Spec => []TypeOK
<1>1. Spec => []TypeInv
  BY InitTyped, NextTyped, PTL DEF Spec
<1>. QED  BY <1>1, TypeInvImpliesTypeOK, PTL

-----------------------------------------------------------------------------
(* A persistent search misses nothing.                                     *)

\* The CSN of an entry's latest change that a server has stored.
LatestOf(n, u) == IF entries[n][u] = Absent THEN tombstones[n][u] ELSE entries[n][u].csn

\* Committed changes that no writer has published yet.
Unpublished(n) == UNION {Range(publishing[a]) : a \in {b \in DOMAIN publishing : NodeOf(b) = n}}

\* The change is in the channel of a search or on its way there.
Announced(l, u, csn) ==
    \E change \in Range(session[l].events) \cup Unpublished(l[1]) : change.uuid = u /\ change.csn = csn

\* At a provider, CSNs come from known servers, the stored context covers the
\* tombstones, and the clock is past them.
CSNsOrdered ==
    \A n \in Providers, u \in UUIDs :
        /\ entries[n][u].csn # NoCSN => SIDOf(entries[n][u].csn) \in SIDs
        /\ tombstones[n][u] # NoCSN => /\ SIDOf(tombstones[n][u]) \in SIDs
                                       /\ tombstones[n][u] <= context[n][SIDOf(tombstones[n][u])]
        /\ tombstones[n][u] < (clock[n] + 1) * Radix

PersistsByMode ==
    \A l \in Links : session[l].phase = "persist" => session[l].mode = "refreshAndPersist"

\* The search need not be in its persist phase yet: its channel answers for
\* what happened after the snapshot from the moment the snapshot was taken.
SearchCovered(l, u) ==
    LET s == session[l]
        last == LatestOf(l[1], u)
    IN  /\ s.phase \in {"reading", "persist"} /\ s.mode = "refreshAndPersist" /\ ~s.overflow
        /\ last # NoCSN /\ last > s.snapshot[SIDOf(last)]
        => Announced(l, u, last)

SearchesMissNothing == \A l \in Links, u \in UUIDs : SearchCovered(l, u)

PersistInv == TypeInv /\ CSNsOrdered /\ PersistsByMode /\ SearchesMissNothing

\* The hypothesis of what follows: no consumer is a provider itself.
NoRelays == \A l \in Links : l[2] \notin Providers

\* A step that leaves alone what a provider has stored.
SameProvider(n) ==
    /\ entries'[n] = entries[n] /\ tombstones'[n] = tombstones[n]
    /\ context'[n] = context[n] /\ clock'[n] = clock[n]

\* A step after which a search is over, or has the channel and snapshot it had.
SameSearch(l) ==
    \/ session'[l].phase \notin {"reading", "persist"}
    \/ /\ session[l].phase \in {"reading", "persist"}
       /\ session'[l].phase = "persist" => session[l].mode = "refreshAndPersist"
       /\ session'[l].mode = session[l].mode /\ session'[l].events = session[l].events
       /\ session'[l].overflow = session[l].overflow /\ session'[l].snapshot = session[l].snapshot

\* Most steps touch neither.
LEMMA QuietStep ==
    ASSUME PersistInv, TypeInv', \A n \in Providers : SameProvider(n), publishing' = publishing,
           \A l \in Links : SameSearch(l)
    PROVE  PersistInv'
<1>1. CSNsOrdered'
  BY DEF PersistInv, CSNsOrdered, SameProvider
<1>2. PersistsByMode'
  BY DEF PersistsByMode, SameSearch
<1>3. ASSUME NEW l \in Links, NEW u \in UUIDs PROVE SearchCovered(l, u)'
  <2>1. LatestOf(l[1], u)' = LatestOf(l[1], u)
    BY Topology DEF LatestOf, SameProvider
  <2>2. Unpublished(l[1])' = Unpublished(l[1])
    BY DEF Unpublished
  <2>3. CASE session'[l].phase \notin {"reading", "persist"}
    BY <2>3 DEF SearchCovered
  <2>4. CASE session'[l].phase \in {"reading", "persist"}
    <3>1. /\ session[l].phase \in {"reading", "persist"}
          /\ session'[l].mode = session[l].mode /\ session'[l].events = session[l].events
          /\ session'[l].overflow = session[l].overflow /\ session'[l].snapshot = session[l].snapshot
      BY <2>4 DEF SameSearch
    <3>2. \A c : Announced(l, u, c)' <=> Announced(l, u, c)
      BY <2>2, <3>1 DEF Announced
    <3>3. SearchCovered(l, u)
      BY DEF PersistInv, SearchesMissNothing
    <3>. QED  BY <2>1, <3>1, <3>2, <3>3 DEF SearchCovered
  <2>. QED  BY <2>3, <2>4
<1>. QED  BY <1>1, <1>2, <1>3 DEF PersistInv, SearchesMissNothing

\* The parts of a sequence.
LEMMA RangeParts ==
    ASSUME NEW T, NEW q \in Seq(T)
    PROVE  /\ q # <<>> => Range(q) = {Head(q)} \cup Range(Tail(q))
           /\ \A x \in T : Range(Append(q, x)) = Range(q) \cup {x}
           /\ Range(<<>>) = {}
           /\ \A x : Range(<<x>>) = {x}
<1>1. ASSUME q # <<>> PROVE Range(q) = {Head(q)} \cup Range(Tail(q))
  <2>1. /\ Len(q) \in Nat /\ Len(q) > 0 /\ DOMAIN q = 1..Len(q) /\ DOMAIN Tail(q) = 1..(Len(q) - 1)
        /\ Head(q) = q[1] /\ \A i \in 1..(Len(q) - 1) : Tail(q)[i] = q[i + 1]
    BY <1>1
  <2>2. \A i \in 1..Len(q) : \/ q[i] = Head(q)
                             \/ i - 1 \in 1..(Len(q) - 1) /\ Tail(q)[i - 1] = q[i]
    BY <2>1
  <2>3. \A i \in 1..(Len(q) - 1) : i + 1 \in 1..Len(q)
    BY <2>1
  <2>4. 1 \in 1..Len(q)
    BY <2>1
  <2>5. Range(q) \subseteq {Head(q)} \cup Range(Tail(q))
    <3> DEFINE t == Tail(q)
    <3> HIDE DEF t
    <3>1. DOMAIN t = 1..(Len(q) - 1)
          /\ \A i \in 1..Len(q) : q[i] = Head(q) \/ (i - 1 \in 1..(Len(q) - 1) /\ t[i - 1] = q[i])
      BY <2>1, <2>2 DEF t
    <3>2. ASSUME NEW i \in 1..Len(q) PROVE q[i] \in {Head(q)} \cup Range(t)
      BY <3>1 DEF Range
    <3>3. DOMAIN q = 1..Len(q)
      BY <2>1
    <3>. QED  BY <3>2, <3>3 DEF Range, t
  <2>6. {Head(q)} \cup Range(Tail(q)) \subseteq Range(q)
    BY <2>1, <2>3, <2>4 DEF Range
  <2>. QED  BY <2>5, <2>6
<1>2. ASSUME NEW x \in T PROVE Range(Append(q, x)) = Range(q) \cup {x}
  <2>1. /\ Len(q) \in Nat /\ DOMAIN q = 1..Len(q) /\ DOMAIN Append(q, x) = 1..(Len(q) + 1)
        /\ \A i \in 1..Len(q) : Append(q, x)[i] = q[i]
        /\ Append(q, x)[Len(q) + 1] = x
    OBVIOUS
  <2>2. \A i \in 1..(Len(q) + 1) : i \in 1..Len(q) \/ i = Len(q) + 1
    BY <2>1
  <2>3. Len(q) + 1 \in 1..(Len(q) + 1) /\ \A i \in 1..Len(q) : i \in 1..(Len(q) + 1)
    BY <2>1
  <2>4. Range(Append(q, x)) \subseteq Range(q) \cup {x}
    BY <2>1, <2>2 DEF Range
  <2>5. Range(q) \cup {x} \subseteq Range(Append(q, x))
    BY <2>1, <2>3 DEF Range
  <2>. QED  BY <2>4, <2>5
<1>3. Range(<<>>) = {} /\ \A x : Range(<<x>>) = {x}
  BY DEF Range
<1>. QED  BY <1>1, <1>2, <1>3

LEMMA InitPersist == Init => PersistInv
<1> SUFFICES ASSUME Init PROVE PersistInv
  OBVIOUS
<1>1. TypeInv
  BY InitTyped
<1>2. CSNsOrdered
  <2>1. ASSUME NEW n \in Providers, NEW u \in UUIDs
        PROVE  /\ entries[n][u].csn # NoCSN => SIDOf(entries[n][u].csn) \in SIDs
               /\ tombstones[n][u] = NoCSN
    <3>1. n \in Nodes
      BY Topology
    <3>2. CASE u \in Loaded
      BY <3>1, <3>2, LoadedFacts, CSNFacts DEF Init
    <3>3. CASE u \notin Loaded
      BY <3>1, <3>3 DEF Init, Absent
    <3>. QED  BY <3>1, <3>2, <3>3 DEF Init
  <2>2. ASSUME NEW n \in Providers PROVE NoCSN < (clock[n] + 1) * Radix
    <3>1. clock[n] \in Nat
      BY <1>1, Topology, Bounds DEF TypeInv, CountersOK
    <3> DEFINE c == clock[n] + 1
               r == Radix
    <3>2. c \in Nat /\ c > 0 /\ r \in Nat /\ r > 0
      BY <3>1, CSNFacts
    <3> HIDE DEF c, r
    <3>3. 0 < c * r
      BY <3>2, SMT
    <3>. QED  BY <3>3 DEF c, r, NoCSN
  <2>. QED  BY <2>1, <2>2 DEF CSNsOrdered
<1>3. \A l \in Links : session[l].phase = "idle"
  <2>1. \A l \in Links : session[l] \in {Closed(mode) : mode \in Modes}
    BY DEF Init
  <2>. QED  BY <2>1 DEF Closed
<1>4. PersistsByMode /\ SearchesMissNothing
  BY <1>3 DEF PersistsByMode, SearchesMissNothing, SearchCovered
<1>. QED  BY <1>1, <1>2, <1>4 DEF PersistInv

\* What a client's write does at its server: its CSN is newer than any there.
Committed(k, u, after, n, csn, top) ==
    /\ n = Home[k] /\ csn = CSN(clock[n] + 1, ServerID[n]) /\ top = (clock[n] + 1) * Radix
    /\ /\ n \in Nodes /\ n \in Providers /\ clock[n] \in Nat
       /\ entries \in [Nodes -> [UUIDs -> Entries]] /\ tombstones \in [Nodes -> [UUIDs -> Nat]]
       /\ context \in [Nodes -> CSNState] /\ clock \in [Nodes -> Nat]
    /\ /\ csn \in Nat /\ csn > 0 /\ SIDOf(csn) \in SIDs
       /\ top \in Nat /\ top <= csn /\ csn < (clock[n] + 2) * Radix /\ top < (clock[n] + 2) * Radix
    /\ \A v \in UUIDs : tombstones[n][v] < top
    /\ /\ publishing' = [publishing EXCEPT ![k] = <<Change(u, entries[n][u].visibility, after, csn)>>]
       /\ publishing[k] = <<>> /\ session' = session /\ log' = log
    /\ \A m \in Nodes : m # n => SameProvider(m)
    /\ /\ after = "none" => entries'[n][u] = Absent /\ tombstones'[n][u] = csn
       /\ after # "none" => /\ entries'[n][u] = [visibility |-> after, csn |-> csn]
                            /\ tombstones'[n][u] = NoCSN
    /\ \A v \in UUIDs : v # u => entries'[n][v] = entries[n][v] /\ tombstones'[n][v] = tombstones[n][v]
    /\ /\ context'[n][SIDOf(csn)] >= csn
       /\ \A s \in SIDs : /\ context'[n][s] >= context[n][s] /\ context'[n][s] \in Nat
                           /\ context'[n][s] \in {csn, context[n][s]}
       /\ clock'[n] = clock[n] + 1

LEMMA CommitFacts ==
    ASSUME PersistInv, NEW k \in Clients, NEW u \in UUIDs, NEW after \in {"none", "in", "out"},
           CommitWrite(k, u, after)
    PROVE  \E n, csn, top : Committed(k, u, after, n, csn, top)
<1>0. PICK n, csn, top :
          n = Home[k] /\ csn = CSN(clock[n] + 1, ServerID[n]) /\ top = (clock[n] + 1) * Radix
  OBVIOUS
<1>1. /\ n \in Nodes /\ n \in Providers /\ ServerID[n] \in SIDs /\ clock[n] \in Nat
      /\ entries \in [Nodes -> [UUIDs -> Entries]] /\ tombstones \in [Nodes -> [UUIDs -> Nat]]
      /\ context \in [Nodes -> CSNState] /\ clock \in [Nodes -> Nat]
  BY <1>0, Topology, Bounds DEF PersistInv, TypeInv, CountersOK, StoredOK
<1>2. /\ csn \in Nat /\ csn > 0 /\ SIDOf(csn) \in SIDs
      /\ top \in Nat /\ top <= csn /\ csn < (clock[n] + 2) * Radix /\ top < (clock[n] + 2) * Radix
  <2> DEFINE c == clock[n] + 1
  <2>1. c \in Nat /\ c > 0 /\ c + 1 = clock[n] + 2
    BY <1>1
  <2>2. /\ CSN(c, ServerID[n]) \in Nat /\ CSN(c, ServerID[n]) > 0
        /\ SIDOf(CSN(c, ServerID[n])) \in SIDs
        /\ c * Radix <= CSN(c, ServerID[n]) /\ CSN(c, ServerID[n]) < (c + 1) * Radix
    BY <1>1, <2>1, CSNFacts
  <2>3. c * Radix \in Nat /\ c * Radix < (c + 1) * Radix
    <3> DEFINE r == Radix
    <3>1. r \in Nat /\ r > 0
      BY CSNFacts
    <3> HIDE DEF c, r
    <3>2. c * r \in Nat /\ (c + 1) * r = c * r + r
      BY <2>1, <3>1, SMT
    <3>3. c * r < (c + 1) * r
      BY <3>1, <3>2
    <3>. QED  BY <3>2, <3>3 DEF r
  <2>. QED  BY <1>0, <2>1, <2>2, <2>3
<1>3. \A v \in UUIDs : tombstones[n][v] < top
  BY <1>0, <1>1 DEF PersistInv, CSNsOrdered
<1>4. /\ entries' = [entries EXCEPT ![n][u] =
              IF after = "none" THEN Absent ELSE [visibility |-> after, csn |-> csn]]
      /\ tombstones' = [tombstones EXCEPT ![n] = Entombed(tombstones[n], u, after, csn)]
      /\ context' = [context EXCEPT ![n] = Advance(context[n], csn)]
      /\ clock' = [clock EXCEPT ![n] = clock[n] + 1]
      /\ publishing' = [publishing EXCEPT ![k] = <<Change(u, entries[n][u].visibility, after, csn)>>]
      /\ publishing[k] = <<>>
      /\ session' = session /\ log' = log
  BY <1>0 DEF CommitWrite
<1>5. \A m \in Nodes : m # n => SameProvider(m)
  BY <1>1, <1>4 DEF SameProvider
<1>6. /\ after = "none" => entries'[n][u] = Absent /\ tombstones'[n][u] = csn
      /\ after # "none" => /\ entries'[n][u] = [visibility |-> after, csn |-> csn]
                           /\ tombstones'[n][u] = NoCSN
  <2>1. tombstones[n][u] \in Nat /\ csn > tombstones[n][u]
    BY <1>1, <1>2, <1>3
  <2>2. tombstones'[n][u] = IF after = "none" THEN csn ELSE NoCSN
    BY <1>1, <1>4, <2>1 DEF Entombed
  <2>. QED  BY <1>1, <1>4, <2>2
<1>7. \A v \in UUIDs : v # u => entries'[n][v] = entries[n][v] /\ tombstones'[n][v] = tombstones[n][v]
  BY <1>1, <1>4 DEF Entombed
<1>8. /\ context'[n][SIDOf(csn)] >= csn
      /\ \A s \in SIDs : /\ context'[n][s] >= context[n][s] /\ context'[n][s] \in Nat
                          /\ context'[n][s] \in {csn, context[n][s]}
      /\ clock'[n] = clock[n] + 1
  <2>1. context[n] \in [SIDs -> Nat]
    BY <1>1 DEF CSNState
  <2>2. context'[n] = [context[n] EXCEPT ![SIDOf(csn)] =
                         IF csn > context[n][SIDOf(csn)] THEN csn ELSE context[n][SIDOf(csn)]]
    <3>1. context'[n] = Advance(context[n], csn) /\ csn # NoCSN
      BY <1>1, <1>2, <1>4 DEF NoCSN
    <3>. QED  BY <3>1 DEF Advance
  <2> DEFINE old == context[n]
             new == IF csn > old[SIDOf(csn)] THEN csn ELSE old[SIDOf(csn)]
  <2> HIDE DEF old
  <2>3. old[SIDOf(csn)] \in Nat
    BY <1>2, <2>1 DEF old
  <2>4. new \in Nat /\ new >= csn /\ new >= old[SIDOf(csn)] /\ new \in {csn, old[SIDOf(csn)]}
    BY <1>2, <2>3
  <2>5. context'[n] = [old EXCEPT ![SIDOf(csn)] = new]
    BY <2>2 DEF old
  <2> HIDE DEF new
  <2>6. old \in [SIDs -> Nat]
    BY <2>1 DEF old
  <2>7. /\ context'[n][SIDOf(csn)] >= csn
        /\ \A s \in SIDs : /\ context'[n][s] >= old[s] /\ context'[n][s] \in Nat
                            /\ context'[n][s] \in {csn, old[s]}
    BY <1>2, <2>4, <2>5, <2>6
  <2>8. clock'[n] = clock[n] + 1
    BY <1>1, <1>4, SMTT(30)
  <2>. QED  BY <2>7, <2>8 DEF old
<1>9. Committed(k, u, after, n, csn, top)
  BY <1>0, <1>1, <1>2, <1>3, <1>4, <1>5, <1>6, <1>7, <1>8 DEF Committed
<1>. QED  BY <1>9

\* A client's write is announced by its writer.
LEMMA CommitPersist ==
    ASSUME PersistInv, TypeInv', NEW k \in Clients, NEW u \in UUIDs, NEW after \in {"none", "in", "out"},
           CommitWrite(k, u, after)
    PROVE  PersistInv'
<1>0. PICK n, csn, top : Committed(k, u, after, n, csn, top)
  BY CommitFacts
<1> DEFINE change == Change(u, entries[n][u].visibility, after, csn)
<1>1. /\ n \in Nodes /\ n \in Providers /\ clock[n] \in Nat
      /\ entries \in [Nodes -> [UUIDs -> Entries]] /\ tombstones \in [Nodes -> [UUIDs -> Nat]]
      /\ context \in [Nodes -> CSNState] /\ clock \in [Nodes -> Nat]
  BY <1>0 DEF Committed
<1>2. /\ csn \in Nat /\ csn > 0 /\ SIDOf(csn) \in SIDs
      /\ top \in Nat /\ top <= csn /\ csn < (clock[n] + 2) * Radix /\ top < (clock[n] + 2) * Radix
  BY <1>0 DEF Committed
<1>3. \A v \in UUIDs : tombstones[n][v] < top
  BY <1>0 DEF Committed
<1>4. /\ publishing' = [publishing EXCEPT ![k] = <<change>>]
      /\ publishing[k] = <<>> /\ session' = session
  BY <1>0 DEF Committed
<1>5. \A m \in Providers : m # n => SameProvider(m)
  BY <1>0, Topology DEF Committed
<1>6. /\ after = "none" => entries'[n][u] = Absent /\ tombstones'[n][u] = csn
      /\ after # "none" => /\ entries'[n][u] = [visibility |-> after, csn |-> csn]
                           /\ tombstones'[n][u] = NoCSN
  BY <1>0 DEF Committed
<1>7. \A v \in UUIDs : v # u => entries'[n][v] = entries[n][v] /\ tombstones'[n][v] = tombstones[n][v]
  BY <1>0 DEF Committed
<1>8. /\ context'[n][SIDOf(csn)] >= csn
      /\ \A s \in SIDs : context'[n][s] >= context[n][s] /\ context'[n][s] \in Nat
      /\ clock'[n] = clock[n] + 1
  BY <1>0 DEF Committed
<1>9. CSNsOrdered'
  <2>1. ASSUME NEW m \in Providers, NEW v \in UUIDs, m # n
        PROVE  /\ entries'[m][v].csn # NoCSN => SIDOf(entries'[m][v].csn) \in SIDs
               /\ tombstones'[m][v] # NoCSN => /\ SIDOf(tombstones'[m][v]) \in SIDs
                                               /\ tombstones'[m][v] <= context'[m][SIDOf(tombstones'[m][v])]
               /\ tombstones'[m][v] < (clock'[m] + 1) * Radix
    BY <1>5, <2>1 DEF SameProvider, PersistInv, CSNsOrdered
  <2>2. ASSUME NEW v \in UUIDs
        PROVE  /\ entries'[n][v].csn # NoCSN => SIDOf(entries'[n][v].csn) \in SIDs
               /\ tombstones'[n][v] # NoCSN => /\ SIDOf(tombstones'[n][v]) \in SIDs
                                               /\ tombstones'[n][v] <= context'[n][SIDOf(tombstones'[n][v])]
               /\ tombstones'[n][v] < (clock'[n] + 1) * Radix
    <3> DEFINE next == (clock[n] + 2) * Radix
    <3>0. (clock'[n] + 1) * Radix = next
      <4>1. clock'[n] + 1 = clock[n] + 2
        BY <1>1, <1>8
      <4>. QED  BY <4>1
    <3>a. next \in Int
      <4>1. clock[n] + 2 \in Nat /\ Radix \in Nat
        BY <1>1, CSNFacts
      <4>. QED  BY <4>1
    <3>b. csn < next /\ top < next
      BY <1>2
    <3> HIDE DEF next
    <3>1. CASE v = u
      <4>1. CASE after = "none"
        BY <1>2, <1>6, <1>8, <3>0, <3>a, <3>b, <3>1, <4>1 DEF Absent
      <4>2. CASE after # "none"
        BY <1>2, <1>6, <3>0, <3>a, <3>b, <3>1, <4>2 DEF NoCSN
      <4>. QED  BY <4>1, <4>2
    <3>2. CASE v # u
      <4>1. /\ entries[n][v].csn # NoCSN => SIDOf(entries[n][v].csn) \in SIDs
            /\ tombstones[n][v] # NoCSN => /\ SIDOf(tombstones[n][v]) \in SIDs
                                           /\ tombstones[n][v] <= context[n][SIDOf(tombstones[n][v])]
        BY <1>1 DEF PersistInv, CSNsOrdered
      <4>2. tombstones[n][v] \in Nat /\ \A s \in SIDs : context[n][s] \in Nat
        BY <1>1 DEF CSNState
      <4>3. tombstones'[n][v] < next
        BY <1>2, <1>3, <1>7, <3>a, <3>b, <3>2, <4>2
      <4>4. tombstones'[n][v] # NoCSN => tombstones'[n][v] <= context'[n][SIDOf(tombstones'[n][v])]
        BY <1>7, <1>8, <3>2, <4>1, <4>2
      <4>. QED  BY <1>7, <3>0, <3>2, <4>1, <4>3, <4>4
    <3>. QED  BY <3>1, <3>2
  <2>. QED  BY <2>1, <2>2 DEF CSNsOrdered
<1>10. PersistsByMode'
  BY <1>4 DEF PersistInv, PersistsByMode
<1>11. \A m : Unpublished(m) \subseteq Unpublished(m)'
  <2>1. \A b \in DOMAIN publishing : b # k => publishing'[b] = publishing[b]
    BY <1>4
  <2>2. DOMAIN publishing' = DOMAIN publishing
    BY <1>4
  <2>3. Range(publishing[k]) = {}
    BY <1>4 DEF Range
  <2>. QED  BY <2>1, <2>2, <2>3 DEF Unpublished
<1>12. change \in Unpublished(n)' /\ change.uuid = u /\ change.csn = csn
  <2>1. k \in DOMAIN publishing' /\ publishing'[k] = <<change>>
    BY <1>4 DEF PersistInv, TypeInv
  <2>2. NodeOf(k) = n
    BY <1>0 DEF NodeOf, Committed
  <2>3. change \in Range(<<change>>)
    BY DEF Range
  <2>4. change \in Unpublished(n)'
    BY <2>1, <2>2, <2>3 DEF Unpublished
  <2>. QED  BY <2>4 DEF Change
<1> HIDE DEF change
<1>13. ASSUME NEW l \in Links, NEW v \in UUIDs PROVE SearchCovered(l, v)'
  <2>1. \A c : Announced(l, v, c) => Announced(l, v, c)'
    BY <1>4, <1>11 DEF Announced
  <2>2. CASE l[1] = n /\ v = u
    <3>1. LatestOf(n, u)' = csn
      <4>1. CASE after = "none"
        BY <1>6, <4>1 DEF LatestOf
      <4>2. CASE after # "none"
        BY <1>2, <1>6, <4>2 DEF LatestOf, Absent, NoCSN
      <4>. QED  BY <4>1, <4>2
    <3>2. \A c : c = csn => Announced(l, u, c)'
      BY <1>12, <2>2 DEF Announced
    <3>. QED  BY <2>2, <3>1, <3>2 DEF SearchCovered
  <2>3. CASE ~(l[1] = n /\ v = u)
    <3>1. LatestOf(l[1], v)' = LatestOf(l[1], v)
      BY <1>5, <1>7, <2>3, Topology DEF LatestOf, SameProvider
    <3>2. SearchCovered(l, v)
      BY DEF PersistInv, SearchesMissNothing
    <3>. QED  BY <1>4, <2>1, <3>1, <3>2 DEF SearchCovered
  <2>. QED  BY <2>2, <2>3
<1>. QED  BY <1>9, <1>10, <1>13 DEF PersistInv, SearchesMissNothing

\* Publishing moves a change into every channel that listens, or closes the channel.
LEMMA PublishPersist ==
    ASSUME PersistInv, TypeInv', NEW a \in Clients \cup Links, Publish(a)
    PROVE  PersistInv'
<1> DEFINE n == NodeOf(a)
           change == Head(publishing[a])
<1>1. publishing[a] \in Seq(Changes) /\ publishing[a] # <<>> /\ change \in Changes
  BY DEF PersistInv, TypeInv, Publish
<1>2. Range(publishing[a]) = {change} \cup Range(Tail(publishing[a]))
  BY <1>1, RangeParts
<1>3. /\ publishing' = [publishing EXCEPT ![a] = Tail(publishing[a])]
      /\ session' = [l \in Links |->
              IF l[1] = n /\ Subscribed(l) THEN Offer(session[l], change) ELSE session[l]]
      /\ entries' = entries /\ tombstones' = tombstones /\ context' = context /\ clock' = clock
  BY DEF Publish, stored
<1> HIDE DEF n, change
<1>4. CSNsOrdered'
  BY <1>3 DEF PersistInv, CSNsOrdered
<1>5. ASSUME NEW l \in Links
      PROVE  LET s == session[l]
                 t == session'[l]
             IN  /\ t.phase = s.phase /\ t.mode = s.mode /\ t.snapshot = s.snapshot
                 /\ ~t.overflow => /\ ~s.overflow /\ Range(s.events) \subseteq Range(t.events)
                                   /\ l[1] = n /\ Subscribed(l) => change \in Range(t.events)
  <2> DEFINE s == session[l]
  <2>1. s \in Sessions /\ s.events \in Seq(Changes)
    BY SessionRead DEF PersistInv
  <2>2. Range(Append(s.events, change)) = Range(s.events) \cup {change}
    <3> HIDE DEF s
    <3>. QED  BY <1>1, <2>1, RangeParts
  <2>3. CASE l[1] = n /\ Subscribed(l)
    <3>1. session'[l] = Offer(s, change)
      BY <1>3, <2>3
    <3>2. CASE Len(s.events) < ChannelSize
      <4>1. session'[l] = [s EXCEPT !.events = Append(s.events, change)]
        BY <3>1, <3>2 DEF Offer
      <4> HIDE DEF s
      <4>2. /\ session'[l].events = Append(s.events, change) /\ session'[l].phase = s.phase
            /\ session'[l].mode = s.mode /\ session'[l].snapshot = s.snapshot
            /\ session'[l].overflow = s.overflow
        BY <2>1, <4>1 DEF Sessions
      <4>. QED  BY <2>2, <4>2 DEF s
    <3>3. CASE ~(Len(s.events) < ChannelSize)
      <4>1. session'[l] = [s EXCEPT !.overflow = TRUE]
        BY <3>1, <3>3 DEF Offer
      <4>. QED  BY <2>1, <4>1 DEF Sessions
    <3>. QED  BY <3>2, <3>3
  <2>4. CASE ~(l[1] = n /\ Subscribed(l))
    BY <1>3, <2>4
  <2>. QED  BY <2>3, <2>4
<1>6. PersistsByMode'
  BY <1>5 DEF PersistInv, PersistsByMode
<1>7. ASSUME NEW l \in Links, NEW u \in UUIDs PROVE SearchCovered(l, u)'
  <2>1. LatestOf(l[1], u)' = LatestOf(l[1], u)
    BY <1>3 DEF LatestOf
  <2>2. SUFFICES ASSUME session'[l].phase \in {"reading", "persist"},
                        session'[l].mode = "refreshAndPersist", ~session'[l].overflow,
                        LatestOf(l[1], u) # NoCSN,
                        LatestOf(l[1], u) > session'[l].snapshot[SIDOf(LatestOf(l[1], u))]
                 PROVE  \A c : c = LatestOf(l[1], u) => Announced(l, u, c)'
    BY <2>1 DEF SearchCovered
  <2>3. Subscribed(l)
    BY <1>5, <2>2 DEF Subscribed
  <2>4. Announced(l, u, LatestOf(l[1], u))
    BY <1>5, <2>2 DEF PersistInv, SearchesMissNothing, SearchCovered
  <2>5. PICK old \in Range(session[l].events) \cup Unpublished(l[1]) :
             old.uuid = u /\ old.csn = LatestOf(l[1], u)
    BY <2>4 DEF Announced
  <2>6. old \in Range(session'[l].events) \cup Unpublished(l[1])'
    <3>1. CASE old \in Range(session[l].events)
      BY <1>5, <2>2, <3>1
    <3>2. CASE old \in Unpublished(l[1])
      <4>1. PICK b \in DOMAIN publishing : NodeOf(b) = l[1] /\ old \in Range(publishing[b])
        BY <3>2 DEF Unpublished
      <4>2. b \in DOMAIN publishing' /\ (b # a => publishing'[b] = publishing[b])
            /\ publishing'[a] = Tail(publishing[a])
        BY <1>3 DEF PersistInv, TypeInv
      <4>3. CASE old \in Range(publishing'[b])
        BY <4>1, <4>2, <4>3 DEF Unpublished
      <4>4. CASE old \notin Range(publishing'[b])
        <5>1. b = a /\ old = change
          BY <1>2, <4>1, <4>2, <4>4
        <5>2. l[1] = n
          BY <4>1, <5>1 DEF n
        <5>. QED  BY <1>5, <2>2, <2>3, <5>1, <5>2
      <4>. QED  BY <4>3, <4>4
    <3>. QED  BY <3>1, <3>2
  <2>. QED  BY <2>5, <2>6 DEF Announced
<1>. QED  BY <1>4, <1>6, <1>7 DEF PersistInv, SearchesMissNothing

\* The context that a server reads covers the latest change of every entry.
LEMMA ContextCoversLatest ==
    ASSUME PersistInv, NEW n \in Providers, NEW u \in UUIDs, LatestOf(n, u) # NoCSN
    PROVE  /\ ContextCSNs(n) \in CSNState
           /\ LatestOf(n, u) \in Nat /\ SIDOf(LatestOf(n, u)) \in SIDs
           /\ LatestOf(n, u) <= ContextCSNs(n)[SIDOf(LatestOf(n, u))]
<1> DEFINE snapshot == ContextCSNs(n)
<1>1. /\ n \in Nodes
      /\ entries[n] \in [UUIDs -> Entries] /\ context[n] \in CSNState /\ tombstones[n] \in [UUIDs -> Nat]
  BY Topology DEF PersistInv, TypeInv, StoredOK
<1>2. snapshot \in CSNState
  BY <1>1, ContextFacts
<1>3. CASE entries[n][u] = Absent
  <2> DEFINE c == tombstones[n][u]
  <2>1. LatestOf(n, u) = c /\ c \in Nat
    BY <1>1, <1>3 DEF LatestOf
  <2>2. SIDOf(c) \in SIDs /\ c <= context[n][SIDOf(c)]
    BY <1>1, <2>1 DEF PersistInv, CSNsOrdered
  <2>3. snapshot[SIDOf(c)] >= context[n][SIDOf(c)]
    BY <1>1, <2>2, ContextFacts
  <2>4. snapshot[SIDOf(c)] \in Nat /\ context[n][SIDOf(c)] \in Nat
    BY <1>1, <1>2, <2>2 DEF CSNState
  <2> HIDE DEF c, snapshot
  <2>5. c <= snapshot[SIDOf(c)]
    BY <2>1, <2>2, <2>3, <2>4
  <2>. QED  BY <1>2, <2>1, <2>2, <2>5 DEF snapshot
<1>4. CASE entries[n][u] # Absent
  <2> DEFINE c == entries[n][u].csn
  <2>1. LatestOf(n, u) = c /\ c \in Nat
    BY <1>1, <1>4, EntryTyped DEF LatestOf
  <2>2. SIDOf(c) \in SIDs
    BY <1>1, <2>1 DEF PersistInv, CSNsOrdered
  <2>3. snapshot[SIDOf(c)] >= c
    BY <1>1, <2>1, <2>2, ContextFacts
  <2>4. snapshot[SIDOf(c)] \in Nat
    BY <1>2, <2>2 DEF CSNState
  <2> HIDE DEF c, snapshot
  <2>5. c <= snapshot[SIDOf(c)]
    BY <2>1, <2>3, <2>4
  <2>. QED  BY <1>2, <2>1, <2>2, <2>5 DEF snapshot
<1>. QED  BY <1>3, <1>4

\* A fresh snapshot covers everything.
LEMMA CapturePersist ==
    ASSUME PersistInv, TypeInv', NEW l \in Links, CaptureSnapshot(l)
    PROVE  PersistInv'
<1> DEFINE n == l[1]
           view == entries[n]
           snapshot == ContextCSNs(n)
           s == [session[l] EXCEPT !.phase = "reading", !.view = view, !.snapshot = snapshot]
<1>1. /\ n \in Nodes /\ n \in Providers
      /\ entries[n] \in [UUIDs -> Entries] /\ context[n] \in CSNState /\ tombstones[n] \in [UUIDs -> Nat]
  BY Topology DEF PersistInv, TypeInv, StoredOK
<1>2. session' = [session EXCEPT ![l] = s] /\ UNCHANGED <<stored, clock, publishing>>
  BY SessionRead DEF PersistInv, CaptureSnapshot
<1>3. \A u \in UUIDs : LET last == LatestOf(n, u) IN
          last # NoCSN => ~(last > snapshot[SIDOf(last)])
  <2>1. ASSUME NEW u \in UUIDs, LatestOf(n, u) # NoCSN
        PROVE  ~(LatestOf(n, u) > snapshot[SIDOf(LatestOf(n, u))])
    BY <1>1, <2>1, ContextCoversLatest DEF CSNState
  <2>. QED  BY <2>1
<1>4. CSNsOrdered'
  BY <1>2 DEF stored, PersistInv, CSNsOrdered
<1> HIDE DEF view, snapshot
<1>5. session'[l].phase = "reading" /\ session'[l].snapshot = snapshot
  BY <1>2, SessionRead DEF PersistInv, Sessions
<1>6. \A m \in Links : m # l => session'[m] = session[m]
  BY <1>2, SessionRead DEF PersistInv
<1>7. PersistsByMode'
  BY <1>5, <1>6 DEF PersistInv, PersistsByMode
<1>8. ASSUME NEW m \in Links, NEW u \in UUIDs PROVE SearchCovered(m, u)'
  <2>1. LatestOf(m[1], u)' = LatestOf(m[1], u) /\ Unpublished(m[1])' = Unpublished(m[1])
    BY <1>2 DEF stored, LatestOf, Unpublished
  <2>2. CASE m = l
    BY <1>3, <1>5, <2>1, <2>2 DEF SearchCovered
  <2>3. CASE m # l
    <3>1. \A c : Announced(m, u, c)' <=> Announced(m, u, c)
      BY <1>6, <2>1, <2>3 DEF Announced
    <3>. QED  BY <1>6, <2>1, <2>3, <3>1 DEF PersistInv, SearchesMissNothing, SearchCovered
  <2>. QED  BY <2>2, <2>3
<1>. QED  BY <1>4, <1>7, <1>8 DEF PersistInv, SearchesMissNothing

\* A change leaves the channel only when the search covers it.
LEMMA ChangePersist ==
    ASSUME PersistInv, TypeInv', NEW l \in Links, PersistChange(l)
    PROVE  PersistInv'
<1> DEFINE old == session[l]
           change == Head(old.events)
           sid == SIDOf(change.csn)
           snapshot == [old.snapshot EXCEPT ![sid] = change.csn]
           live == [old.live EXCEPT ![sid] = change.csn]
           stream == Append(old.stream, ChangeResponse(change, snapshot))
           rest == Tail(old.events)
           skip == [old EXCEPT !.events = rest]
           send == [old EXCEPT !.events = rest, !.snapshot = snapshot, !.live = live, !.stream = stream]
<1>1. /\ old \in Sessions /\ old.events \in Seq(Changes) /\ old.events # <<>>
      /\ old.snapshot \in CSNState /\ old.phase = "persist"
  BY SessionRead DEF PersistInv, PersistChange
<1>2. change \in Changes
  BY <1>1
<1>3. change.csn \in Nat
  BY <1>2 DEF Changes
<1>4. Range(old.events) = {change} \cup Range(rest)
  <2> HIDE DEF old
  <2>. QED  BY <1>1, RangeParts
<1>5. session' = [session EXCEPT ![l] = IF Skipped(old, change) THEN skip ELSE send]
      /\ UNCHANGED <<stored, clock, publishing>>
  BY SessionRead DEF PersistInv, PersistChange
<1>6. Skipped(old, change) => \/ change.csn < old.snapshot[sid]
                              \/ change.csn = old.snapshot[sid]
  BY DEF Skipped
<1>7. ~Skipped(old, change) => ~(change.csn < old.snapshot[sid])
  BY DEF Skipped
<1> HIDE DEF change, rest, live, stream
<1>8. /\ session'[l].phase = old.phase /\ session'[l].mode = old.mode
      /\ session'[l].overflow = old.overflow /\ session'[l].events = rest
      /\ session'[l].snapshot = IF Skipped(old, change) THEN old.snapshot ELSE snapshot
  <2> HIDE DEF old, snapshot
  <2>1. CASE Skipped(old, change)
    BY <1>1, <1>5, <2>1, SessionRead DEF PersistInv, Sessions
  <2>2. CASE ~Skipped(old, change)
    BY <1>1, <1>5, <2>2, SessionRead DEF PersistInv, Sessions
  <2>. QED  BY <2>1, <2>2
<1>9. \A m \in Links : m # l => session'[m] = session[m]
  BY <1>5, SessionRead DEF PersistInv
<1>10. CSNsOrdered'
  BY <1>5 DEF stored, PersistInv, CSNsOrdered
<1>11. PersistsByMode'
  BY <1>8, <1>9 DEF PersistInv, PersistsByMode
\* What the search has covered only grows.
<1>12. \A s \in SIDs : old.snapshot[s] \in Nat /\ session'[l].snapshot[s] \in Nat
                       /\ session'[l].snapshot[s] >= old.snapshot[s]
  <2>1. \A s \in SIDs : old.snapshot[s] \in Nat /\ DOMAIN old.snapshot = SIDs
    BY <1>1 DEF CSNState
  <2>2. ASSUME NEW s \in SIDs, ~Skipped(old, change)
        PROVE  snapshot[s] \in Nat /\ snapshot[s] >= old.snapshot[s]
    <3>1. CASE s = sid
      BY <1>3, <1>7, <2>1, <2>2, <3>1
    <3>2. CASE s # sid
      BY <2>1, <3>2
    <3>. QED  BY <3>1, <3>2
  <2>. QED  BY <1>8, <2>1, <2>2
<1>13. sid \in SIDs => change.csn <= session'[l].snapshot[sid]
  <2>1. ASSUME sid \in SIDs PROVE change.csn <= session'[l].snapshot[sid]
    <3>1. old.snapshot[sid] \in Nat /\ snapshot[sid] = change.csn
      BY <1>1, <1>3, <2>1 DEF CSNState
    <3>. QED  BY <1>3, <1>6, <1>8, <3>1
  <2>. QED  BY <2>1
<1>14. \A n \in Providers, u \in UUIDs :
          LatestOf(n, u) # NoCSN => LatestOf(n, u) \in Nat /\ SIDOf(LatestOf(n, u)) \in SIDs
  <2>1. \A n \in Providers, u \in UUIDs : entries[n][u] \in Entries /\ tombstones[n][u] \in Nat
    BY Topology DEF PersistInv, TypeInv, StoredOK
  <2>. QED  BY <2>1, EntryTyped DEF LatestOf, PersistInv, CSNsOrdered
<1>15. ASSUME NEW m \in Links, NEW u \in UUIDs PROVE SearchCovered(m, u)'
  <2>1. LatestOf(m[1], u)' = LatestOf(m[1], u) /\ Unpublished(m[1])' = Unpublished(m[1])
    BY <1>5 DEF stored, LatestOf, Unpublished
  <2>2. CASE m # l
    <3>1. \A c : Announced(m, u, c)' <=> Announced(m, u, c)
      BY <1>9, <2>1, <2>2 DEF Announced
    <3>. QED  BY <1>9, <2>1, <2>2, <3>1 DEF PersistInv, SearchesMissNothing, SearchCovered
  <2>3. CASE m = l
    <3> DEFINE last == LatestOf(l[1], u)
    <3>1. SUFFICES ASSUME session'[l].mode = "refreshAndPersist", ~session'[l].overflow,
                          last # NoCSN, last > session'[l].snapshot[SIDOf(last)]
                   PROVE  \A c : c = last => Announced(l, u, c)'
      BY <2>1, <2>3 DEF SearchCovered
    <3>2. last \in Nat /\ SIDOf(last) \in SIDs
      BY <1>14, <3>1, Topology
    <3> HIDE DEF last
    <3>3. last > old.snapshot[SIDOf(last)]
      BY <1>12, <3>1, <3>2
    <3>4. Announced(l, u, last)
      BY <1>1, <1>8, <3>1, <3>3 DEF PersistInv, SearchesMissNothing, SearchCovered, last
    <3>5. PICK at \in Range(old.events) \cup Unpublished(l[1]) : at.uuid = u /\ at.csn = last
      BY <3>4 DEF Announced
    <3>6. at # change
      BY <1>12, <1>13, <3>1, <3>2, <3>5
    <3>7. at \in Range(session'[l].events) \cup Unpublished(l[1])'
      BY <1>4, <1>8, <2>1, <2>3, <3>5, <3>6
    <3>. QED  BY <3>5, <3>7 DEF Announced
  <2>. QED  BY <2>2, <2>3
<1>. QED  BY <1>10, <1>11, <1>15 DEF PersistInv, SearchesMissNothing

\* Refresh, and the steps that open, end or drop one search.
LEMMA SearchQuiet ==
    ASSUME PersistInv, TypeInv', NEW l \in Links,
           Connect(l) \/ Refresh(l) \/ PersistOverflow(l) \/ SearchFailed(l) \/ Disconnect(l)
    PROVE  PersistInv'
<1>1. (\A n \in Providers : SameProvider(n)) /\ publishing' = publishing
  BY DEF Connect, Refresh, PersistOverflow, SearchFailed, Disconnect, stored, SameProvider
<1>2. session[l] \in Sessions /\ session = [m \in Links |-> session[m]]
  BY SessionRead DEF PersistInv
<1>3. \A m \in Links : m # l => session'[m] = session[m]
  BY <1>2 DEF Connect, Refresh, PersistOverflow, SearchFailed, Disconnect
<1>4. SameSearch(l)
  <2>1. CASE Connect(l)
    BY <1>2, <2>1 DEF Connect, SameSearch, Sessions
  <2>2. CASE Refresh(l)
    <3> DEFINE s == session[l]
               failed == SnapshotFailure(cookie[l], s.snapshot)
    <3>1. PICK stream :
             session' = [session EXCEPT ![l] = [s EXCEPT !.phase =
                IF failed \/ s.mode = "refreshOnly" THEN "ended" ELSE "persist",
                !.view = <<>>, !.stream = stream]]
      BY <1>2, <2>2, ZenonT(40) DEF Refresh
    <3>2. s.mode \in {"refreshOnly", "refreshAndPersist"} /\ s.phase = "reading"
      BY <1>2, <2>2, BoundsAssumption DEF Sessions, Refresh
    <3> HIDE DEF failed
    <3>. QED  BY <1>2, <3>1, <3>2 DEF SameSearch, Sessions
  <2>3. CASE PersistOverflow(l)
    BY <1>2, <2>3 DEF PersistOverflow, SameSearch, Sessions
  <2>4. CASE SearchFailed(l) \/ Disconnect(l)
    BY <1>2, <2>4 DEF SearchFailed, Disconnect, Closed, SameSearch
  <2>. QED  BY <2>1, <2>2, <2>3, <2>4
<1>5. \A m \in Links : SameSearch(m)
  BY <1>3, <1>4 DEF SameSearch, PersistInv, PersistsByMode
<1>. QED  BY <1>1, <1>5, QuietStep

\* A consumer's transaction changes nothing that a provider stores.
LEMMA FinishQuiet ==
    ASSUME PersistInv, TypeInv', NoRelays, NEW l \in Links, publishing[l] = <<>>,
           NEW ck, NEW recorded, NEW contextOnly, NEW worker,
           Finish(l, ck, recorded, contextOnly, worker), worker \in Sessions,
           \/ worker.phase = "idle"
           \/ /\ worker.phase = session[l].phase /\ worker.mode = session[l].mode
              /\ worker.events = session[l].events /\ worker.overflow = session[l].overflow
              /\ worker.snapshot = session[l].snapshot,
           \A n \in Providers : entries'[n] = entries[n] /\ tombstones'[n] = tombstones[n]
    PROVE  PersistInv'
<1>1. l[2] \notin Providers
  BY DEF NoRelays
<1>2. publishing' = publishing
  <2>1. publishing' = [publishing EXCEPT ![l] = <<>>]
    BY <1>1 DEF Finish
  <2>. QED  BY <2>1 DEF PersistInv, TypeInv
<1>3. \A n \in Providers : SameProvider(n)
  <2>1. \A n \in Providers : context'[n] = context[n]
    <3>1. \A n \in Providers : n \in Nodes /\ n # l[2]
      BY <1>1, Topology
    <3>2. \E c : context' = [context EXCEPT ![l[2]] = c]
      BY DEF Finish
    <3>. QED  BY <3>1, <3>2 DEF PersistInv, TypeInv, StoredOK
  <2>2. clock' = clock
    BY DEF Finish
  <2>. QED  BY <2>1, <2>2 DEF SameProvider
<1>4. session' = [session EXCEPT ![l] = [worker EXCEPT !.stream = Tail(worker.stream)]]
  BY DEF Finish
<1>5. session = [m \in Links |-> session[m]]
  BY SessionRead DEF PersistInv
<1>6. \A m \in Links : m # l => session'[m] = session[m]
  BY <1>4, <1>5
<1>7. /\ session'[l].phase = worker.phase /\ session'[l].mode = worker.mode
      /\ session'[l].events = worker.events /\ session'[l].overflow = worker.overflow
      /\ session'[l].snapshot = worker.snapshot
  BY <1>4, <1>5 DEF Sessions
<1>8. \A m \in Links : SameSearch(m)
  BY <1>6, <1>7 DEF SameSearch, PersistInv, PersistsByMode
<1>. QED  BY <1>2, <1>3, <1>8, QuietStep

LEMMA WorkerPersist ==
    ASSUME PersistInv, TypeInv', NoRelays, NEW l \in Links, Worker(l)
    PROVE  PersistInv'
<1> DEFINE m == Head(session[l].stream)
           n == l[2]
           old == session[l]
           noted == [old EXCEPT !.seen = old.seen \cup m.uuids]
           closing == [Closed(old.mode) EXCEPT !.stream = old.stream]
<1>1. old \in Sessions /\ n \notin Providers
  BY SessionRead DEF PersistInv, NoRelays
<1>2. CASE SearchFailed(l)
  BY <1>2, SearchQuiet
<1>3. CASE ~SearchFailed(l)
  <2>1. publishing[l] = <<>> /\ old.stream # <<>>
    BY <1>3, Zenon DEF Worker, Reads, ApplyEntry, ApplyDelete, ApplyPresent, ApplyNewCookie, FinishRefresh
  <2>2. m.uuids \in SUBSET UUIDs
    BY <2>1, HeadTyped DEF PersistInv
  <2> HIDE DEF m, old
  <2>3. /\ noted \in Sessions /\ noted.phase = old.phase /\ noted.mode = old.mode
        /\ noted.events = old.events /\ noted.overflow = old.overflow /\ noted.snapshot = old.snapshot
    <3>1. old.seen \cup m.uuids \in SUBSET UUIDs
      BY <1>1, <2>2 DEF Sessions
    <3>2. \A S \in SUBSET UUIDs :
             LET w == [old EXCEPT !.seen = S]
             IN  /\ w \in Sessions /\ w.phase = old.phase /\ w.mode = old.mode
                 /\ w.events = old.events /\ w.overflow = old.overflow /\ w.snapshot = old.snapshot
      BY <1>1 DEF Sessions
    <3>. QED  BY <3>1, <3>2
  <2>4. closing \in Sessions /\ closing.phase = "idle"
    <3>1. Closed(old.mode) \in Sessions /\ Closed(old.mode).phase = "idle" /\ old.stream \in Seq(Responses)
      BY <1>1, ClosedOK DEF SessionOK, Sessions, Closed
    <3> DEFINE c == Closed(old.mode)
    <3> HIDE DEF c
    <3>2. c \in Sessions /\ c.phase = "idle"
      BY <3>1 DEF c
    <3>3. [c EXCEPT !.stream = old.stream] \in Sessions /\ [c EXCEPT !.stream = old.stream].phase = "idle"
      BY <3>1, <3>2 DEF Sessions
    <3>. QED  BY <3>3 DEF c
  <2>5. \A p \in Providers : entries'[p] = entries[p] /\ tombstones'[p] = tombstones[p]
    <3>1. \A p \in Providers : p \in Nodes /\ p # n
      BY <1>1, Topology
    <3>2. (\E e : entries' = [entries EXCEPT ![n] = e]) \/ entries' = entries
      BY <1>3, Zenon DEF Worker, ApplyEntry, ApplyDelete, ApplyPresent, ApplyNewCookie, FinishRefresh
    <3>3. (\E t : tombstones' = [tombstones EXCEPT ![n] = t]) \/ tombstones' = tombstones
      BY <1>3, Zenon DEF Worker, ApplyEntry, ApplyDelete, ApplyPresent, ApplyNewCookie, FinishRefresh
    <3>. QED  BY <3>1, <3>2, <3>3 DEF PersistInv, TypeInv, StoredOK
  <2>6. \E ck, recorded, contextOnly, worker :
           /\ Finish(l, ck, recorded, contextOnly, worker)
           /\ worker \in {old, noted, closing}
    BY <1>3, Zenon DEF Worker, ApplyEntry, ApplyDelete, ApplyPresent, ApplyNewCookie, FinishRefresh, m, old
  <2>7. PICK ck, recorded, contextOnly, worker :
           /\ Finish(l, ck, recorded, contextOnly, worker)
           /\ worker \in {old, noted, closing}
    BY <2>6
  <2>8. worker \in Sessions
    BY <1>1, <2>3, <2>4, <2>7
  <2>9. \/ worker.phase = "idle"
        \/ /\ worker.phase = session[l].phase /\ worker.mode = session[l].mode
           /\ worker.events = session[l].events /\ worker.overflow = session[l].overflow
           /\ worker.snapshot = session[l].snapshot
    <3> HIDE DEF noted, closing
    <3>. QED  BY <2>3, <2>4, <2>7 DEF old
  <2>. QED  BY <2>1, <2>5, <2>7, <2>8, <2>9, FinishQuiet, SMTT(30)
<1>. QED  BY <1>2, <1>3

\* A restart drops unpublished changes, and with them every search of that server.
LEMMA RestartPersist ==
    ASSUME PersistInv, TypeInv', NEW n \in Nodes, Restart(n)
    PROVE  PersistInv'
<1>1. /\ session' = [l \in Links |-> IF n \in {l[1], l[2]} THEN Closed(session[l].mode) ELSE session[l]]
      /\ publishing' = [a \in Clients \cup Links |-> IF NodeOf(a) = n THEN <<>> ELSE publishing[a]]
      /\ UNCHANGED <<entries, context, tombstones, clock>>
  BY DEF Restart, stored
<1>2. CSNsOrdered'
  BY <1>1 DEF PersistInv, CSNsOrdered
<1>3. \A l \in Links : session'[l].phase = "idle" \/ (session'[l] = session[l] /\ l[1] # n)
  BY <1>1 DEF Closed
<1>4. PersistsByMode'
  BY <1>3 DEF PersistInv, PersistsByMode
<1>5. ASSUME NEW l \in Links, NEW u \in UUIDs PROVE SearchCovered(l, u)'
  <2>1. CASE session'[l].phase = "idle"
    BY <2>1 DEF SearchCovered
  <2>2. CASE session'[l] = session[l] /\ l[1] # n
    <3>1. LatestOf(l[1], u)' = LatestOf(l[1], u)
      BY <1>1 DEF LatestOf
    <3>2. Unpublished(l[1]) \subseteq Unpublished(l[1])'
      <4>1. \A b \in DOMAIN publishing : NodeOf(b) = l[1] => b \in DOMAIN publishing' /\ publishing'[b] = publishing[b]
        BY <1>1, <2>2 DEF PersistInv, TypeInv
      <4>. QED  BY <4>1 DEF Unpublished
    <3>3. \A c : Announced(l, u, c) => Announced(l, u, c)'
      BY <2>2, <3>2 DEF Announced
    <3>. QED  BY <2>2, <3>1, <3>3 DEF PersistInv, SearchesMissNothing, SearchCovered
  <2>. QED  BY <1>3, <2>1, <2>2
<1>. QED  BY <1>2, <1>4, <1>5 DEF PersistInv, SearchesMissNothing

LEMMA NextPersist ==
    ASSUME NoRelays, PersistInv, [Next]_vars
    PROVE  PersistInv'
<1>0. TypeInv'
  BY NextTyped DEF PersistInv
<1>1. ASSUME NEW k \in Clients, Add(k) \/ Modify(k) \/ Delete(k) PROVE PersistInv'
  <2>1. \A after \in Matching : after \in {"none", "in", "out"}
    BY BoundsAssumption
  <2>2. \E u \in UUIDs, after \in {"none", "in", "out"} : CommitWrite(k, u, after)
    BY <1>1, <2>1, Zenon DEF Add, Modify, Delete
  <2>. QED  BY <1>0, <2>2, CommitPersist
<1>2. CASE \E a \in Clients \cup Links : Publish(a)
  BY <1>0, <1>2, PublishPersist
<1>3. ASSUME NEW l \in Links,
             Connect(l) \/ CaptureSnapshot(l) \/ Refresh(l) \/ PersistChange(l) \/ PersistOverflow(l)
      PROVE  PersistInv'
  BY <1>0, <1>3, SearchQuiet, CapturePersist, ChangePersist
<1>4. ASSUME NEW l \in Links, Worker(l) PROVE PersistInv'
  BY <1>0, <1>4, WorkerPersist
<1>5. CASE \E l \in Links : Disconnect(l)
  BY <1>0, <1>5, SearchQuiet
<1>6. CASE \E n \in Nodes : Restart(n)
  BY <1>0, <1>6, RestartPersist
<1>7. CASE UNCHANGED vars
  <2>1. UNCHANGED <<entries, context, tombstones, clock, publishing, session>>
    BY <1>7 DEF vars
  <2>2. (\A n \in Providers : SameProvider(n)) /\ \A l \in Links : SameSearch(l)
    BY <2>1 DEF SameProvider, SameSearch, PersistInv, PersistsByMode
  <2>. QED  BY <1>0, <2>1, <2>2, QuietStep
<1>. QED  BY <1>1, <1>2, <1>3, <1>4, <1>5, <1>6, <1>7 DEF Next

LEMMA PersistInvImplies == PersistInv => PersistMissesNothing
<1> SUFFICES ASSUME PersistInv, NEW l \in Links, NEW u \in UUIDs,
                    session[l].phase = "persist", ~session[l].overflow, LatestOf(l[1], u) # NoCSN,
                    LatestOf(l[1], u) > session[l].snapshot[SIDOf(LatestOf(l[1], u))]
             PROVE  \E change \in Range(session[l].events) \cup Unpublished(l[1]) :
                       change.uuid = u /\ change.csn = LatestOf(l[1], u)
  BY ZenonT(40) DEF PersistMissesNothing, LatestOf, Unpublished
<1>1. session[l].mode = "refreshAndPersist"
  BY DEF PersistInv, PersistsByMode
<1>2. Announced(l, u, LatestOf(l[1], u))
  BY <1>1 DEF PersistInv, SearchesMissNothing, SearchCovered
<1>. QED  BY <1>2, Zenon DEF Announced

\* persistSyncSearch relies on its channel alone.  Where no consumer is a
\* provider itself, that is right for any number of concurrent writers and
\* searches, whatever is lost or restarted: a change newer than what the
\* search has covered is in its channel or with the writer that committed it.
THEOREM PersistentSearchMissesNothing == NoRelays => (Spec => []PersistMissesNothing)
<1> SUFFICES ASSUME NoRelays PROVE Spec => []PersistMissesNothing
  OBVIOUS
<1>1. PersistInv /\ [Next]_vars => PersistInv'
  BY NextPersist
<1>2. Spec => []PersistInv
  BY <1>1, InitPersist, PTL DEF Spec
<1>. QED  BY <1>2, PersistInvImplies, PTL

-----------------------------------------------------------------------------
(* The session log answers for its window.                                 *)

\* The second hypothesis: the changes of a server are published by one writer
\* at a time, in the order of their CSNs.
OneWriter == \A j, k \in Clients : Home[j] = Home[k] => j = k

\* The first CSN number that a server has not reached.
Ceiling(n) == (clock[n] + 1) * Radix

\* Nothing at a provider is ahead of its clock.
BehindTheClock ==
    \A n \in Providers :
        /\ \A s \in SIDs : context[n][s] < Ceiling(n) /\ log[n].latest[s] < Ceiling(n)
        /\ \A u \in UUIDs : entries[n][u].csn < Ceiling(n)

\* A writer has at most one change to publish, and it is newer than all that
\* its server has published.
NewestUnpublished ==
    \A k \in Clients :
        \/ publishing[k] = <<>>
        \/ /\ Len(publishing[k]) = 1 /\ SIDOf(publishing[k][1].csn) \in SIDs
           /\ publishing[k][1].csn < Ceiling(Home[k])
           /\ \A s \in SIDs : log[Home[k]].latest[s] < publishing[k][1].csn

\* No search and no consumer knows the entry.
NoTrace(u) ==
    /\ \A p \in Providers : entries[p][u].visibility # "in"
    /\ \A k \in Clients : \A change \in Range(publishing[k]) : change.uuid = u => change.after # "in"
    /\ \A l \in Links :
          /\ entries[l[2]][u] = Absent
          /\ session[l].phase = "reading" => session[l].view[u].visibility # "in"
          /\ \A change \in Range(session[l].events) : change.uuid = u => change.after # "in"
          /\ \A m \in Range(session[l].stream) : m.kind = "entry" => u \notin m.uuids

\* An entry that no provider ever had is known to nobody.
FreshIsUnknown ==
    \A u \in UUIDs :
        (\A p \in Providers : entries[p][u] = Absent /\ tombstones[p][u] = NoCSN) => NoTrace(u)

\* An entry that was added outside the search: its Add is the one departure that is not logged.
AddedOutside(n, u) ==
    /\ entries[n][u] # Absent /\ NoTrace(u)
    /\ \A p \in Providers : p # n => entries[p][u] = Absent

\* Where a departure can be: behind the log's base, in the log, or with its writer.
DepartureKept(n, u) ==
    LET c == LatestOf(n, u)
    IN  \/ c <= log[n].base[SIDOf(c)]
        \/ \E change \in Range(log[n].changes) : change.uuid = u /\ change.csn = c
        \/ \E k \in Clients :
              /\ Home[k] = n /\ publishing[k] # <<>> /\ ~IsAdd(publishing[k][1])
              /\ publishing[k][1].uuid = u /\ publishing[k][1].csn = c
        \/ AddedOutside(n, u)

DeparturesKept ==
    LogSize > 0 => \A n \in Providers, u \in UUIDs :
        entries[n][u].visibility # "in" /\ LatestOf(n, u) # NoCSN => DepartureKept(n, u)

LogInv == PersistInv /\ BehindTheClock /\ NewestUnpublished /\ FreshIsUnknown /\ DeparturesKept

\* A context made of CSNs below a bound is below it.
LEMMA ContextBelow ==
    ASSUME NEW n \in Nodes, entries[n] \in [UUIDs -> Entries], context[n] \in CSNState,
           NEW b, \A s \in SIDs : context[n][s] < b, \A u \in UUIDs : entries[n][u].csn < b
    PROVE  \A s \in SIDs : ContextCSNs(n)[s] < b
<1> DEFINE Issued(s) == {v \in UUIDs : entries[n][v].csn # NoCSN /\ SIDOf(entries[n][v].csn) = s}
           C(s) == {context[n][s]} \cup {entries[n][u].csn : u \in Issued(s)}
<1>1. ASSUME NEW s \in SIDs PROVE ContextCSNs(n)[s] < b
  <2>1. ContextCSNs(n) \in CSNState /\ \A q \in SIDs : ContextCSNs(n)[q] = Max(C(q))
    <3>1. ContextCSNs(n) \in CSNState
      BY ContextFacts
    <3>. QED  BY <3>1 DEF ContextCSNs
  <2>2. C(s) \in SUBSET Nat /\ C(s) # {}
    <3>1. \A v \in UUIDs : entries[n][v].csn \in Nat
      BY EntryTyped
    <3>. QED  BY <3>1 DEF CSNState
  <2>3. IsFiniteSet(C(s))
    <3> DEFINE f == [v \in UUIDs |-> entries[n][v].csn]
               I == Issued(s)
    <3>1. IsFiniteSet(I) /\ I \subseteq DOMAIN f
      BY FS_Subset, BoundsAssumption
    <3>2. C(s) = {context[n][s]} \cup {f[x] : x \in I}
      OBVIOUS
    <3> HIDE DEF f, I
    <3>3. IsFiniteSet({f[x] : x \in I})
      BY <3>1, FiniteImage
    <3>4. IsFiniteSet({context[n][s]} \cup {f[x] : x \in I})
      BY <3>3, FS_Singleton, FS_Union
    <3>. QED  BY <3>2, <3>4
  <2>4. \A x \in C(s) : x < b
    OBVIOUS
  <2> HIDE DEF C
  <2>5. Max(C(s)) \in C(s)
    BY <2>2, <2>3, GreatestNumber
  <2>. QED  BY <2>1, <2>4, <2>5
<1>. QED  BY <1>1

\* The ceiling rises with the clock.
LEMMA CeilingFacts ==
    ASSUME NEW c \in Nat, NEW d \in Nat, c <= d
    PROVE  (c + 1) * Radix \in Nat /\ (c + 1) * Radix <= (d + 1) * Radix /\ (c + 1) * Radix > 0
<1> DEFINE r == Radix
<1>1. r \in Nat /\ r > 0
  BY CSNFacts
<1> HIDE DEF r
<1>2. PICK e \in Nat : d = c + e
  <2>1. d - c \in Nat /\ d = c + (d - c)
    OBVIOUS
  <2>. QED  BY <2>1
<1>3. (c + 1) * r \in Nat /\ (c + 1) * r > 0 /\ e * r \in Nat
  BY <1>1, SMT
<1>4. (d + 1) * r = (c + 1) * r + e * r
  BY <1>1, <1>2, SMT
<1>5. (c + 1) * r <= (d + 1) * r
  BY <1>3, <1>4
<1>. QED  BY <1>3, <1>5 DEF r

\* The import is behind the clock that the providers start with.
LEMMA LoadedBelow ==
    LET b == (Cardinality(Loaded) + 1) * Radix
    IN  /\ \A u \in Loaded : LoadedCSN(u) < b
        /\ \A s \in SIDs : LoadedContext[s] < b
<1> DEFINE d == Cardinality(Loaded)
           b == (d + 1) * Radix
<1>0. d \in Nat
  BY Bounds
<1>1. ASSUME NEW u \in Loaded PROVE LoadedCSN(u) < b
  <2> DEFINE V == {v \in Loaded : v <= u}
             c == Cardinality(V)
  <2>1. IsFiniteSet(V) /\ c \in Nat /\ c <= d
    BY Bounds, FS_Subset, FS_CardinalityType
  <2> HIDE DEF V, c, d
  <2>2. (c + 1) * Radix <= (d + 1) * Radix /\ (c + 1) * Radix \in Nat /\ (d + 1) * Radix \in Nat
    BY <1>0, <2>1, CeilingFacts
  <2>3. CSN(c, Min(SIDs)) < (c + 1) * Radix /\ CSN(c, Min(SIDs)) \in Nat
    BY <2>1, CSNFacts
  <2> DEFINE x == (c + 1) * Radix
             y == (d + 1) * Radix
  <2> HIDE DEF x, y
  <2>4. CSN(c, Min(SIDs)) < y
    <3>1. x \in Nat /\ y \in Nat /\ x <= y /\ CSN(c, Min(SIDs)) < x /\ CSN(c, Min(SIDs)) \in Nat
      BY <2>2, <2>3 DEF x, y
    <3>. QED  BY <3>1
  <2>. QED  BY <2>4 DEF LoadedCSN, c, V, y
<1>2. b \in Nat /\ b > 0
  BY <1>0, CeilingFacts
<1>3. ASSUME NEW s \in SIDs PROVE LoadedContext[s] < b
  <2> DEFINE f == [u \in Loaded |-> LoadedCSN(u)]
             C == {NoCSN} \cup {LoadedCSN(u) : u \in Loaded}
  <2>1. {LoadedCSN(u) : u \in Loaded} = {f[x] : x \in Loaded} /\ Loaded \subseteq DOMAIN f
    OBVIOUS
  <2>2. IsFiniteSet({f[x] : x \in Loaded})
    <3> HIDE DEF f
    <3>. QED  BY <2>1, Bounds, FiniteImage
  <2>3. IsFiniteSet(C)
    BY <2>1, <2>2, FS_Singleton, FS_Union
  <2>4. C \in SUBSET Nat /\ C # {}
    BY LoadedFacts DEF NoCSN
  <2>5. Max(C) \in C
    BY <2>3, <2>4, GreatestNumber
  <2> HIDE DEF b
  <2>6. \A x \in C : x < b
    BY <1>1, <1>2 DEF NoCSN
  <2>7. LoadedContext = [NoState EXCEPT ![Min(SIDs)] = Max(C)]
    BY DEF LoadedContext
  <2> HIDE DEF C
  <2>8. LoadedContext[s] \in {NoCSN, Max(C)}
    BY <2>7 DEF NoState
  <2>. QED  BY <1>2, <2>5, <2>6, <2>8 DEF NoCSN
<1>. QED  BY <1>1, <1>3

LEMMA InitLog == NoRelays /\ Init => LogInv
<1> SUFFICES ASSUME NoRelays, Init PROVE LogInv
  OBVIOUS
<1>1. PersistInv
  BY InitPersist
<1>2. BehindTheClock
  <2>1. ASSUME NEW n \in Providers
        PROVE  /\ \A s \in SIDs : context[n][s] < Ceiling(n) /\ log[n].latest[s] < Ceiling(n)
               /\ \A u \in UUIDs : entries[n][u].csn < Ceiling(n)
    <3>1. n \in Nodes
      BY Topology
    <3>2. context[n] = LoadedContext /\ log[n].latest = LoadedContext /\ clock[n] = Cardinality(Loaded)
      BY <3>1 DEF Init, EmptyLog
    <3>3. Ceiling(n) = (Cardinality(Loaded) + 1) * Radix
      BY <3>2 DEF Ceiling
    <3>4. ASSUME NEW u \in UUIDs PROVE entries[n][u].csn < Ceiling(n)
      <4>1. CASE u \in Loaded
        BY <3>1, <3>3, <4>1, LoadedBelow DEF Init
      <4>2. CASE u \notin Loaded
        <5>1. entries[n][u].csn = 0
          BY <3>1, <4>2 DEF Init, Absent, NoCSN
        <5>2. (Cardinality(Loaded) + 1) * Radix > 0 /\ (Cardinality(Loaded) + 1) * Radix \in Nat
          BY Bounds, CeilingFacts
        <5>. QED  BY <3>3, <5>1, <5>2
      <4>. QED  BY <4>1, <4>2
    <3>. QED  BY <3>2, <3>3, <3>4, LoadedBelow
  <2>. QED  BY <2>1 DEF BehindTheClock
<1>3. NewestUnpublished
  BY DEF NewestUnpublished, Init
<1>4. FreshIsUnknown
  <2>1. ASSUME NEW u \in UUIDs, \A p \in Providers : entries[p][u] = Absent PROVE NoTrace(u)
    <3>1. \A l \in Links : session[l].phase = "idle" /\ session[l].events = <<>> /\ session[l].stream = <<>>
      <4>1. \A l \in Links : session[l] \in {Closed(mode) : mode \in Modes}
        BY DEF Init
      <4>. QED  BY <4>1 DEF Closed
    <3>2. \A l \in Links : entries[l[2]][u] = Absent
      BY Topology DEF Init, NoRelays
    <3>3. \A k \in Clients : publishing[k] = <<>>
      BY DEF Init
    <3>4. Range(<<>>) = {}
      BY DEF Range
    <3>5. \A p \in Providers : entries[p][u].visibility # "in"
      BY <2>1 DEF Absent
    <3>. QED  BY <3>1, <3>2, <3>3, <3>4, <3>5 DEF NoTrace
  <2>. QED  BY <2>1 DEF FreshIsUnknown
<1>5. DeparturesKept
  <2>1. ASSUME NEW n \in Providers, NEW u \in UUIDs, entries[n][u].visibility # "in"
        PROVE  LatestOf(n, u) = NoCSN
    <3>1. n \in Nodes
      BY Topology
    <3>2. entries[n][u] = Absent /\ tombstones[n][u] = NoCSN
      BY <2>1, <3>1 DEF Init
    <3>. QED  BY <3>2 DEF LatestOf
  <2>. QED  BY <2>1 DEF DeparturesKept
<1>. QED  BY <1>1, <1>2, <1>3, <1>4, <1>5 DEF LogInv

\* A step that leaves the providers, their logs and the writers alone, and
\* tells nobody of an entry that nobody knew.
LEMMA QuietLog ==
    ASSUME LogInv, PersistInv', \A n \in Providers : SameProvider(n) /\ log'[n] = log[n],
           \A k \in Clients : publishing'[k] = publishing[k],
           \A u \in UUIDs : NoTrace(u) => NoTrace(u)'
    PROVE  LogInv'
<1>1. BehindTheClock'
  BY DEF LogInv, BehindTheClock, SameProvider, Ceiling
<1>2. NewestUnpublished'
  BY Topology DEF LogInv, NewestUnpublished, SameProvider, Ceiling
<1>3. FreshIsUnknown'
  BY DEF LogInv, FreshIsUnknown, SameProvider
<1>4. DeparturesKept'
  <2>1. ASSUME LogSize > 0, NEW n \in Providers, NEW u \in UUIDs,
               entries'[n][u].visibility # "in", LatestOf(n, u)' # NoCSN
        PROVE  DepartureKept(n, u)'
    <3>1. LatestOf(n, u)' = LatestOf(n, u) /\ entries'[n] = entries[n]
      BY DEF LatestOf, SameProvider
    <3>2. DepartureKept(n, u)
      BY <2>1, <3>1 DEF LogInv, DeparturesKept
    <3>3. AddedOutside(n, u) => AddedOutside(n, u)'
      BY DEF AddedOutside, SameProvider
    <3>. QED  BY <3>1, <3>2, <3>3 DEF DepartureKept
  <2>. QED  BY <2>1 DEF DeparturesKept
<1>. QED  BY <1>1, <1>2, <1>3, <1>4 DEF LogInv

\* What one search, and one consumer, may learn.
LEMMA TraceStep ==
    ASSUME TypeInv, \A n \in Providers : entries'[n] = entries[n],
           \A k \in Clients : publishing'[k] = publishing[k],
           NEW l \in Links, \A m \in Links : m # l => session'[m] = session[m],
           NEW u \in UUIDs, NoTrace(u),
           \A m \in Links : entries'[m[2]][u] = Absent,
           session'[l].phase = "reading" => session'[l].view[u].visibility # "in",
           Range(session'[l].events) \subseteq Range(session[l].events),
           \A r \in Range(session'[l].stream) :
              r \in Range(session[l].stream) \/ (r.kind = "entry" => u \notin r.uuids)
    PROVE  NoTrace(u)'
<1>1. ASSUME NEW m \in Links
      PROVE  /\ entries'[m[2]][u] = Absent
             /\ session'[m].phase = "reading" => session'[m].view[u].visibility # "in"
             /\ \A change \in Range(session'[m].events) : change.uuid = u => change.after # "in"
             /\ \A r \in Range(session'[m].stream) : r.kind = "entry" => u \notin r.uuids
  <2>1. CASE m = l
    BY <2>1 DEF NoTrace
  <2>2. CASE m # l
    BY <2>2 DEF NoTrace
  <2>. QED  BY <2>1, <2>2
<1>2. \A p \in Providers : entries'[p][u].visibility # "in"
  BY DEF NoTrace
<1>3. \A k \in Clients : \A change \in Range(publishing'[k]) : change.uuid = u => change.after # "in"
  BY DEF NoTrace
<1>. QED  BY <1>1, <1>2, <1>3 DEF NoTrace

LEMMA SearchLog ==
    ASSUME LogInv, PersistInv', NEW l \in Links,
           Connect(l) \/ CaptureSnapshot(l) \/ PersistOverflow(l) \/ SearchFailed(l) \/ Disconnect(l)
    PROVE  LogInv'
<1>1. /\ \A n \in Providers : SameProvider(n)
      /\ publishing' = publishing /\ log' = log /\ entries' = entries
  BY DEF Connect, CaptureSnapshot, PersistOverflow, SearchFailed, Disconnect, stored, SameProvider
<1>2. /\ TypeInv /\ session[l] \in Sessions /\ session = [m \in Links |-> session[m]]
      /\ session[l].stream \in Seq(Responses)
  BY SessionRead DEF LogInv, PersistInv
<1>3. \A m \in Links : m # l => session'[m] = session[m]
  BY <1>2 DEF Connect, CaptureSnapshot, PersistOverflow, SearchFailed, Disconnect
<1>4. \/ session'[l].phase # "reading"
      \/ session'[l].phase = "reading" /\ session'[l].view = entries[l[1]]
  <2>1. CASE Connect(l)
    BY <1>2, <2>1 DEF Connect, Sessions
  <2>2. CASE CaptureSnapshot(l)
    <3> DEFINE view == entries[l[1]]
               snapshot == ContextCSNs(l[1])
    <3>1. session' = [session EXCEPT ![l] =
                        [session[l] EXCEPT !.phase = "reading", !.view = view, !.snapshot = snapshot]]
      BY <1>2, <2>2 DEF CaptureSnapshot
    <3> HIDE DEF view, snapshot
    <3>2. session'[l].view = view
      BY <1>2, <3>1 DEF Sessions
    <3>. QED  BY <3>2 DEF view
  <2>3. CASE PersistOverflow(l)
    BY <1>2, <2>3 DEF PersistOverflow, Sessions
  <2>4. CASE SearchFailed(l) \/ Disconnect(l)
    BY <1>2, <2>4 DEF SearchFailed, Disconnect, Closed
  <2>. QED  BY <2>1, <2>2, <2>3, <2>4
<1>5. /\ session'[l].events \in {<<>>, session[l].events}
      /\ session'[l].stream \in {<<>>, session[l].stream, Append(session[l].stream, Failed)}
  BY <1>2 DEF Connect, CaptureSnapshot, PersistOverflow, SearchFailed, Disconnect, Closed, Sessions
<1>6. /\ Range(<<>>) = {}
      /\ Range(Append(session[l].stream, Failed)) = Range(session[l].stream) \cup {Failed}
      /\ Failed.kind # "entry"
  <2> DEFINE q == session[l].stream
  <2>1. Failed \in Responses
    BY ResponseTyped, VectorsTyped DEF Failed, NoCSN
  <2>2. Failed.kind # "entry"
    BY DEF Failed, Response
  <2>3. q \in Seq(Responses)
    BY <1>2
  <2> HIDE DEF q
  <2>4. Range(<<>>) = {} /\ Range(Append(q, Failed)) = Range(q) \cup {Failed}
    BY <2>1, <2>3, RangeParts
  <2>. QED  BY <2>2, <2>4 DEF q
<1>7. ASSUME NEW u \in UUIDs, NoTrace(u) PROVE NoTrace(u)'
  <2>1. \A m \in Links : entries'[m[2]][u] = Absent
    BY <1>1, <1>7 DEF NoTrace
  <2>2. session'[l].phase = "reading" => session'[l].view[u].visibility # "in"
    BY <1>4, <1>7, Topology DEF NoTrace
  <2>3. Range(session'[l].events) \subseteq Range(session[l].events)
    BY <1>5, <1>6
  <2>4. \A r \in Range(session'[l].stream) :
              r \in Range(session[l].stream) \/ (r.kind = "entry" => u \notin r.uuids)
    BY <1>5, <1>6
  <2>. QED  BY <1>1, <1>2, <1>3, <1>7, <2>1, <2>2, <2>3, <2>4, TraceStep
<1>. QED  BY <1>1, <1>7, QuietLog

LEMMA RefreshLog ==
    ASSUME LogInv, PersistInv', NEW l \in Links, Refresh(l)
    PROVE  LogInv'
<1> DEFINE old == session[l]
           known == ComparableCookie(cookie[l], old.snapshot)
           replays == known # NoState /\ Usable(log[l[1]], known, old.snapshot)
           from == IF known # NoState /\ ~replays /\ ~CookieStateExists(old.view, known) THEN NoState ELSE known
           replay == IF replays THEN Replayed(log[l[1]], known, old.snapshot) ELSE {}
           failure == SnapshotFailure(cookie[l], old.snapshot)
           phase == IF failure \/ old.mode = "refreshOnly" THEN "ended" ELSE "persist"
           stream == IF failure THEN <<Failed>>
                     ELSE RefreshResponses(old.view, from, old.snapshot, replay, replays)
           s == [old EXCEPT !.phase = phase, !.view = <<>>, !.stream = stream]
<1>1. /\ TypeInv /\ old \in Sessions /\ session = [m \in Links |-> session[m]]
      /\ old.phase = "reading" /\ old.view \in [UUIDs -> Entries] /\ old.snapshot \in CSNState
  BY SessionRead DEF LogInv, PersistInv, Refresh, SessionOK
<1>2. known \in CSNState /\ from \in CSNState
  BY <1>1, ComparableTyped, VectorsTyped DEF TypeInv, StoredOK
<1>3. replay \in SUBSET Changes /\ IsFiniteSet(replay)
  <2>1. log[l[1]].changes \in Seq(Changes)
    BY <1>1, Topology DEF TypeInv, LogsOK, SessionLogs
  <2>2. IsFiniteSet(Range(log[l[1]].changes)) /\ Range(log[l[1]].changes) \in SUBSET Changes
    BY <2>1, FiniteRange
  <2>3. Replayed(log[l[1]], known, old.snapshot) \in SUBSET Range(log[l[1]].changes)
    BY DEF Replayed
  <2>4. IsFiniteSet(Replayed(log[l[1]], known, old.snapshot))
    BY <2>2, <2>3, FS_Subset
  <2>. QED  BY <2>2, <2>3, <2>4, FS_EmptySet
<1>4. replays \in BOOLEAN
  BY DEF Usable
<1>5. session' = [session EXCEPT ![l] = s]
  BY <1>1 DEF Refresh
<1>6. /\ \A n \in Providers : SameProvider(n)
      /\ publishing' = publishing /\ log' = log /\ entries' = entries
  BY DEF Refresh, stored, SameProvider
<1> HIDE DEF known, replays, from, replay, failure
<1>7. \A r \in Range(stream) : r.kind = "entry" => \A u \in r.uuids : old.view[u].visibility = "in"
  <2>1. \A r \in Range(RefreshResponses(old.view, from, old.snapshot, replay, replays)) :
           r.kind = "entry" => \A u \in r.uuids : old.view[u].visibility = "in"
    BY <1>1, <1>2, <1>3, <1>4, RefreshTyped
  <2>2. \A r \in Range(<<Failed>>) : r.kind # "entry"
    BY DEF Range, Failed, Response
  <2>. QED  BY <2>1, <2>2
<1>8. phase \in {"ended", "persist"}
  OBVIOUS
<1> HIDE DEF stream, phase
<1>9. /\ \A m \in Links : m # l => session'[m] = session[m]
      /\ session'[l].phase # "reading" /\ session'[l].events = old.events /\ session'[l].stream = stream
  <2> HIDE DEF old
  <2>1. \A m \in Links : m # l => session'[m] = session[m]
    BY <1>1, <1>5
  <2>2. session'[l] = s
    BY <1>1, <1>5
  <2>. QED  BY <1>1, <1>8, <2>1, <2>2 DEF Sessions
<1>10. ASSUME NEW u \in UUIDs, NoTrace(u) PROVE NoTrace(u)'
  <2>1. \A m \in Links : entries'[m[2]][u] = Absent
    BY <1>6, <1>10 DEF NoTrace
  <2>2. old.view[u].visibility # "in"
    BY <1>1, <1>10 DEF NoTrace
  <2>3. \A r \in Range(session'[l].stream) : r.kind = "entry" => u \notin r.uuids
    BY <1>7, <1>9, <2>2
  <2>. QED  BY <1>1, <1>6, <1>9, <1>10, <2>1, <2>3, TraceStep
<1>. QED  BY <1>6, <1>10, QuietLog

LEMMA ChangeLog ==
    ASSUME LogInv, PersistInv', NEW l \in Links, PersistChange(l)
    PROVE  LogInv'
<1> DEFINE old == session[l]
           change == Head(old.events)
           sid == SIDOf(change.csn)
           snapshot == [old.snapshot EXCEPT ![sid] = change.csn]
           live == [old.live EXCEPT ![sid] = change.csn]
           response == ChangeResponse(change, snapshot)
           stream == Append(old.stream, response)
           rest == Tail(old.events)
           skip == [old EXCEPT !.events = rest]
           send == [old EXCEPT !.events = rest, !.snapshot = snapshot, !.live = live, !.stream = stream]
<1>1. /\ TypeInv /\ old \in Sessions /\ old.events \in Seq(Changes) /\ old.events # <<>>
      /\ old.snapshot \in CSNState /\ old.phase = "persist" /\ old.stream \in Seq(Responses)
      /\ session = [m \in Links |-> session[m]]
  BY SessionRead DEF LogInv, PersistInv, PersistChange
<1>2. change \in Changes
  BY <1>1
<1>3. Range(old.events) = {change} \cup Range(rest)
  <2> HIDE DEF old
  <2>. QED  BY <1>1, RangeParts
<1>4. session' = [session EXCEPT ![l] = IF Skipped(old, change) THEN skip ELSE send]
  BY <1>1 DEF PersistChange
<1>5. /\ \A n \in Providers : SameProvider(n)
      /\ publishing' = publishing /\ log' = log /\ entries' = entries
  BY DEF PersistChange, stored, SameProvider
<1>6. response.kind = "entry" => response.uuids = {change.uuid} /\ change.after = "in"
  BY DEF ChangeResponse, Response
<1>7. snapshot \in CSNState
  BY <1>1, <1>2 DEF CSNState, Changes
<1>8. Range(stream) = Range(old.stream) \cup {response}
  <2>1. response \in Responses
    BY <1>2, <1>7, ChangeResponseTyped
  <2> HIDE DEF response, old
  <2>. QED  BY <1>1, <2>1, RangeParts
<1> HIDE DEF change, rest, live, stream, snapshot, response
<1>9. /\ session'[l].phase = "persist" /\ session'[l].events = rest
      /\ session'[l].stream \in {old.stream, stream}
      /\ \A m \in Links : m # l => session'[m] = session[m]
  <2> HIDE DEF old
  <2>1. CASE Skipped(old, change)
    BY <1>1, <1>4, <2>1 DEF Sessions
  <2>2. CASE ~Skipped(old, change)
    BY <1>1, <1>4, <2>2 DEF Sessions
  <2>. QED  BY <2>1, <2>2
<1>10. ASSUME NEW u \in UUIDs, NoTrace(u) PROVE NoTrace(u)'
  <2>1. \A m \in Links : entries'[m[2]][u] = Absent
    BY <1>5, <1>10 DEF NoTrace
  <2>2. change.uuid = u => change.after # "in"
    BY <1>3, <1>10 DEF NoTrace
  <2>3. \A r \in Range(session'[l].stream) :
              r \in Range(session[l].stream) \/ (r.kind = "entry" => u \notin r.uuids)
    BY <1>6, <1>8, <1>9, <2>2
  <2>4. Range(session'[l].events) \subseteq Range(session[l].events)
    BY <1>3, <1>9
  <2>. QED  BY <1>1, <1>5, <1>9, <1>10, <2>1, <2>3, <2>4, TraceStep
<1>. QED  BY <1>5, <1>10, QuietLog

\* The latest change of an entry has a CSN of a known server.
LEMMA LatestTyped ==
    ASSUME PersistInv, NEW n \in Providers, NEW u \in UUIDs, LatestOf(n, u) # NoCSN
    PROVE  LatestOf(n, u) \in Nat /\ SIDOf(LatestOf(n, u)) \in SIDs
<1>1. entries[n][u] \in Entries /\ tombstones[n][u] \in Nat
  BY Topology DEF PersistInv, TypeInv, StoredOK
<1>. QED  BY <1>1, EntryTyped DEF LatestOf, PersistInv, CSNsOrdered

\* A client's write: a departure is with its writer, an Add outside the search is known to nobody.
LEMMA CommitLog ==
    ASSUME OneWriter, NoRelays, LogInv, PersistInv',
           NEW k \in Clients, NEW u \in UUIDs, NEW after \in {"none", "in", "out"},
           \/ NewUUID(u) /\ after # "none"
           \/ entries[Home[k]][u] # Absent,
           CommitWrite(k, u, after)
    PROVE  LogInv'
<1>0. PICK n, csn, top : Committed(k, u, after, n, csn, top)
  BY CommitFacts DEF LogInv
<1> DEFINE change == Change(u, entries[n][u].visibility, after, csn)
<1>1. /\ n = Home[k] /\ n \in Nodes /\ n \in Providers /\ clock[n] \in Nat
      /\ entries \in [Nodes -> [UUIDs -> Entries]] /\ context \in [Nodes -> CSNState]
  BY <1>0 DEF Committed
<1>2. /\ csn \in Nat /\ csn > 0 /\ SIDOf(csn) \in SIDs
      /\ top = Ceiling(n) /\ top \in Nat /\ top <= csn
  BY <1>0 DEF Committed, Ceiling
<1>3. Ceiling(n)' \in Nat /\ csn < Ceiling(n)' /\ top < Ceiling(n)'
  <2>1. clock'[n] + 1 = clock[n] + 2 /\ clock[n] + 2 \in Nat /\ Radix \in Nat
    <3>1. clock'[n] = clock[n] + 1
      BY <1>0, Zenon DEF Committed
    <3>. QED  BY <1>1, <3>1, CSNFacts
  <2>2. Ceiling(n)' = (clock[n] + 2) * Radix
    BY <2>1 DEF Ceiling
  <2>3. (clock[n] + 2) * Radix \in Nat
    BY <2>1
  <2>4. csn < (clock[n] + 2) * Radix /\ top < (clock[n] + 2) * Radix
    BY <1>0 DEF Committed
  <2>. QED  BY <2>2, <2>3, <2>4
<1>4. /\ publishing' = [publishing EXCEPT ![k] = <<change>>]
      /\ publishing[k] = <<>> /\ session' = session /\ log' = log
  BY <1>0 DEF Committed
<1>5. \A m \in Nodes : m # n => SameProvider(m)
  BY <1>0 DEF Committed
<1>6. /\ entries'[n][u] # Absent \/ tombstones'[n][u] # NoCSN
      /\ entries'[n][u].visibility = after /\ entries'[n][u].csn \in {NoCSN, csn}
      /\ LatestOf(n, u)' = csn /\ (after # "none" => entries'[n][u] # Absent)
  <2>1. CASE after = "none"
    <3>1. entries'[n][u] = Absent /\ tombstones'[n][u] = csn
      BY <1>0, <2>1 DEF Committed
    <3>. QED  BY <1>2, <2>1, <3>1 DEF Absent, NoCSN, LatestOf
  <2>2. CASE after # "none"
    <3>1. entries'[n][u] = [visibility |-> after, csn |-> csn]
      BY <1>0, <2>2 DEF Committed
    <3>. QED  BY <1>2, <2>2, <3>1 DEF Absent, NoCSN, LatestOf
  <2>. QED  BY <2>1, <2>2
<1>7. \A v \in UUIDs : v # u => entries'[n][v] = entries[n][v] /\ tombstones'[n][v] = tombstones[n][v]
  BY <1>0 DEF Committed
<1>8. /\ publishing'[k] = <<change>> /\ Range(<<change>>) = {change}
      /\ \A j \in Clients : j # k => publishing'[j] = publishing[j] /\ Home[j] # n
  <2>1. \A j \in Clients : j # k => Home[j] # n
    BY <1>1 DEF OneWriter
  <2>2. \A x : Range(<<x>>) = {x}
    BY DEF Range
  <2> HIDE DEF change
  <2>. QED  BY <1>4, <2>1, <2>2 DEF LogInv, PersistInv, TypeInv
<1>9. /\ change.uuid = u /\ change.after = after /\ change.csn = csn
      /\ change.before = entries[n][u].visibility
  BY DEF Change
<1> HIDE DEF change
<1>10. BehindTheClock'
  <2>1. ASSUME NEW m \in Providers, m # n
        PROVE  /\ \A s \in SIDs : context'[m][s] < Ceiling(m)' /\ log'[m].latest[s] < Ceiling(m)'
               /\ \A v \in UUIDs : entries'[m][v].csn < Ceiling(m)'
    BY <1>4, <1>5, <2>1, Topology DEF LogInv, BehindTheClock, SameProvider, Ceiling
  <2>2. ASSUME NEW s \in SIDs PROVE context'[n][s] < Ceiling(n)' /\ log'[n].latest[s] < Ceiling(n)'
    <3>1. context[n][s] < top /\ log[n].latest[s] < top
      BY <1>1, <1>2 DEF LogInv, BehindTheClock
    <3>2. context[n][s] \in Nat /\ log[n].latest[s] \in Nat
      BY <1>1 DEF LogInv, PersistInv, TypeInv, LogsOK, SessionLogs, CSNState
    <3>3. context'[n][s] \in {csn, context[n][s]}
      BY <1>0 DEF Committed
    <3>. QED  BY <1>2, <1>3, <1>4, <3>1, <3>2, <3>3
  <2>3. ASSUME NEW v \in UUIDs PROVE entries'[n][v].csn < Ceiling(n)'
    <3>1. entries[n][v].csn < top /\ entries[n][v].csn \in Nat
      BY <1>1, <1>2, EntryTyped DEF LogInv, BehindTheClock
    <3>2. entries'[n][v].csn \in {NoCSN, csn, entries[n][v].csn}
      BY <1>6, <1>7
    <3>. QED  BY <1>2, <1>3, <3>1, <3>2 DEF NoCSN
  <2>. QED  BY <2>1, <2>2, <2>3 DEF BehindTheClock
<1>11. NewestUnpublished'
  <2>1. ASSUME NEW j \in Clients, j # k
        PROVE  \/ publishing'[j] = <<>>
               \/ /\ Len(publishing'[j]) = 1 /\ SIDOf(publishing'[j][1].csn) \in SIDs
                  /\ publishing'[j][1].csn < Ceiling(Home[j])'
                  /\ \A s \in SIDs : log'[Home[j]].latest[s] < publishing'[j][1].csn
    <3>1. SameProvider(Home[j])
      BY <1>5, <1>8, <2>1, Topology
    <3>. QED  BY <1>4, <1>8, <2>1, <3>1 DEF LogInv, NewestUnpublished, SameProvider, Ceiling
  <2>2. /\ Len(publishing'[k]) = 1 /\ SIDOf(publishing'[k][1].csn) \in SIDs
        /\ publishing'[k][1].csn < Ceiling(Home[k])'
        /\ \A s \in SIDs : log'[Home[k]].latest[s] < publishing'[k][1].csn
    <3>1. Len(publishing'[k]) = 1 /\ publishing'[k][1].csn = csn
      BY <1>8, <1>9
    <3>2. \A s \in SIDs : log[n].latest[s] < top /\ log[n].latest[s] \in Nat
      BY <1>1, <1>2 DEF LogInv, BehindTheClock, PersistInv, TypeInv, LogsOK, SessionLogs, CSNState
    <3>3. \A s \in SIDs : log'[n].latest[s] < csn
      BY <1>2, <1>4, <3>2
    <3>. QED  BY <1>1, <1>2, <1>3, <3>1, <3>3
  <2>. QED  BY <2>1, <2>2 DEF NewestUnpublished
\* Nobody learns of the other entries, nor of an entry that was added outside the search.
<1>12. ASSUME NEW v \in UUIDs, NoTrace(v), v = u => after # "in" PROVE NoTrace(v)'
  <2>1. \A p \in Providers : entries'[p][v].visibility # "in"
    <3>1. \A p \in Providers : p # n => entries'[p] = entries[p]
      BY <1>5, Topology DEF SameProvider
    <3>2. entries'[n][v].visibility # "in"
      BY <1>1, <1>6, <1>7, <1>12 DEF NoTrace
    <3>. QED  BY <1>12, <3>1, <3>2 DEF NoTrace
  <2>2. \A j \in Clients : \A c \in Range(publishing'[j]) : c.uuid = v => c.after # "in"
    BY <1>8, <1>9, <1>12 DEF NoTrace
  <2>3. \A l \in Links : entries'[l[2]][v] = Absent
    <3>1. \A l \in Links : l[2] \in Nodes /\ l[2] # n
      BY <1>1, Topology DEF NoRelays
    <3>. QED  BY <1>5, <1>12, <3>1 DEF NoTrace, SameProvider
  <2>. QED  BY <1>4, <1>12, <2>1, <2>2, <2>3 DEF NoTrace
<1>13. FreshIsUnknown'
  <2>1. ASSUME NEW v \in UUIDs, \A p \in Providers : entries'[p][v] = Absent /\ tombstones'[p][v] = NoCSN
        PROVE  NoTrace(v)'
    <3>1. v # u
      BY <1>1, <1>6, <2>1
    <3>2. \A p \in Providers : entries'[p][v] = entries[p][v] /\ tombstones'[p][v] = tombstones[p][v]
      BY <1>5, <1>7, <3>1, Topology DEF SameProvider
    <3>3. NoTrace(v)
      BY <2>1, <3>2 DEF LogInv, FreshIsUnknown
    <3>. QED  BY <1>12, <3>1, <3>3
  <2>. QED  BY <2>1 DEF FreshIsUnknown
<1>14. ASSUME LogSize > 0, after # "in" PROVE DepartureKept(n, u)'
  <2>1. CASE entries[n][u] # Absent
    <3>1. change.before # "none"
      BY <1>1, <1>9, <2>1 DEF Entries
    <3>2. ~IsAdd(change)
      BY <3>1 DEF IsAdd
    <3>3. publishing'[k] # <<>> /\ publishing'[k][1] = change
      BY <1>8
    <3>. QED  BY <1>1, <1>6, <1>9, <3>2, <3>3 DEF DepartureKept
  <2>2. CASE entries[n][u] = Absent
    <3>1. NewUUID(u) /\ after # "none"
      BY <1>1, <2>2
    <3>2. \A p \in Providers : entries[p][u] = Absent /\ tombstones[p][u] = NoCSN
      BY <3>1, Topology DEF NewUUID
    <3>3. NoTrace(u)
      BY <3>2 DEF LogInv, FreshIsUnknown
    <3>4. NoTrace(u)'
      BY <1>12, <1>14, <3>3
    <3>5. \A p \in Providers : p # n => entries'[p][u] = Absent
      BY <1>5, <3>2, Topology DEF SameProvider
    <3>6. AddedOutside(n, u)'
      BY <1>6, <3>1, <3>4, <3>5 DEF AddedOutside
    <3>. QED  BY <3>6 DEF DepartureKept
  <2>. QED  BY <2>1, <2>2
<1>15. ASSUME LogSize > 0, NEW m \in Providers, NEW v \in UUIDs, ~(m = n /\ v = u),
              entries'[m][v].visibility # "in", LatestOf(m, v)' # NoCSN
       PROVE  DepartureKept(m, v)'
  <2>1. entries'[m][v] = entries[m][v] /\ LatestOf(m, v)' = LatestOf(m, v)
    BY <1>5, <1>7, <1>15, Topology DEF SameProvider, LatestOf
  <2>2. DepartureKept(m, v)
    BY <1>15, <2>1 DEF LogInv, DeparturesKept
  <2>3. ASSUME AddedOutside(m, v) PROVE AddedOutside(m, v)'
    <3>1. v # u
      <4>1. CASE m = n
        BY <1>15, <4>1
      <4>2. CASE m # n
        <5>1. entries[m][v] # Absent /\ entries[n][v] = Absent
          BY <1>1, <2>3, <4>2 DEF AddedOutside
        <5>. QED  BY <1>1, <5>1, Topology DEF NewUUID
      <4>. QED  BY <4>1, <4>2
    <3>2. \A p \in Providers : entries'[p][v] = entries[p][v]
      BY <1>5, <1>7, <3>1, Topology DEF SameProvider
    <3>3. NoTrace(v)'
      BY <1>12, <2>3, <3>1 DEF AddedOutside
    <3>. QED  BY <2>3, <3>2, <3>3 DEF AddedOutside
  <2>4. \A j \in Clients : publishing[j] # <<>> => publishing'[j] = publishing[j]
    BY <1>4, <1>8
  <2>. QED  BY <1>4, <2>1, <2>2, <2>3, <2>4 DEF DepartureKept
<1>16. DeparturesKept'
  BY <1>6, <1>14, <1>15 DEF DeparturesKept
<1>. QED  BY <1>10, <1>11, <1>13, <1>16 DEF LogInv

\* Advancing a vector moves it up, to the CSN at least.
LEMMA AdvanceFacts ==
    ASSUME NEW v \in CSNState, NEW c \in Nat
    PROVE  /\ Advance(v, c) \in CSNState
           /\ \A s \in SIDs : v[s] \in Nat /\ Advance(v, c)[s] >= v[s]
           /\ SIDOf(c) \in SIDs => c <= Advance(v, c)[SIDOf(c)]
<1> DEFINE sid == SIDOf(c)
           new == IF c > v[sid] THEN c ELSE v[sid]
<1>1. v \in [SIDs -> Nat]
  BY DEF CSNState
<1>2. Advance(v, c) \in CSNState
  BY VectorsTyped
<1>3. CASE c = NoCSN
  BY <1>1, <1>3 DEF Advance, NoCSN
<1>4. CASE c # NoCSN
  <2>1. Advance(v, c) = [v EXCEPT ![sid] = new]
    BY <1>4 DEF Advance
  <2>2. sid \in SIDs => new \in Nat /\ new >= v[sid] /\ new >= c
    BY <1>1
  <2> HIDE DEF sid, new
  <2>3. \A s \in SIDs : Advance(v, c)[s] = IF s = sid THEN new ELSE v[s]
    BY <1>1, <2>1
  <2>4. sid \in SIDs => c <= Advance(v, c)[sid]
    BY <1>1, <2>2, <2>3
  <2>. QED  BY <1>1, <1>2, <2>2, <2>3, <2>4 DEF sid
<1>. QED  BY <1>3, <1>4

\* log.append of a change that is not behind: whatever leaves the window is behind the base.
LEMMA LogAppendFacts ==
    ASSUME NEW g \in SessionLogs, NEW change \in Changes,
           ~(change.csn < g.latest[SIDOf(change.csn)])
    PROVE  LET h == LogAppend(g, change)
           IN  /\ \A s \in SIDs : h.latest[s] \in {g.latest[s], change.csn}
               /\ \A s \in SIDs : h.base[s] >= g.base[s]
               /\ \A c \in Range(g.changes) : SIDOf(c.csn) \in SIDs =>
                     c \in Range(h.changes) \/ c.csn <= h.base[SIDOf(c.csn)]
               /\ ~IsAdd(change) /\ SIDOf(change.csn) \in SIDs =>
                     change \in Range(h.changes) \/ change.csn <= h.base[SIDOf(change.csn)]
               /\ Range(h.changes) \subseteq Range(g.changes) \cup {change}
<1> DEFINE sid == SIDOf(change.csn)
           latest == [g.latest EXCEPT ![sid] = change.csn]
           moved == [g EXCEPT !.latest = latest]
           q == Append(g.changes, change)
           longer == [moved EXCEPT !.changes = q]
           h == LogAppend(g, change)
<1>1. /\ change.csn \in Nat /\ g.base \in CSNState /\ g.latest \in CSNState /\ g.changes \in Seq(Changes)
  BY DEF Changes, SessionLogs
<1>2. \A s \in SIDs : latest[s] \in {g.latest[s], change.csn}
  BY <1>1 DEF CSNState
<1>3. q \in Seq(Changes) /\ q # <<>> /\ Range(q) = Range(g.changes) \cup {change}
  <2>1. \A p \in Seq(Changes) : Append(p, change) \in Seq(Changes) /\ Append(p, change) # <<>>
    OBVIOUS
  <2> DEFINE p == g.changes
  <2>2. p \in Seq(Changes)
    BY <1>1
  <2> HIDE DEF p
  <2>3. Range(Append(p, change)) = Range(p) \cup {change}
    BY <2>2, RangeParts
  <2>. QED  BY <1>1, <2>1, <2>3 DEF p
<1>4. h = IF IsAdd(change) THEN moved ELSE Trim(longer)
  <2>1. [g EXCEPT !.latest[sid] = change.csn] = moved
    OBVIOUS
  <2>2. [moved EXCEPT !.changes = Append(moved.changes, change)] = longer
    BY DEF SessionLogs
  <2>. QED  BY <2>1, <2>2 DEF LogAppend
<1> HIDE DEF latest, q
<1>5. /\ moved.latest = latest /\ moved.base = g.base /\ moved.changes = g.changes
      /\ longer.latest = latest /\ longer.base = g.base /\ longer.changes = q
      /\ DOMAIN longer = {"base", "latest", "changes"}
  BY DEF SessionLogs
<1> HIDE DEF moved, longer
<1>6. \A s \in SIDs : g.base[s] \in Nat /\ g.base[s] >= g.base[s]
  BY <1>1 DEF CSNState
<1>7. CASE IsAdd(change)
  BY <1>2, <1>4, <1>5, <1>6, <1>7
<1>8. CASE ~IsAdd(change) /\ ~(Len(q) > LogSize)
  <2>1. h = longer
    BY <1>4, <1>5, <1>8 DEF Trim
  <2> HIDE DEF h
  <2>2. /\ \A s \in SIDs : h.latest[s] \in {g.latest[s], change.csn}
        /\ \A s \in SIDs : h.base[s] >= g.base[s]
        /\ \A c \in Range(g.changes) \cup {change} : c \in Range(h.changes)
        /\ Range(h.changes) \subseteq Range(g.changes) \cup {change}
    BY <1>2, <1>3, <1>5, <1>6, <2>1
  <2>. QED  BY <2>2 DEF h
<1>9. CASE ~IsAdd(change) /\ Len(q) > LogSize
  <2> DEFINE c0 == Head(q)
             base == Advance(g.base, c0.csn)
             rest == Tail(q)
  <2>1. h = [longer EXCEPT !.base = base, !.changes = rest]
    BY <1>4, <1>5, <1>9 DEF Trim
  <2>2. c0 \in Changes /\ Range(q) = {c0} \cup Range(rest)
    BY <1>3, RangeParts
  <2>3. c0.csn \in Nat
    BY <2>2 DEF Changes
  <2>4. /\ \A s \in SIDs : base[s] >= g.base[s]
        /\ SIDOf(c0.csn) \in SIDs => c0.csn <= base[SIDOf(c0.csn)]
    BY <1>1, <2>3, AdvanceFacts
  <2> HIDE DEF c0, base, rest, h
  <2>5. h.latest = latest /\ h.base = base /\ h.changes = rest
    BY <1>5, <2>1
  <2>6. \A c \in Range(g.changes) \cup {change} : SIDOf(c.csn) \in SIDs =>
              c \in Range(h.changes) \/ c.csn <= h.base[SIDOf(c.csn)]
    BY <1>3, <2>2, <2>4, <2>5
  <2>7. (\A s \in SIDs : h.latest[s] \in {g.latest[s], change.csn}) /\ \A s \in SIDs : h.base[s] >= g.base[s]
    BY <1>2, <2>4, <2>5
  <2>8. Range(h.changes) \subseteq Range(g.changes) \cup {change}
    BY <1>3, <2>2, <2>5
  <2>. QED  BY <2>6, <2>7, <2>8 DEF h
<1>. QED  BY <1>7, <1>8, <1>9

\* Publishing: with one writer, its change is newer than all that was logged.
LEMMA PublishLog ==
    ASSUME OneWriter, NoRelays, LogInv, PersistInv', NEW a \in Clients \cup Links, Publish(a)
    PROVE  LogInv'
<1> DEFINE n == NodeOf(a)
           change == Head(publishing[a])
<1>1. /\ publishing[a] \in Seq(Changes) /\ publishing[a] # <<>> /\ change \in Changes
      /\ change = publishing[a][1] /\ change \in Range(publishing[a])
  <2>1. publishing[a] \in Seq(Changes) /\ publishing[a] # <<>>
    BY DEF LogInv, PersistInv, TypeInv, Publish
  <2> DEFINE q == publishing[a]
  <2> HIDE DEF q
  <2>2. q \in Seq(Changes) /\ q # <<>>
    BY <2>1 DEF q
  <2>3. Head(q) \in Changes /\ Head(q) = q[1] /\ Head(q) \in Range(q)
    BY <2>2, RangeParts
  <2>. QED  BY <2>1, <2>3 DEF q
<1>2. /\ publishing' = [publishing EXCEPT ![a] = Tail(publishing[a])]
      /\ log' = [log EXCEPT ![n] = IF LogSize > 0 THEN LogAppend(log[n], change) ELSE log[n]]
      /\ session' = [l \in Links |->
              IF l[1] = n /\ Subscribed(l) THEN Offer(session[l], change) ELSE session[l]]
      /\ entries' = entries /\ tombstones' = tombstones /\ context' = context /\ clock' = clock
  BY DEF Publish, stored
<1>3. /\ \A p \in Providers : SameProvider(p) /\ (p # n => log'[p] = log[p])
      /\ \A k \in Clients : k # a => publishing'[k] = publishing[k]
  <2>1. \A p \in Providers : p # n => log'[p] = log[p]
    BY <1>2, Topology DEF LogInv, PersistInv, TypeInv, LogsOK
  <2>2. \A k \in Clients : k # a => publishing'[k] = publishing[k]
    BY <1>2 DEF LogInv, PersistInv, TypeInv
  <2>. QED  BY <1>2, <2>1, <2>2 DEF SameProvider
<1> HIDE DEF change
<1>4. ASSUME NEW l \in Links
      PROVE  /\ session'[l].phase = session[l].phase /\ session'[l].view = session[l].view
             /\ session'[l].stream = session[l].stream
             /\ Range(session'[l].events) \subseteq
                   Range(session[l].events) \cup (IF l[1] = n THEN {change} ELSE {})
  <2> DEFINE s == session[l]
  <2>1. s \in Sessions /\ s.events \in Seq(Changes)
    BY SessionRead DEF LogInv, PersistInv
  <2>2. Range(Append(s.events, change)) = Range(s.events) \cup {change}
    <3> HIDE DEF s
    <3>. QED  BY <1>1, <2>1, RangeParts
  <2>3. CASE l[1] = n /\ Subscribed(l)
    <3>1. session'[l] = Offer(s, change)
      BY <1>2, <2>3
    <3>2. CASE Len(s.events) < ChannelSize
      <4> DEFINE q == Append(s.events, change)
      <4>1. session'[l] = [s EXCEPT !.events = q]
        BY <3>1, <3>2 DEF Offer
      <4> HIDE DEF s, q
      <4>2. /\ session'[l].events = q /\ session'[l].phase = s.phase
            /\ session'[l].view = s.view /\ session'[l].stream = s.stream
        BY <2>1, <4>1 DEF Sessions
      <4>. QED  BY <2>2, <2>3, <4>2 DEF s, q
    <3>3. CASE ~(Len(s.events) < ChannelSize)
      <4>1. session'[l] = [s EXCEPT !.overflow = TRUE]
        BY <3>1, <3>3 DEF Offer
      <4>. QED  BY <2>1, <4>1 DEF Sessions
    <3>. QED  BY <3>2, <3>3
  <2>4. CASE ~(l[1] = n /\ Subscribed(l))
    BY <1>2, <2>4
  <2>. QED  BY <2>3, <2>4
<1>5. CASE a \notin Clients
  <2>1. n = a[2] /\ n \notin Providers
    BY <1>5 DEF NodeOf, NoRelays
  <2>2. \A k \in Clients : publishing'[k] = publishing[k]
    BY <1>3, <1>5
  <2>3. \A p \in Providers : SameProvider(p) /\ log'[p] = log[p]
    BY <1>3, <2>1
  <2>4. ASSUME NEW u \in UUIDs, NoTrace(u) PROVE NoTrace(u)'
    <3>1. \A l \in Links : Range(session'[l].events) \subseteq Range(session[l].events)
      BY <1>4, <2>1, Topology
    <3> HIDE DEF n
    <3>. QED  BY <1>2, <1>4, <2>2, <2>4, <3>1, ZenonT(40) DEF NoTrace
  <2>. QED  BY <2>2, <2>3, <2>4, QuietLog
<1>6. CASE a \in Clients
  <2>1. n = Home[a] /\ n \in Providers /\ n \in Nodes
    BY <1>6, Topology DEF NodeOf
  <2>2. /\ Len(publishing[a]) = 1 /\ SIDOf(change.csn) \in SIDs /\ change.csn < Ceiling(n)
        /\ \A s \in SIDs : log[n].latest[s] < change.csn
    BY <1>1, <1>6, <2>1 DEF LogInv, NewestUnpublished
  <2>3. publishing'[a] = <<>>
    <3>1. publishing'[a] = Tail(publishing[a])
      BY <1>2, <1>6 DEF LogInv, PersistInv, TypeInv
    <3> DEFINE q == publishing[a]
    <3> HIDE DEF q
    <3>2. q \in Seq(Changes) /\ Len(q) = 1 /\ q # <<>>
      BY <1>1, <2>2 DEF q
    <3>3. Tail(q) \in Seq(Changes) /\ Len(Tail(q)) = 0
      BY <3>2
    <3>4. Tail(q) = <<>>
      BY <3>3, EmptySeq
    <3>. QED  BY <3>1, <3>4 DEF q
  <2>4. \A k \in Clients : k # a => Home[k] # n
    BY <1>6, <2>1 DEF OneWriter
  <2>5. /\ log[n] \in SessionLogs /\ change.csn \in Nat
        /\ \A s \in SIDs : log[n].latest[s] \in Nat /\ log[n].base[s] \in Nat
    <3>1. log[n] \in SessionLogs
      BY <2>1 DEF LogInv, PersistInv, TypeInv, LogsOK
    <3>. QED  BY <1>1, <3>1 DEF SessionLogs, CSNState, Changes
  <2> DEFINE g == log[n]
             h == log'[n]
  <2>6. LogSize > 0 => h = LogAppend(g, change)
    BY <1>2, <2>1 DEF LogInv, PersistInv, TypeInv, LogsOK
  <2>7. ~(LogSize > 0) => h = g
    BY <1>2, <2>1 DEF LogInv, PersistInv, TypeInv, LogsOK
  <2>8. ASSUME LogSize > 0
        PROVE  /\ \A s \in SIDs : h.latest[s] \in {g.latest[s], change.csn}
               /\ \A s \in SIDs : h.base[s] >= g.base[s]
               /\ \A c \in Range(g.changes) : SIDOf(c.csn) \in SIDs =>
                     c \in Range(h.changes) \/ c.csn <= h.base[SIDOf(c.csn)]
               /\ ~IsAdd(change) /\ SIDOf(change.csn) \in SIDs =>
                     change \in Range(h.changes) \/ change.csn <= h.base[SIDOf(change.csn)]
    <3>1. ~(change.csn < g.latest[SIDOf(change.csn)])
      BY <2>2, <2>5
    <3>2. g \in SessionLogs
      BY <2>5
    <3> HIDE DEF g
    <3>3. LET x == LogAppend(g, change)
          IN  /\ \A s \in SIDs : x.latest[s] \in {g.latest[s], change.csn}
              /\ \A s \in SIDs : x.base[s] >= g.base[s]
              /\ \A c \in Range(g.changes) : SIDOf(c.csn) \in SIDs =>
                    c \in Range(x.changes) \/ c.csn <= x.base[SIDOf(c.csn)]
              /\ ~IsAdd(change) /\ SIDOf(change.csn) \in SIDs =>
                    change \in Range(x.changes) \/ change.csn <= x.base[SIDOf(change.csn)]
      BY <1>1, <3>1, <3>2, LogAppendFacts
    <3>. QED  BY <2>6, <2>8, <3>3
  <2>9. BehindTheClock'
    <3>1. ASSUME NEW p \in Providers
          PROVE  /\ \A s \in SIDs : context'[p][s] < Ceiling(p)' /\ log'[p].latest[s] < Ceiling(p)'
                 /\ \A v \in UUIDs : entries'[p][v].csn < Ceiling(p)'
      <4>1. /\ \A s \in SIDs : context[p][s] < Ceiling(p) /\ log[p].latest[s] < Ceiling(p)
            /\ \A v \in UUIDs : entries[p][v].csn < Ceiling(p)
        BY DEF LogInv, BehindTheClock
      <4>2. Ceiling(p)' = Ceiling(p)
        BY <1>2 DEF Ceiling
      <4>3. \A s \in SIDs : log'[p].latest[s] < Ceiling(p)
        <5>1. CASE p # n
          BY <1>3, <4>1, <5>1
        <5>2. CASE p = n /\ LogSize > 0
          BY <2>2, <2>8, <4>1, <5>2
        <5>3. CASE p = n /\ ~(LogSize > 0)
          BY <2>7, <4>1, <5>3
        <5>. QED  BY <5>1, <5>2, <5>3
      <4>. QED  BY <1>2, <4>1, <4>2, <4>3
    <3>. QED  BY <3>1 DEF BehindTheClock
  <2>10. NewestUnpublished'
    <3>1. ASSUME NEW k \in Clients, k # a
          PROVE  /\ publishing'[k] = publishing[k] /\ log'[Home[k]] = log[Home[k]]
                 /\ Ceiling(Home[k])' = Ceiling(Home[k])
      BY <1>2, <1>3, <2>4, <3>1, Topology DEF Ceiling
    <3>. QED  BY <2>3, <3>1 DEF LogInv, NewestUnpublished
  <2>11. ASSUME NEW u \in UUIDs, NoTrace(u) PROVE NoTrace(u)'
    <3>1. change.uuid = u => change.after # "in"
      BY <1>1, <1>6, <2>11 DEF NoTrace
    <3>2. \A k \in Clients : Range(publishing'[k]) \subseteq Range(publishing[k])
      <4>1. Range(<<>>) = {}
        BY DEF Range
      <4>. QED  BY <1>3, <2>3, <4>1
    <3> HIDE DEF n
    <3>3. \A l \in Links : \A c \in Range(session'[l].events) : c.uuid = u => c.after # "in"
      BY <1>4, <2>11, <3>1 DEF NoTrace
    <3>. QED  BY <1>2, <1>4, <2>11, <3>2, <3>3, ZenonT(40) DEF NoTrace
  <2>12. FreshIsUnknown'
    BY <1>2, <2>11 DEF LogInv, FreshIsUnknown
  <2>13. ASSUME LogSize > 0, NEW m \in Providers, NEW u \in UUIDs,
                entries'[m][u].visibility # "in", LatestOf(m, u)' # NoCSN
         PROVE  DepartureKept(m, u)'
    <3> DEFINE c == LatestOf(m, u)
    <3>1. LatestOf(m, u)' = c
      BY <1>2 DEF LatestOf
    <3>2. c \in Nat /\ SIDOf(c) \in SIDs
      BY <2>13, <3>1, LatestTyped DEF LogInv
    <3>3. DepartureKept(m, u)
      BY <1>2, <2>13, <3>1 DEF LogInv, DeparturesKept
    <3>4. AddedOutside(m, u) => AddedOutside(m, u)'
      BY <1>2, <2>11 DEF AddedOutside
    <3>5. CASE m # n
      <4>1. log'[m] = log[m]
        BY <1>3, <3>5
      <4>2. \A k \in Clients : Home[k] = m => publishing'[k] = publishing[k]
        BY <1>3, <2>1, <3>5
      <4>. QED  BY <3>1, <3>3, <3>4, <4>1, <4>2 DEF DepartureKept
    <3>6. CASE m = n
      <4> HIDE DEF c
      <4>1. \/ c <= h.base[SIDOf(c)]
            \/ \E x \in Range(h.changes) : x.uuid = u /\ x.csn = c
            \/ AddedOutside(m, u)'
        <5>1. CASE c <= g.base[SIDOf(c)]
          <6>1. h.base[SIDOf(c)] \in Nat
            BY <2>1, <3>2 DEF PersistInv, TypeInv, LogsOK, SessionLogs, CSNState
          <6>. QED  BY <2>5, <2>8, <2>13, <3>2, <5>1, <6>1
        <5>2. CASE \E x \in Range(g.changes) : x.uuid = u /\ x.csn = c
          BY <2>8, <2>13, <3>2, <5>2
        <5>3. CASE \E k \in Clients :
                     /\ Home[k] = n /\ publishing[k] # <<>> /\ ~IsAdd(publishing[k][1])
                     /\ publishing[k][1].uuid = u /\ publishing[k][1].csn = c
          <6>1. ~IsAdd(change) /\ change.uuid = u /\ change.csn = c
            BY <1>1, <2>4, <5>3
          <6>. QED  BY <2>8, <2>13, <3>2, <6>1
        <5>4. CASE AddedOutside(m, u)
          BY <3>4, <5>4
        <5>. QED  BY <3>3, <3>6, <5>1, <5>2, <5>3, <5>4 DEF DepartureKept, c
      <4>. QED  BY <3>1, <3>6, <4>1 DEF DepartureKept
    <3>. QED  BY <3>5, <3>6
  <2>14. DeparturesKept'
    BY <2>13 DEF DeparturesKept
  <2>. QED  BY <2>9, <2>10, <2>12, <2>14 DEF LogInv
<1>. QED  BY <1>5, <1>6

\* A restart: the new log starts at a context that covers every departure.
LEMMA RestartLog ==
    ASSUME LogInv, PersistInv', NEW n \in Nodes, Restart(n)
    PROVE  LogInv'
<1>1. /\ session' = [l \in Links |-> IF n \in {l[1], l[2]} THEN Closed(session[l].mode) ELSE session[l]]
      /\ publishing' = [a \in Clients \cup Links |-> IF NodeOf(a) = n THEN <<>> ELSE publishing[a]]
      /\ log' = [log EXCEPT ![n] = IF n \in Providers THEN EmptyLog(ContextCSNs(n)) ELSE log[n]]
      /\ UNCHANGED <<entries, context, tombstones, clock>>
  BY DEF Restart, stored
<1>2. \A p \in Providers : IF p = n THEN /\ log'[p].base = ContextCSNs(p) /\ log'[p].latest = ContextCSNs(p)
                           ELSE log'[p] = log[p]
  BY <1>1, Topology DEF LogInv, PersistInv, TypeInv, LogsOK, EmptyLog
<1>3. \A k \in Clients : publishing'[k] = IF Home[k] = n THEN <<>> ELSE publishing[k]
  BY <1>1 DEF NodeOf
<1>4. \A l \in Links :
        \/ session'[l].phase = "idle" /\ session'[l].events = <<>> /\ session'[l].stream = <<>>
        \/ session'[l] = session[l]
  BY <1>1 DEF Closed
<1>5. Range(<<>>) = {}
  BY DEF Range
<1>6. BehindTheClock'
  <2>1. ASSUME NEW p \in Providers
        PROVE  /\ \A s \in SIDs : context'[p][s] < Ceiling(p)' /\ log'[p].latest[s] < Ceiling(p)'
               /\ \A v \in UUIDs : entries'[p][v].csn < Ceiling(p)'
    <3>1. /\ \A s \in SIDs : context[p][s] < Ceiling(p) /\ log[p].latest[s] < Ceiling(p)
          /\ \A v \in UUIDs : entries[p][v].csn < Ceiling(p)
      BY DEF LogInv, BehindTheClock
    <3>2. Ceiling(p)' = Ceiling(p)
      BY <1>1 DEF Ceiling
    <3>3. p \in Nodes /\ entries[p] \in [UUIDs -> Entries] /\ context[p] \in CSNState
      BY Topology DEF LogInv, PersistInv, TypeInv, StoredOK
    <3>4. \A s \in SIDs : ContextCSNs(p)[s] < Ceiling(p)
      <4> DEFINE b == Ceiling(p)
      <4>1. (\A s \in SIDs : context[p][s] < b) /\ \A v \in UUIDs : entries[p][v].csn < b
        BY <3>1
      <4> HIDE DEF b
      <4>2. \A s \in SIDs : ContextCSNs(p)[s] < b
        BY <3>3, <4>1, ContextBelow
      <4>. QED  BY <4>2 DEF b
    <3>. QED  BY <1>1, <1>2, <3>1, <3>2, <3>4
  <2>. QED  BY <2>1 DEF BehindTheClock
<1>7. NewestUnpublished'
  <2>1. ASSUME NEW k \in Clients, Home[k] # n
        PROVE  publishing'[k] = publishing[k] /\ log'[Home[k]] = log[Home[k]] /\ Ceiling(Home[k])' = Ceiling(Home[k])
    BY <1>1, <1>2, <1>3, <2>1, Topology DEF Ceiling
  <2>2. \A k \in Clients : Home[k] = n => publishing'[k] = <<>>
    BY <1>3
  <2>. QED  BY <2>1, <2>2 DEF LogInv, NewestUnpublished
<1>8. ASSUME NEW u \in UUIDs, NoTrace(u) PROVE NoTrace(u)'
  <2>1. \A k \in Clients : Range(publishing'[k]) \subseteq Range(publishing[k])
    BY <1>3, <1>5
  <2>2. \A l \in Links :
          /\ session'[l].phase = "reading" => session'[l] = session[l]
          /\ Range(session'[l].events) \subseteq Range(session[l].events)
          /\ Range(session'[l].stream) \subseteq Range(session[l].stream)
    BY <1>4, <1>5
  <2>. QED  BY <1>1, <1>8, <2>1, <2>2, ZenonT(40) DEF NoTrace
<1>9. FreshIsUnknown'
  BY <1>1, <1>8 DEF LogInv, FreshIsUnknown
<1>10. ASSUME LogSize > 0, NEW m \in Providers, NEW u \in UUIDs,
              entries'[m][u].visibility # "in", LatestOf(m, u)' # NoCSN
       PROVE  DepartureKept(m, u)'
  <2>1. LatestOf(m, u)' = LatestOf(m, u)
    BY <1>1 DEF LatestOf
  <2>2. CASE m = n
    <3>1. LatestOf(m, u) <= ContextCSNs(m)[SIDOf(LatestOf(m, u))]
      BY <1>10, <2>1, ContextCoversLatest DEF LogInv
    <3>. QED  BY <1>2, <2>1, <2>2, <3>1 DEF DepartureKept
  <2>3. CASE m # n
    <3>1. DepartureKept(m, u)
      BY <1>1, <1>10, <2>1 DEF LogInv, DeparturesKept
    <3>2. AddedOutside(m, u) => AddedOutside(m, u)'
      BY <1>1, <1>8 DEF AddedOutside
    <3>3. log'[m] = log[m] /\ \A k \in Clients : Home[k] = m => publishing'[k] = publishing[k]
      BY <1>2, <1>3, <2>3
    <3>. QED  BY <2>1, <3>1, <3>2, <3>3 DEF DepartureKept
  <2>. QED  BY <2>2, <2>3
<1>11. DeparturesKept'
  BY <1>10 DEF DeparturesKept
<1>. QED  BY <1>6, <1>7, <1>9, <1>11 DEF LogInv

\* The consumer's worker stores an entry only if a response sends it.
LEMMA WorkerLog ==
    ASSUME NoRelays, LogInv, PersistInv', NEW l \in Links, Worker(l)
    PROVE  LogInv'
<1> DEFINE m == Head(session[l].stream)
           n == l[2]
           old == session[l]
           noted == [old EXCEPT !.seen = old.seen \cup m.uuids]
           closing == [Closed(old.mode) EXCEPT !.stream = old.stream]
<1>1. /\ old \in Sessions /\ n \notin Providers /\ n \in Nodes /\ old.stream \in Seq(Responses)
      /\ session = [x \in Links |-> session[x]]
      /\ entries \in [Nodes -> [UUIDs -> Entries]]
  <2>1. TypeInv
    BY DEF LogInv, PersistInv
  <2>2. n \notin Providers /\ n \in Nodes
    BY Topology DEF NoRelays
  <2>3. old \in Sessions /\ old.stream \in Seq(Responses) /\ session = [x \in Links |-> session[x]]
    BY <2>1, SessionRead
  <2>. QED  BY <2>1, <2>2, <2>3 DEF TypeInv, StoredOK
<1>2. CASE SearchFailed(l)
  BY <1>2, SearchLog
<1>3. CASE ~SearchFailed(l)
  <2>1. publishing[l] = <<>> /\ old.stream # <<>>
    BY <1>3, Zenon DEF Worker, Reads, ApplyEntry, ApplyDelete, ApplyPresent, ApplyNewCookie, FinishRefresh
  <2>2. Range(old.stream) = {m} \cup Range(Tail(old.stream))
    <3> DEFINE q == old.stream
    <3>1. q \in Seq(Responses) /\ q # <<>>
      BY <1>1, <2>1
    <3> HIDE DEF q
    <3>2. Range(q) = {Head(q)} \cup Range(Tail(q))
      BY <3>1, RangeParts
    <3>. QED  BY <3>2 DEF q
  <2>3. \/ entries' = entries
        \/ \E u \in m.uuids : /\ m.kind = "entry"
                              /\ entries' = [entries EXCEPT ![n][u] = [visibility |-> "in", csn |-> m.csn]]
        \/ \E gone : entries' = [entries EXCEPT ![n] = Without(entries[n], gone)]
    BY <1>3, Zenon DEF Worker, ApplyEntry, ApplyDelete, ApplyPresent, ApplyNewCookie, FinishRefresh, Reads
  <2>4. \E ck, recorded, contextOnly, worker :
           /\ Finish(l, ck, recorded, contextOnly, worker)
           /\ worker \in {old, noted, closing}
    BY <1>3, Zenon DEF Worker, ApplyEntry, ApplyDelete, ApplyPresent, ApplyNewCookie, FinishRefresh
  <2>5. PICK ck, recorded, contextOnly, worker :
           /\ Finish(l, ck, recorded, contextOnly, worker)
           /\ worker \in {old, noted, closing}
    BY <2>4
  <2>6. /\ worker.phase = "idle" \/ (worker.phase = old.phase /\ worker.view = old.view)
        /\ worker.events \in {<<>>, old.events} /\ worker.stream = old.stream
        /\ DOMAIN worker = DOMAIN old
    <3> HIDE DEF m
    <3>1. /\ noted.phase = old.phase /\ noted.view = old.view /\ noted.events = old.events
          /\ noted.stream = old.stream /\ DOMAIN noted = DOMAIN old
      <4> DEFINE S == old.seen \cup m.uuids
      <4> HIDE DEF S, old
      <4>1. /\ [old EXCEPT !.seen = S].phase = old.phase /\ [old EXCEPT !.seen = S].view = old.view
            /\ [old EXCEPT !.seen = S].events = old.events /\ [old EXCEPT !.seen = S].stream = old.stream
            /\ DOMAIN [old EXCEPT !.seen = S] = DOMAIN old
        BY <1>1 DEF Sessions
      <4>. QED  BY <4>1 DEF S
    <3>2. /\ closing.phase = "idle" /\ closing.events = <<>> /\ closing.stream = old.stream
          /\ DOMAIN closing = DOMAIN old
      <4> HIDE DEF old
      <4>. QED  BY <1>1 DEF Closed, Sessions
    <3> HIDE DEF noted, closing, old
    <3>. QED  BY <2>5, <3>1, <3>2
  <2>7. session' = [session EXCEPT ![l] = [worker EXCEPT !.stream = Tail(worker.stream)]]
        /\ clock' = clock /\ log' = log
    BY <2>5 DEF Finish
  <2>8. publishing' = publishing
    <3>1. publishing' = [publishing EXCEPT ![l] = <<>>]
      BY <1>1, <2>5 DEF Finish
    <3>. QED  BY <2>1, <3>1 DEF LogInv, PersistInv, TypeInv
  <2> DEFINE rest == Tail(old.stream)
  <2>9. /\ \A x \in Links : x # l => session'[x] = session[x]
        /\ session'[l].phase = worker.phase /\ session'[l].view = worker.view
        /\ session'[l].events = worker.events /\ session'[l].stream = rest
    <3>1. session' = [session EXCEPT ![l] = [worker EXCEPT !.stream = rest]]
      BY <2>6, <2>7
    <3>2. DOMAIN worker = {"phase", "mode", "events", "overflow", "snapshot", "view", "live", "stream", "seen"}
      BY <1>1, <2>6 DEF Sessions
    <3> HIDE DEF rest
    <3>. QED  BY <1>1, <3>1, <3>2
  <2> HIDE DEF m, old, noted, closing, rest
  <2>10. \A p \in Providers : entries'[p] = entries[p] /\ tombstones'[p] = tombstones[p]
    <3>1. \A p \in Providers : p \in Nodes /\ p # n
      BY <1>1, Topology
    <3>2. (\E e : entries' = [entries EXCEPT ![n] = e]) \/ entries' = entries
      BY <1>3, Zenon DEF Worker, ApplyEntry, ApplyDelete, ApplyPresent, ApplyNewCookie, FinishRefresh
    <3>3. (\E t : tombstones' = [tombstones EXCEPT ![n] = t]) \/ tombstones' = tombstones
      BY <1>3, Zenon DEF Worker, ApplyEntry, ApplyDelete, ApplyPresent, ApplyNewCookie, FinishRefresh
    <3>. QED  BY <3>1, <3>2, <3>3 DEF LogInv, PersistInv, TypeInv, StoredOK
  <2>11. \A p \in Providers : SameProvider(p)
    <3>1. \A p \in Providers : p \in Nodes /\ p # n
      BY <1>1, Topology
    <3>2. \E c : context' = [context EXCEPT ![n] = c]
      BY <2>5 DEF Finish
    <3>3. \A p \in Providers : context'[p] = context[p]
      BY <3>1, <3>2 DEF LogInv, PersistInv, TypeInv, StoredOK
    <3>. QED  BY <2>7, <2>10, <3>3 DEF SameProvider
  <2>12. ASSUME NEW u \in UUIDs, NoTrace(u) PROVE NoTrace(u)'
    <3>1. m.kind = "entry" => u \notin m.uuids
      BY <2>2, <2>12 DEF NoTrace, old
    <3>2. ASSUME NEW x \in Links PROVE entries'[x[2]][u] = Absent
      <4>1. x[2] \in Nodes /\ entries[x[2]][u] = Absent
        BY <2>12, Topology DEF NoTrace
      <4>2. CASE entries' = entries
        BY <4>1, <4>2
      <4>3. CASE \E v \in m.uuids : /\ m.kind = "entry"
                                    /\ entries' = [entries EXCEPT ![n][v] = [visibility |-> "in", csn |-> m.csn]]
        BY <1>1, <3>1, <4>1, <4>3
      <4>4. CASE \E gone : entries' = [entries EXCEPT ![n] = Without(entries[n], gone)]
        BY <1>1, <4>1, <4>4 DEF Without
      <4>. QED  BY <2>3, <4>2, <4>3, <4>4
    <3>3. session'[l].phase = "reading" => session'[l].view[u].visibility # "in"
      BY <2>6, <2>9, <2>12 DEF NoTrace, old
    <3>4. Range(session'[l].events) \subseteq Range(session[l].events)
      <4>1. Range(<<>>) = {}
        BY DEF Range
      <4>. QED  BY <2>6, <2>9, <4>1 DEF old
    <3>5. \A r \in Range(session'[l].stream) : r \in Range(session[l].stream)
      BY <2>2, <2>9 DEF old, rest
    <3>6. TypeInv
      BY DEF LogInv, PersistInv
    <3>. QED  BY <2>8, <2>9, <2>10, <2>12, <3>2, <3>3, <3>4, <3>5, <3>6, TraceStep
  <2>. QED  BY <2>7, <2>8, <2>11, <2>12, QuietLog, SMTT(30)
<1>. QED  BY <1>2, <1>3

LEMMA NextLog ==
    ASSUME OneWriter, NoRelays, LogInv, [Next]_vars
    PROVE  LogInv'
<1>0. PersistInv'
  BY NextPersist DEF LogInv
<1>1. ASSUME NEW k \in Clients, Add(k) \/ Modify(k) \/ Delete(k) PROVE LogInv'
  <2>1. \A after \in Matching : after \in {"none", "in", "out"} /\ after # "none"
    BY BoundsAssumption
  <2>2. \E u \in UUIDs, after \in {"none", "in", "out"} :
           /\ CommitWrite(k, u, after)
           /\ (NewUUID(u) /\ after # "none") \/ entries[Home[k]][u] # Absent
    BY <1>1, <2>1, Zenon DEF Add, Modify, Delete
  <2>. QED  BY <1>0, <2>2, CommitLog
<1>2. CASE \E a \in Clients \cup Links : Publish(a)
  BY <1>0, <1>2, PublishLog
<1>3. ASSUME NEW l \in Links,
             Connect(l) \/ CaptureSnapshot(l) \/ Refresh(l) \/ PersistChange(l) \/ PersistOverflow(l)
      PROVE  LogInv'
  BY <1>0, <1>3, SearchLog, RefreshLog, ChangeLog
<1>4. ASSUME NEW l \in Links, Worker(l) PROVE LogInv'
  BY <1>0, <1>4, WorkerLog
<1>5. CASE \E l \in Links : Disconnect(l)
  BY <1>0, <1>5, SearchLog
<1>6. CASE \E n \in Nodes : Restart(n)
  BY <1>0, <1>6, RestartLog
<1>7. CASE UNCHANGED vars
  <2>1. UNCHANGED <<entries, context, tombstones, clock, log, publishing, session>>
    BY <1>7 DEF vars
  <2>2. \A n \in Providers : SameProvider(n) /\ log'[n] = log[n]
    BY <2>1 DEF SameProvider
  <2>3. \A u \in UUIDs : NoTrace(u) => NoTrace(u)'
    BY <2>1 DEF NoTrace
  <2>. QED  BY <1>0, <2>1, <2>2, <2>3, QuietLog
<1>. QED  BY <1>1, <1>2, <1>3, <1>4, <1>5, <1>6, <1>7 DEF Next

LEMMA LogInvImplies == LogInv => LogAnswersForItsWindow
<1> SUFFICES ASSUME LogInv, NEW n \in Providers, NEW u \in UUIDs, LogSize > 0,
                    entries[n][u].visibility # "in", LatestOf(n, u) # NoCSN,
                    log[n].base[SIDOf(LatestOf(n, u))] < LatestOf(n, u),
                    LatestOf(n, u) <= log[n].latest[SIDOf(LatestOf(n, u))]
             PROVE  \/ \E change \in Range(log[n].changes) : change.uuid = u /\ change.csn = LatestOf(n, u)
                    \/ \A l \in Links : l[1] = n => entries[l[2]][u] = Absent
  BY DEF LogAnswersForItsWindow, LatestOf
<1> DEFINE c == LatestOf(n, u)
<1>1. c \in Nat /\ SIDOf(c) \in SIDs
  BY LatestTyped DEF LogInv
<1>2. /\ \A s \in SIDs : log[n].base[s] \in Nat /\ log[n].latest[s] \in Nat
  BY Topology DEF LogInv, PersistInv, TypeInv, LogsOK, SessionLogs, CSNState
<1>3. DepartureKept(n, u)
  BY DEF LogInv, DeparturesKept
<1> HIDE DEF c
<1>4. ~(c <= log[n].base[SIDOf(c)])
  BY <1>1, <1>2 DEF c
<1>5. ASSUME NEW k \in Clients, Home[k] = n, publishing[k] # <<>>, publishing[k][1].csn = c
      PROVE  FALSE
  <2>1. log[n].latest[SIDOf(c)] < c
    BY <1>1, <1>5 DEF LogInv, NewestUnpublished
  <2>. QED  BY <1>1, <1>2, <2>1 DEF c
<1>6. AddedOutside(n, u) => \A l \in Links : entries[l[2]][u] = Absent
  BY DEF AddedOutside, NoTrace
<1>. QED  BY <1>3, <1>4, <1>5, <1>6, SMTT(30) DEF DepartureKept, c

\* hub.replay answers a refresh without a Present phase.  Where a server's
\* changes are published in the order of their CSNs and no consumer is a
\* provider itself, its log is right to do so, whatever its size and whatever
\* is lost or restarted: an entry that left after the log's base is in the log,
\* or no consumer ever had it.
THEOREM SessionLogAnswersForItsWindow ==
    NoRelays /\ OneWriter => (Spec => []LogAnswersForItsWindow)
<1> SUFFICES ASSUME NoRelays, OneWriter PROVE Spec => []LogAnswersForItsWindow
  OBVIOUS
<1>1. Init => LogInv
  BY InitLog
<1>2. LogInv /\ [Next]_vars => LogInv'
  BY NextLog
<1>3. Spec => []LogInv
  BY <1>1, <1>2, PTL DEF Spec
<1>. QED  BY <1>3, LogInvImplies, PTL

=============================================================================
