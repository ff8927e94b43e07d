-------------------------- MODULE SyncReplication --------------------------
(***************************************************************************)
(* Replication of one database between servers: clients write at a         *)
(* provider (write.go, sync_state.go), the provider's RFC 4533 search      *)
(* refreshes a consumer and then streams changes to it (sync_search.go),   *)
(* and the consumer's worker applies what it receives and keeps its cookie *)
(* in the same transaction (syncrepl_consumer.go).  A consumer that is a   *)
(* provider too republishes what it applied.                               *)
(*                                                                         *)
(* Every committed write has a CSN of its own, so a version of an entry is *)
(* its entryCSN.  Every UUID keeps its DN, and the search base is never    *)
(* deleted or renamed.  olcSpNoPresent is off; the consumer sends the      *)
(* reload hint, so olcSpReloadHint changes nothing for it.                 *)
(***************************************************************************)
EXTENDS SyncSessionLog

CONSTANTS
    Nodes,
    Links,          \* pairs <<provider, consumer>>, one per olcSyncrepl value
    Providers,      \* the nodes whose database has the syncprov overlay
    ServerID,       \* [Nodes -> SIDs], olcServerID
    Clients,        \* connections that write
    Home,           \* [Clients -> Nodes], the server a client writes at
    UUIDs,          \* entries, numbered in the order of their DNs
    Loaded,         \* the entries that the providers start with (offline import)
    Matching,       \* what a write can leave of an entry: a subset of {"in", "out"}
    Modes,          \* a subset of {"refreshOnly", "refreshAndPersist"}
    ChannelSize,    \* syncChangeBufferSize
    MaxStream,      \* responses in flight before a write blocks
    MaxTime,        \* bound on the CSNs of a node
    MaxFaults       \* bound on lost connections and restarts

ASSUME TopologyAssumption ==
    /\ Links \subseteq Nodes \X Nodes /\ \A l \in Links : l[1] \in Providers
    /\ Providers \subseteq Nodes /\ ServerID \in [Nodes -> SIDs] /\ Home \in [Clients -> Providers]
ASSUME BoundsAssumption ==
    /\ UUIDs \subseteq Nat \ {NoUUID} /\ IsFiniteSet(UUIDs) /\ Loaded \in SUBSET UUIDs
    /\ Matching \subseteq {"in", "out"} /\ Cardinality(Loaded) <= MaxTime
    /\ Modes \subseteq {"refreshOnly", "refreshAndPersist"}
    /\ {ChannelSize, MaxStream, MaxTime, MaxFaults} \subseteq Nat

VARIABLES
    entries,     \* stored entries: visibility and entryCSN
    context,     \* stored contextCSN vector
    tombstones,  \* stored deletion CSN of a UUID
    cookie,      \* stored cookie of a consumer
    clock,       \* lastCSN of a server
    log,         \* the provider's session log, in memory
    publishing,  \* committed changes that their writer has yet to publish
    session,     \* a replication search and the worker that reads it
    faults       \* lost connections and restarts so far

vars == <<entries, context, tombstones, cookie, clock, log, publishing, session, faults>>
stored == <<entries, context, tombstones, cookie>>

Absent == [visibility |-> "none", csn |-> NoCSN]
Entries == {Absent} \cup [visibility : {"in", "out"}, csn : Nat \ {NoCSN}]
Change(u, before, after, csn) == [uuid |-> u, before |-> before, after |-> after, csn |-> csn]
Changes == [uuid : UUIDs, before : Visibility, after : Visibility, csn : Nat]
           \cup [uuid : {NoUUID}, before : {"none"}, after : {"none"}, csn : Nat]

(* What a search returns: an entry with its Sync State control, a set of   *)
(* UUIDs that left or that are still there, a new cookie, the end of the   *)
(* refresh phase, or a final result other than success.                    *)
Response(kind, uuids, csn, ck, deletes) ==
    [kind |-> kind, uuids |-> uuids, csn |-> csn, cookie |-> ck, refreshDeletes |-> deletes]
Responses == [kind : {"entry", "delete", "present", "newCookie", "refreshDone", "failed"},
              uuids : SUBSET UUIDs, csn : Nat, cookie : CSNState, refreshDeletes : BOOLEAN]

(* No connection; the mode is the type of the olcSyncrepl value.           *)
Closed(mode) == [phase |-> "idle", mode |-> mode, events |-> <<>>, overflow |-> FALSE,
                 snapshot |-> NoState, view |-> <<>>, live |-> NoState, stream |-> <<>>, seen |-> {}]

(* The type of the state; channels and session logs keep to their sizes.   *)
TypeOK ==
    /\ entries \in [Nodes -> [UUIDs -> Entries]]
    /\ context \in [Nodes -> CSNState] /\ tombstones \in [Nodes -> [UUIDs -> Nat]]
    /\ cookie \in [Links -> CSNState] /\ clock \in [Nodes -> 0..MaxTime]
    /\ log \in [Nodes -> [base : CSNState, latest : CSNState, changes : Seq(Changes)]]
    /\ publishing \in [Clients \cup Links -> Seq(Changes)]
    /\ session \in [Links -> [phase : {"idle", "subscribed", "reading", "persist", "ended"}, mode : Modes,
                              events : Seq(Changes), overflow : BOOLEAN, snapshot : CSNState,
                              view : [UUIDs -> Entries] \cup {<<>>},
                              live : CSNState, stream : Seq(Responses), seen : SUBSET UUIDs]]
    /\ \A n \in Nodes : Len(log[n].changes) <= LogSize
    /\ \A l \in Links : Len(session[l].events) <= ChannelSize
    /\ faults \in 0..MaxFaults

(* The same import at every provider, one CSN per entry, in the order of   *)
(* the DNs, with its contextCSN.                                           *)
LoadedCSN(u) == CSN(Cardinality({v \in Loaded : v <= u}), Min(SIDs))
LoadedContext == [NoState EXCEPT ![Min(SIDs)] = Max({NoCSN} \cup {LoadedCSN(u) : u \in Loaded})]

Init ==
    /\ entries = [n \in Nodes |-> [u \in UUIDs |->
          IF n \in Providers /\ u \in Loaded THEN [visibility |-> "in", csn |-> LoadedCSN(u)] ELSE Absent]]
    /\ context = [n \in Nodes |-> IF n \in Providers THEN LoadedContext ELSE NoState]
    /\ tombstones = [n \in Nodes |-> [u \in UUIDs |-> NoCSN]]
    /\ cookie = [l \in Links |-> NoState]
    /\ clock = [n \in Nodes |-> IF n \in Providers THEN Cardinality(Loaded) ELSE 0]
    /\ log = [n \in Nodes |-> EmptyLog(IF n \in Providers THEN LoadedContext ELSE NoState)]
    /\ publishing = [a \in Clients \cup Links |-> <<>>]
    /\ session \in [Links -> {Closed(mode) : mode \in Modes}]
    /\ faults = 0

-----------------------------------------------------------------------------
(* recordSyncChangeCSN, in the transaction of the write.                   *)

(* updateSyncChangeTombstones                                              *)
Entombed(tombs, u, after, csn) ==
    [tombs EXCEPT ![u] = IF after = "none"
                         THEN (IF csn > @ THEN csn ELSE @)
                         ELSE (IF csn > @ THEN NoCSN ELSE @)]

(* syncContextCSNs: the stored vector and the CSNs of the entries.         *)
ContextCSNs(n) ==
    [s \in SIDs |-> Max({context[n][s]} \cup
        {entries[n][u].csn : u \in {v \in UUIDs : entries[n][v].csn # NoCSN /\ SIDOf(entries[n][v].csn) = s}})]

(* A client's write: entry, tombstone, contextCSN and CSN clock in one     *)
(* transaction; the change is published after the commit.                  *)
CommitWrite(k, u, after) ==
    LET n == Home[k]
        csn == CSN(clock[n] + 1, ServerID[n])
        before == entries[n][u].visibility
    IN  /\ publishing[k] = <<>>
        /\ clock[n] < MaxTime
        /\ clock' = [clock EXCEPT ![n] = @ + 1]
        /\ entries' = [entries EXCEPT ![n][u] =
              IF after = "none" THEN Absent ELSE [visibility |-> after, csn |-> csn]]
        /\ tombstones' = [tombstones EXCEPT ![n] = Entombed(@, u, after, csn)]
        /\ context' = [context EXCEPT ![n] = Advance(@, csn)]
        /\ publishing' = [publishing EXCEPT ![k] = <<Change(u, before, after, csn)>>]
        /\ UNCHANGED <<cookie, log, session, faults>>

(* An added entry gets a UUID that no server has seen.                     *)
NewUUID(u) == \A n \in Nodes : entries[n][u] = Absent /\ tombstones[n][u] = NoCSN

Add(k) == \E u \in UUIDs, after \in Matching : NewUUID(u) /\ CommitWrite(k, u, after)

(* Modify, and ModDN, which keeps the UUID and may leave the search.       *)
Modify(k) == \E u \in UUIDs, after \in Matching :
    entries[Home[k]][u] # Absent /\ CommitWrite(k, u, after)

Delete(k) == \E u \in UUIDs : entries[Home[k]][u] # Absent /\ CommitWrite(k, u, "none")

-----------------------------------------------------------------------------
(* syncChangeHub.publish                                                   *)

Subscribed(l) ==
    /\ session[l].phase \in {"subscribed", "reading", "persist"}
    /\ session[l].mode = "refreshAndPersist"
    /\ ~session[l].overflow

Offer_Unbounded(s, change) == [s EXCEPT !.events = Append(@, change)]
Offer_Drops(s, change) == IF Len(s.events) < ChannelSize THEN [s EXCEPT !.events = Append(@, change)] ELSE s

(* A full channel is closed and its subscription dropped.                  *)
Offer(s, change) ==
    IF Len(s.events) < ChannelSize
    THEN [s EXCEPT !.events = Append(@, change)]
    ELSE [s EXCEPT !.overflow = TRUE]

NodeOf(a) == IF a \in Clients THEN Home[a] ELSE a[2]

Publish(a) ==
    LET n == NodeOf(a)
        change == Head(publishing[a])
    IN  /\ publishing[a] # <<>>
        /\ publishing' = [publishing EXCEPT ![a] = Tail(@)]
        /\ log' = [log EXCEPT ![n] = IF LogSize > 0 THEN LogAppend(@, change) ELSE @]
        /\ session' = [l \in Links |->
              IF l[1] = n /\ Subscribed(l) THEN Offer(session[l], change) ELSE session[l]]
        /\ UNCHANGED <<stored, clock, faults>>

-----------------------------------------------------------------------------
(* The provider's search.                                                  *)

(* prepareSyncSearch: the subscription comes before the snapshot.          *)
Connect(l) ==
    /\ session[l].phase = "idle" /\ publishing[l] = <<>>
    /\ session' = [session EXCEPT ![l].phase = "subscribed"]
    /\ UNCHANGED <<stored, clock, log, publishing, faults>>

(* snapshotFailure: a consumer with state that the provider lacks.         *)
SnapshotFailure(ck, snapshot) ==
    /\ ck # NoState
    /\ \/ snapshot = NoState
       \/ \E s \in SIDs \cap {0} : snapshot[s] # NoCSN /\ ck[s] > snapshot[s]

(* ... and a cookie that does not know the same servers is not used.       *)
ComparableCookie(ck, snapshot) == IF Known(snapshot) \subseteq Known(ck) THEN
    [s \in SIDs |-> IF snapshot[s] = NoCSN THEN NoCSN ELSE ck[s]] ELSE NoState

(* syncCookieStateExists                                                   *)
CookieStateExists(view, ck) ==
    \E u \in UUIDs : view[u] # Absent /\ view[u].csn <= Min({ck[s] : s \in Known(ck)})

(* entryChanged                                                            *)
EntryChanged(ck, csn) == csn > ck[SIDOf(csn)]

(* A set of numbers in ascending order.                                    *)
Sorted(S) == CHOOSE seq \in [1..Cardinality(S) -> S] :
    \A i, j \in 1..Cardinality(S) : i < j => seq[i] < seq[j]

(* writeSyncSearch: UUIDs that did not change, entries that did, UUIDs     *)
(* that left, by CSN, each set with the cookie up to it, then the cookie   *)
(* of the snapshot.                                                        *)
RefreshResponses(view, ck, snapshot, replay, refreshDeletes) ==
    LET current == {u \in UUIDs : view[u].visibility = "in"}
        changed == {u \in current : EntryChanged(ck, view[u].csn)}
        left == {u \in UUIDs \ current : LeftAt(replay, u) # NoCSN}
        at == Sorted({LeftAt(replay, u) : u \in left})
        upTo(i) == [s \in SIDs |->
                      Max({ck[s]} \cup {at[j] : j \in {k \in 1..i : SIDOf(at[k]) = s}})]
        present == current \ changed
    IN  (IF refreshDeletes \/ present = {} THEN <<>>
         ELSE <<Response("present", present, NoCSN, NoState, FALSE)>>)
        \o [i \in 1..Cardinality(changed) |->
              LET u == Sorted(changed)[i]
              IN  Response("entry", {u}, view[u].csn, NoState, FALSE)]
        \o [i \in 1..Len(at) |->
              Response("delete", {u \in left : LeftAt(replay, u) = at[i]}, at[i], upTo(i), FALSE)]
        \o <<Response("refreshDone", {}, NoCSN, snapshot, refreshDeletes)>>

Failed == Response("failed", {}, NoCSN, NoState, FALSE)

(* captureSnapshot opens the read transaction.                             *)
CaptureSnapshot(l) ==
    /\ session[l].phase = "subscribed"
    /\ session' = [session EXCEPT ![l].phase = "reading", ![l].view = entries[l[1]],
                                  ![l].snapshot = ContextCSNs(l[1])]
    /\ UNCHANGED <<stored, clock, log, publishing, faults>>

(* prepareSyncRefresh, the search in that transaction and writeSyncSearch: *)
(* the session log if it can answer, else the Present phase, else          *)
(* everything.  Changes are published meanwhile.                           *)
Refresh(l) ==
    LET s == session[l]
        known == ComparableCookie(cookie[l], s.snapshot)
        replays == known # NoState /\ Usable(log[l[1]], known, s.snapshot)
        from == IF known # NoState /\ ~replays /\ ~CookieStateExists(s.view, known) THEN NoState ELSE known
        replay == IF replays THEN Replayed(log[l[1]], known, s.snapshot) ELSE {}
        failure == SnapshotFailure(cookie[l], s.snapshot)
    IN  /\ s.phase = "reading"
        /\ session' = [session EXCEPT
              ![l].phase = IF failure \/ s.mode = "refreshOnly" THEN "ended" ELSE "persist",
              ![l].view = <<>>,
              ![l].stream = IF failure THEN <<Failed>>
                            ELSE RefreshResponses(s.view, from, s.snapshot, replay, replays)]
        /\ UNCHANGED <<stored, clock, log, publishing, faults>>

(* syncChangeResponse                                                      *)
ChangeResponse(change, snapshot) ==
    LET own == Advance(NoState, change.csn)
    IN  IF change.after = "in"
        THEN Response("entry", {change.uuid}, change.csn, own, FALSE)
        ELSE IF change.before = "in"
        THEN Response("delete", {change.uuid}, NoCSN, own, FALSE)
        ELSE Response("newCookie", {}, NoCSN, snapshot, FALSE)

(* persistSyncSearch skips what the refresh covered, but not a second      *)
(* change with the CSN of one that it streamed.                            *)
Skipped(s, change) ==
    LET sid == SIDOf(change.csn)
    IN  \/ change.csn < s.snapshot[sid]
        \/ change.csn = s.snapshot[sid] /\ change.csn # s.live[sid]

PersistChange(l) ==
    LET s == session[l]
        change == Head(s.events)
        sid == SIDOf(change.csn)
        snapshot == [s.snapshot EXCEPT ![sid] = change.csn]
    IN  /\ s.phase = "persist" /\ s.events # <<>> /\ Len(s.stream) < MaxStream
        /\ session' = [session EXCEPT ![l] =
              IF Skipped(s, change)
              THEN [s EXCEPT !.events = Tail(@)]
              ELSE [s EXCEPT !.events = Tail(@), !.snapshot = snapshot, !.live[sid] = change.csn,
                             !.stream = Append(@, ChangeResponse(change, snapshot))]]
        /\ UNCHANGED <<stored, clock, log, publishing, faults>>

(* The channel was closed: syncRefreshRequired.                            *)
PersistOverflow(l) ==
    /\ session[l].phase = "persist" /\ session[l].events = <<>> /\ session[l].overflow
    /\ session' = [session EXCEPT ![l].phase = "ended", ![l].stream = Append(@, Failed)]
    /\ UNCHANGED <<stored, clock, log, publishing, faults>>

-----------------------------------------------------------------------------
(* The consumer's worker: one response, one transaction.                   *)

(* syncConsumerCookieAdvances                                              *)
Advances(l, ck) == {ck[s] : s \in {s \in SIDs : ck[s] > cookie[l][s]}}

(* The rest of the transaction and the end of the response: cookie and     *)
(* contextCSN, the changes to republish, the worker's own state.           *)
Finish(l, ck, recorded, contextOnly, worker) ==
    LET n == l[2]
        merged == Merge(cookie[l], ck)
        changes == recorded \o [i \in 1..Len(contextOnly) |->
                      Change(NoUUID, "none", "none", contextOnly[i])]
    IN  /\ cookie' = [cookie EXCEPT ![l] = merged]
        /\ context' = [context EXCEPT ![n] =
              Merge(Merge(@, merged),
                    [s \in SIDs |-> IF n \notin Providers THEN NoCSN
                       ELSE Max({NoCSN} \cup {changes[i].csn : i \in
                                {j \in 1..Len(changes) : SIDOf(changes[j].csn) = s}})])]
        /\ publishing' = [publishing EXCEPT ![l] = IF n \in Providers THEN changes ELSE <<>>]
        /\ session' = [session EXCEPT ![l] = [worker EXCEPT !.stream = Tail(@)]]
        /\ UNCHANGED <<clock, log, faults>>

Reads(l, kind) ==
    /\ session[l].stream # <<>> /\ publishing[l] = <<>>
    /\ Head(session[l].stream).kind = kind

(* applySyncConsumerEntry: not newer than a tombstone or than the entry.   *)
Stale(n, u, csn) == csn <= tombstones[n][u] \/ (entries[n][u] # Absent /\ csn <= entries[n][u].csn)

ApplyEntry(l) ==
    LET m == Head(session[l].stream)
        n == l[2]
        worker == [session[l] EXCEPT !.seen = @ \cup m.uuids]
        advances == Advances(l, m.cookie)
    IN  /\ Reads(l, "entry")
        /\ \E u \in m.uuids :
              IF Stale(n, u, m.csn)
              THEN /\ UNCHANGED <<entries, tombstones>>
                   /\ Finish(l, m.cookie, <<>>, Sorted(advances), worker)
              ELSE /\ entries' = [entries EXCEPT ![n][u] = [visibility |-> "in", csn |-> m.csn]]
                   /\ tombstones' = [tombstones EXCEPT ![n] = Entombed(@, u, "in", m.csn)]
                   /\ Finish(l, m.cookie, <<Change(u, entries[n][u].visibility, "in", m.csn)>>,
                             Sorted(advances \ {m.csn}), worker)

(* The stored entries without those of gone.                               *)
Without(held, gone) == [u \in UUIDs |-> IF u \in gone THEN Absent ELSE held[u]]
Deletions(n, gone, csn) ==
    [i \in 1..Cardinality(gone) |->
        LET u == Sorted(gone)[i] IN Change(u, entries[n][u].visibility, "none", csn)]

(* deleteSyncConsumerUUIDs: the deletion's CSN is the delcsn of the cookie *)
(* or the newest CSN by which the cookie advances; a cookie that does not  *)
(* advance deletes nothing.                                                *)
DeletionCSN(l, m) ==
    IF m.csn # NoCSN THEN m.csn ELSE Max({NoCSN} \cup Advances(l, m.cookie))

ApplyDelete(l) ==
    LET m == Head(session[l].stream)
        n == l[2]
        csn == DeletionCSN(l, m)
        gone == {u \in m.uuids : entries[n][u] # Absent /\ entries[n][u].csn <= csn}
        visible == IF gone = {} THEN {} ELSE {csn}
    IN  /\ Reads(l, "delete")
        /\ IF csn = NoCSN
           THEN /\ UNCHANGED <<entries, tombstones>>
                /\ Finish(l, m.cookie, <<>>, <<>>, session[l])
           ELSE /\ entries' = [entries EXCEPT ![n] = Without(@, gone)]
                /\ tombstones' = [tombstones EXCEPT ![n] =
                      [u \in UUIDs |-> IF u \in m.uuids THEN Max({@[u], csn}) ELSE @[u]]]
                /\ Finish(l, m.cookie, Deletions(n, gone, csn),
                          Sorted(Advances(l, m.cookie) \ visible), session[l])

(* processSyncConsumerInfo: UUIDs of the Present phase, or a new cookie.   *)
ApplyPresent(l) ==
    LET m == Head(session[l].stream)
    IN  /\ Reads(l, "present")
        /\ Finish(l, m.cookie, <<>>, Sorted(Advances(l, m.cookie)), [session[l] EXCEPT !.seen = @ \cup m.uuids])
        /\ UNCHANGED <<entries, tombstones>>

ApplyNewCookie(l) ==
    LET m == Head(session[l].stream)
    IN  /\ Reads(l, "newCookie")
        /\ Finish(l, m.cookie, <<>>, Sorted(Advances(l, m.cookie)), session[l])
        /\ UNCHANGED <<entries, tombstones>>

(* finishSyncConsumerRefresh: after a Present phase, what was not seen and *)
(* is covered by the cookie is gone.                                       *)
Unseen(l, m) ==
    {u \in UUIDs \ session[l].seen :
        /\ entries[l[2]][u] # Absent
        /\ entries[l[2]][u].csn <= m.cookie[SIDOf(entries[l[2]][u].csn)]}

FinishRefresh(l) ==
    LET m == Head(session[l].stream)
        n == l[2]
        csn == Max({m.cookie[s] : s \in SIDs})
        gone == IF m.refreshDeletes THEN {} ELSE Unseen(l, m)
        visible == IF gone = {} THEN {} ELSE {csn}
        worker == IF session[l].mode = "refreshOnly"
                  THEN [Closed(session[l].mode) EXCEPT !.stream = session[l].stream]
                  ELSE session[l]
    IN  /\ Reads(l, "refreshDone")
        /\ entries' = [entries EXCEPT ![n] = Without(@, gone)]
        /\ tombstones' = [tombstones EXCEPT ![n] =
              [u \in UUIDs |-> IF u \in gone /\ n \in Providers THEN Max({@[u], csn}) ELSE @[u]]]
        /\ Finish(l, m.cookie, Deletions(n, gone, csn), Sorted(Advances(l, m.cookie) \ visible), worker)

(* A final result other than success ends the cycle.                       *)
SearchFailed(l) ==
    /\ Reads(l, "failed")
    /\ session' = [session EXCEPT ![l] = Closed(@.mode)]
    /\ UNCHANGED <<stored, clock, log, publishing, faults>>

-----------------------------------------------------------------------------
(* A lost connection or a timeout: both sides drop the search.             *)
Disconnect(l) ==
    /\ session[l].phase # "idle" /\ faults < MaxFaults
    /\ faults' = faults + 1
    /\ session' = [session EXCEPT ![l] = Closed(@.mode)]
    /\ UNCHANGED <<stored, clock, log, publishing>>

(* A server restarts: what was not stored is gone, changes that were       *)
(* committed and not published included.  seedCSNClock and hub.configure   *)
(* start from the stored contextCSN.                                       *)
Restart(n) ==
    /\ faults < MaxFaults
    /\ faults' = faults + 1
    /\ session' = [l \in Links |-> IF n \in {l[1], l[2]} THEN Closed(session[l].mode) ELSE session[l]]
    /\ publishing' = [a \in Clients \cup Links |-> IF NodeOf(a) = n THEN <<>> ELSE publishing[a]]
    /\ log' = [log EXCEPT ![n] = IF n \in Providers THEN EmptyLog(ContextCSNs(n)) ELSE @]
    /\ UNCHANGED <<stored, clock>>

Worker(l) ==
    \/ ApplyEntry(l) \/ ApplyDelete(l) \/ ApplyPresent(l) \/ ApplyNewCookie(l)
    \/ FinishRefresh(l) \/ SearchFailed(l)

Next ==
    \/ \E k \in Clients : Add(k) \/ Modify(k) \/ Delete(k)
    \/ \E a \in Clients \cup Links : Publish(a)
    \/ \E l \in Links : Connect(l) \/ CaptureSnapshot(l) \/ Refresh(l) \/ PersistChange(l) \/ PersistOverflow(l)
    \/ \E l \in Links : Worker(l)
    \/ \E l \in Links : Disconnect(l)
    \/ \E n \in Nodes : Restart(n)

Spec == Init /\ [][Next]_vars

(* Goroutines that can go on do; a worker connects again for ever.         *)
FairSpec ==
    /\ Spec
    /\ \A a \in Clients \cup Links : WF_vars(Publish(a))
    /\ \A l \in Links : /\ WF_vars(Connect(l)) /\ WF_vars(CaptureSnapshot(l)) /\ WF_vars(Refresh(l))
                        /\ WF_vars(PersistChange(l)) /\ WF_vars(PersistOverflow(l))
                        /\ WF_vars(Worker(l))

-----------------------------------------------------------------------------
(* A cookie means content: whatever of the provider's database the         *)
(* consumer's stored cookie covers, the consumer has.  An entry that the   *)
(* search returns is there in that version or a newer one, and an entry    *)
(* that left the search or was deleted is gone.  runSyncConsumerCycle      *)
(* resumes from this cookie, so a change it covers too early is never sent *)
(* again.                                                                  *)
CookieMeansContent ==
    \A l \in Links, u \in UUIDs :
        LET there == entries[l[1]][u]
            here == entries[l[2]][u]
            left == IF there = Absent THEN tombstones[l[1]][u] ELSE there.csn
        IN  /\ there.visibility = "in" /\ there.csn <= cookie[l][SIDOf(there.csn)]
               => here.csn >= there.csn
            /\ there.visibility # "in" /\ left # NoCSN /\ left <= cookie[l][SIDOf(left)]
               => here = Absent \/ here.csn > left

(* The session log answers for its window: an entry that was deleted or    *)
(* left the search after the log's base is among the logged changes once   *)
(* publication has reached its CSN.  hub.replay is trusted by              *)
(* prepareSyncRefresh to name every departure since the cookie; the        *)
(* Present phase is then left out.                                         *)
LogAnswersForItsWindow ==
    \A n \in Providers, u \in UUIDs :
        LET held == entries[n][u]
            left == IF held = Absent THEN tombstones[n][u] ELSE held.csn
            sid == SIDOf(left)
        IN  /\ LogSize > 0 /\ held.visibility # "in" /\ left # NoCSN
            /\ log[n].base[sid] < left /\ left <= log[n].latest[sid]
            => \/ \E change \in Range(log[n].changes) : change.uuid = u /\ change.csn = left
               \/ \A l \in Links : l[1] = n => entries[l[2]][u] = Absent

(* The persist phase misses nothing: unless its channel overflowed, every  *)
(* entry or deletion newer than what a persistent search has covered is in *)
(* its channel or with a writer that has yet to publish it                 *)
(* (persistSyncSearch subscribes before its snapshot and then relies on    *)
(* the channel alone).                                                     *)
PersistMissesNothing ==
    \A l \in Links, u \in UUIDs :
        LET n == l[1]
            s == session[l]
            last == IF entries[n][u] = Absent THEN tombstones[n][u] ELSE entries[n][u].csn
            unpublished == UNION {Range(publishing[a]) : a \in {b \in DOMAIN publishing : NodeOf(b) = n}}
        IN  s.phase = "persist" /\ ~s.overflow /\ last # NoCSN /\ last > s.snapshot[SIDOf(last)]
            => \E change \in Range(s.events) \cup unpublished : change.uuid = u /\ change.csn = last

(* The consumer converges: writes, lost connections and restarts being     *)
(* finite, the consumer ends up with exactly what the search returns at    *)
(* its provider, whichever mode it uses and however the refresh was        *)
(* answered (runSyncConsumer reconnects for ever).                         *)
Converges == <>[](\A l \in Links, u \in UUIDs :
    entries[l[2]][u] = IF entries[l[1]][u].visibility = "in" THEN entries[l[1]][u] ELSE Absent)

=============================================================================
