--------------------------- MODULE SyncSessionLog ---------------------------
(***************************************************************************)
(* CSNs, the per-server CSN vectors that cookies and contextCSN are made   *)
(* of, and the bounded session log that the sync provider keeps of its     *)
(* published changes (internal/server/sync_state.go).                      *)
(*                                                                         *)
(* openLDAPCSN orders by time, then by server ID.  A CSN is the number     *)
(* time * Radix + serverID, so < is compareOpenLDAPCSN; 0 is "no CSN".  A  *)
(* syncCSNState is a function on the server IDs with 0 for an absent one.  *)
(***************************************************************************)
EXTENDS Naturals, Sequences, FiniteSets, FiniteSetsExt, Functions

CONSTANTS
    SIDs,      \* the server IDs that occur in CSNs
    LogSize    \* olcSpSessionlog; 0 means that there is no log

ASSUME SIDsAssumption == SIDs # {} /\ SIDs \subseteq Nat /\ IsFiniteSet(SIDs)
ASSUME LogSizeAssumption == LogSize \in Nat

Radix == Max(SIDs) + 1
CSN(time, sid) == time * Radix + sid
SIDOf(csn) == csn % Radix
NoCSN == 0

CSNState == [SIDs -> Nat]
NoState == [s \in SIDs |-> NoCSN]
Covers(candidate, required) == \A s \in SIDs : candidate[s] >= required[s]
Merge(a, b) == [s \in SIDs |-> IF a[s] > b[s] THEN a[s] ELSE b[s]]
Advance(state, csn) ==
    IF csn = NoCSN THEN state
                   ELSE [state EXCEPT ![SIDOf(csn)] = IF csn > @ THEN csn ELSE @]
Known(state) == {s \in SIDs : state[s] # NoCSN}

-----------------------------------------------------------------------------
(* The visibility of an entry in the replication search: it does not       *)
(* exist, it exists outside the base, scope, filter or access of the       *)
(* search, or the search returns it.                                       *)
Visibility == {"none", "out", "in"}

(* A context-only change has no entry before and none after.               *)
NoUUID == 0
IsAdd(change) == change.before = "none" /\ change.after # "none"

EmptyLog(context) == [base |-> context, latest |-> context, changes |-> <<>>]

(* log.trim: the oldest change leaves the window and the base moves up.    *)
Trim_KeepsBase(log) ==
    IF Len(log.changes) > LogSize
    THEN [log EXCEPT !.changes = Tail(@)]
    ELSE log

Trim(log) ==
    IF Len(log.changes) > LogSize
    THEN [log EXCEPT !.base = Advance(@, Head(log.changes).csn), !.changes = Tail(@)]
    ELSE log

(* log.append: a change behind the latest one is ignored, an Add only moves *)
(* the latest CSN.                                                         *)
LogAppend(log, change) ==
    IF change.csn < log.latest[SIDOf(change.csn)]
    THEN log
    ELSE LET moved == [log EXCEPT !.latest[SIDOf(change.csn)] = change.csn]
         IN  IF IsAdd(change)
             THEN moved
             ELSE Trim([moved EXCEPT !.changes = Append(@, change)])

(* hub.replay: the log answers only for a cookie that covers its base and  *)
(* once publication has reached the storage snapshot.                      *)
Usable_AnySnapshot(log, cookie, snapshot) ==
    LogSize > 0 /\ Covers(cookie, log.base)

Usable(log, cookie, snapshot) ==
    /\ LogSize > 0
    /\ Covers(log.latest, snapshot)
    /\ Covers(cookie, log.base)

Replayed(log, cookie, snapshot) ==
    {change \in Range(log.changes) :
        /\ change.csn <= snapshot[SIDOf(change.csn)]
        /\ change.csn > cookie[SIDOf(change.csn)]}

(* prepareSyncRefresh: the CSN at which each UUID last left the search     *)
(* among the replayed changes, 0 for one that did not or that came back.   *)
LeftAt(replay, u) ==
    LET mine == {change \in replay :
                    change.uuid = u /\ "in" \in {change.before, change.after}}
        last == Max({change.csn : change \in mine})
    IN  IF mine = {} \/ \E change \in mine : change.csn = last /\ change.after = "in"
        THEN NoCSN ELSE last

=============================================================================
