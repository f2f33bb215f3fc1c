---------------------------- MODULE AccessControl ----------------------------
(***************************************************************************)
(* Registration, login, logout and the disabling of an account             *)
(* (app/main.py, app/storage.py) over several connections to one SQLite    *)
(* database, with the rate limit of failures and the audit events they     *)
(* and every other writer append.                                          *)
(*                                                                         *)
(* A handler reads outside any transaction until its first write, which    *)
(* takes the write lock of the database until the commit.  The rate        *)
(* limiter's calls are transactions of their own and read the time before  *)
(* they wait for the lock.                                                 *)
(*                                                                         *)
(* There is one account: handlers of different accounts meet only in the   *)
(* audit chain, and there a writer of another account is "other".          *)
(* Whether a password or a code is right is the client's choice; tokens,   *)
(* cookies, last_seen_at and retry_after are left out.                     *)
(***************************************************************************)
EXTENDS AuditChain, UnitSum

CONSTANTS
  Workers, Nobody,  \* connections; the write lock is free
  Sessions,         \* sessions that can be opened
  Actions,          \* rate-limited handlers in use: "login", "register"
  Limit,            \* auth_login_rate_limit
  Window,           \* auth_login_rate_window_seconds
  Legacy,           \* chains the database may hold before its migration
  MaxEvents,        \* no handler starts once there are so many events
  MaxClock          \* bound on time

ASSUME AccessAssumption ==
  /\ Nobody \notin Workers /\ Actions \subseteq {"login", "register"}
  /\ {Limit, Window} \subseteq Nat \ {0} /\ {MaxEvents, MaxClock} \subseteq Nat
  /\ Legacy \subseteq Seq(Event)

VARIABLES
  clock,
  version,   \* PRAGMA user_version
  account,   \* account_status
  sessions,  \* user_sessions
  slots,     \* rate_limit_events of each action: how many rows expire when
  events,    \* demo_audit_events
  lock,      \* the write lock
  work       \* what each connection is doing

data == <<clock, version, account, sessions, slots, events>>
vars == <<data, lock, work>>

Down == [step |-> "down"]
Idle == [step |-> "idle"]
LoggingOut == [action : {"logout", "forget"}, session : Sessions]
Changes == [action : Actions \cup {"disable", "other"}] \cup LoggingOut
Times == 0 .. MaxClock
Expiries == 0 .. MaxClock + Window
NoRows == [t \in Expiries |-> 0]

TypeOK ==
  /\ clock \in Times /\ version \in {0, 1}
  /\ account \in {"absent", "active", "disabled"}
  /\ sessions \in [Sessions -> {"none", "open", "expired", "revoked"}]
  /\ slots \in [Actions -> [Expiries -> Nat]]
  /\ events \in Seq(Event)
  /\ lock \in Workers \cup {Nobody}
  /\ work \in [Workers -> {Down, Idle}
       \cup [step : {"check"}, action : Actions, now : Times]
       \cup [step : {"try", "open", "clear"}, action : Actions]
       \cup [step : {"failed"}, action : Actions, note : BOOLEAN, now : Times]
       \cup [step : {"begin", "locked"}, change : Changes]
       \cup [step : {"append"}, change : Changes, tail : Nat]
       \cup [step : {"note"}]
       \cup [step : {"noting"}, tail : Nat]]

Init ==
  /\ clock = 0
  /\ version = 0 /\ events \in Legacy
  /\ account \in {"absent", "active"}
  /\ sessions = [s \in Sessions |-> "none"]
  /\ slots = [a \in Actions |-> NoRows]
  /\ lock = Nobody
  /\ work = [w \in Workers |-> Down]

Tick ==
  /\ clock < MaxClock /\ clock' = clock + 1
  /\ UNCHANGED <<version, account, sessions, slots, events, lock, work>>

-----------------------------------------------------------------------------
(* Definitions whose name ends in _slip are the next one with a plausible   *)
(* mistake; nothing uses them.                                              *)
Goes(w, state) == work' = [work EXCEPT ![w] = state]

LockFree_slip == TRUE

LockFree == lock = Nobody

(* init_db, when a process starts, in one transaction.  A chain it cannot   *)
(* migrate stops the start.                                                 *)
StartProcess(w) ==
  /\ work[w] = Down /\ LockFree
  /\ version = 0 => CanMigrate(events)
  /\ events' = IF version = 0 THEN Backfilled(events) ELSE events
  /\ version' = 1
  /\ Goes(w, Idle)
  /\ UNCHANGED <<clock, account, sessions, slots, lock>>

(* The process dies, or the request fails: what is not committed is undone. *)
Abandon(w) ==
  /\ work[w].step \notin {"down", "idle"}
  /\ \/ Goes(w, Down) \/ Goes(w, Idle)
  /\ lock' = IF lock = w THEN Nobody ELSE lock
  /\ UNCHANGED data

-----------------------------------------------------------------------------
(* The rate limiter, with the time it read.                                 *)
Active(rows, now) == Total([t \in {e \in Expiries : e > now} |-> rows[t]])
Purged(now) == [a \in Actions |-> [t \in Expiries |-> IF t > now THEN slots[a][t] ELSE 0]]

HasRoom_slip(a, now) == TRUE

HasRoom(a, now) == Active(slots[a], now) < Limit

Attempt(w, a) ==
  /\ work[w] = Idle /\ Len(events) < MaxEvents
  /\ Goes(w, [step |-> "check", action |-> a, now |-> clock])
  /\ UNCHANGED <<data, lock>>

check_rate_limit(w) ==
  LET now == work[w].now
      a   == work[w].action
  IN /\ work[w].step = "check" /\ LockFree
     /\ slots' = Purged(now)
     /\ Goes(w, IF Active(slots[a], now) < Limit THEN [step |-> "try", action |-> a] ELSE Idle)
     /\ UNCHANGED <<clock, version, account, sessions, events, lock>>

Failed(w, note) ==
  Goes(w, [step |-> "failed", action |-> work[w].action, note |-> note, now |-> clock])

(* The password or the code is tried.                                       *)
Refuse(w) ==
  /\ work[w].step = "try"
  /\ Failed(w, TRUE)
  /\ UNCHANGED <<data, lock>>

Accept(w) ==
  /\ work[w].step = "try"
  /\ \/ /\ work[w].action = "login" /\ account = "active"
        /\ Goes(w, [step |-> "open", action |-> "login"])
     \/ /\ work[w].action = "register"
        /\ Goes(w, [step |-> "begin", change |-> [action |-> "register"]])
  /\ UNCHANGED <<data, lock>>

(* create_user_session reads the account again before it inserts.           *)
OpenSession(w) ==
  /\ work[w].step = "open"
  /\ Goes(w, IF account = "active" THEN [step |-> "begin", change |-> [action |-> "login"]] ELSE Idle)
  /\ UNCHANGED <<data, lock>>

(* consume_rate_limit_slot, and the audit event of most failures after it.  *)
consume_rate_limit_slot(w) ==
  LET now == work[w].now
      a   == work[w].action
  IN /\ work[w].step = "failed" /\ LockFree
     /\ slots' = IF HasRoom(a, now)
                 THEN [Purged(now) EXCEPT ![a][now + Window] = @ + 1]
                 ELSE Purged(now)
     /\ Goes(w, IF work[w].note THEN [step |-> "note"] ELSE Idle)
     /\ UNCHANGED <<clock, version, account, sessions, events, lock>>

clear_rate_limit_bucket(w) ==
  /\ work[w].step = "clear" /\ LockFree
  /\ slots' = [Purged(clock) EXCEPT ![work[w].action] = NoRows]
  /\ Goes(w, Idle)
  /\ UNCHANGED <<clock, version, account, sessions, events, lock>>

-----------------------------------------------------------------------------
(* An event outside a transaction: the latest hash is read, and the insert  *)
(* opens the transaction afterwards.                                        *)
StartNote(w) ==
  /\ work[w] = Idle /\ Len(events) < MaxEvents
  /\ Goes(w, [step |-> "note"])
  /\ UNCHANGED <<data, lock>>

ReadForNote(w) ==
  /\ work[w].step = "note"
  /\ Goes(w, [step |-> "noting", tail |-> Latest(events)])
  /\ UNCHANGED <<data, lock>>

InsertNote(w) ==
  /\ work[w].step = "noting" /\ LockFree
  /\ events' = Added(events, work[w].tail, FALSE)
  /\ Goes(w, Idle)
  /\ UNCHANGED <<clock, version, account, sessions, slots, lock>>

-----------------------------------------------------------------------------
(* Handlers that write in a transaction of several statements.              *)
Resolves_slip(s) == sessions[s] = "open"

(* resolve_user_session.                                                    *)
Resolves(s) == sessions[s] = "open" /\ account = "active"

Expire(s) ==
  /\ sessions[s] = "open"
  /\ sessions' = [sessions EXCEPT ![s] = "expired"]
  /\ UNCHANGED <<clock, version, account, slots, events, lock, work>>

(* A session that does not resolve is revoked all the same, without events. *)
Logout(w, s) ==
  /\ work[w] = Idle /\ Len(events) < MaxEvents
  /\ sessions[s] # "none"
  /\ Goes(w, [step |-> "begin", change |->
               [action |-> IF Resolves(s) THEN "logout" ELSE "forget", session |-> s]])
  /\ UNCHANGED <<data, lock>>

(* disable_user_account, and any other writer: orders, wallet, settlement.  *)
StartWrite(w, action) ==
  /\ work[w] = Idle /\ Len(events) < MaxEvents
  /\ action = "disable" => account # "absent"
  /\ Goes(w, [step |-> "begin", change |-> [action |-> action]])
  /\ UNCHANGED <<data, lock>>

(* BEGIN IMMEDIATE, or the first statement that writes.                     *)
BeginWrite(w) ==
  /\ work[w].step = "begin" /\ LockFree
  /\ lock' = w
  /\ Goes(w, [step |-> "locked", change |-> work[w].change])
  /\ UNCHANGED data

ReadTail(w) ==
  /\ work[w].step = "locked"
  /\ Goes(w, [step |-> "append", change |-> work[w].change, tail |-> Latest(events)])
  /\ UNCHANGED <<data, lock>>

(* An account that exists is refused, and any with a weak password: rolled  *)
(* back and counted.                                                        *)
RefuseAccount(w) ==
  /\ work[w].step = "locked" /\ work[w].change.action = "register"
  /\ lock' = Nobody
  /\ Goes(w, [step |-> "failed", action |-> "register", note |-> FALSE, now |-> clock])
  /\ UNCHANGED data

OneEvent(w) == events' = Added(events, work[w].tail, TRUE)

CommitOpening(w, s) ==
  /\ work[w].change.action \in {"login", "register"}
  /\ work[w].change.action = "register" => account = "absent"
  /\ sessions[s] = "none"
  /\ account' = IF work[w].change.action = "register" THEN "active" ELSE account
  /\ sessions' = [sessions EXCEPT ![s] = "open"]
  /\ OneEvent(w)
  /\ Goes(w, [step |-> "clear", action |-> work[w].change.action])

CommitLogout(w) ==
  LET c == work[w].change
      first == Added(events, work[w].tail, TRUE)
  IN /\ c \in LoggingOut
     /\ sessions' = [sessions EXCEPT ![c.session] = "revoked"]
     /\ events' = IF c.action = "logout" THEN Added(first, Latest(first), TRUE) ELSE events
     /\ Goes(w, Idle)
     /\ UNCHANGED account

CommitDisable(w) ==
  /\ work[w].change.action = "disable"
  /\ account' = "disabled"
  /\ sessions' = [s \in Sessions |-> IF sessions[s] = "none" THEN "none" ELSE "revoked"]
  /\ OneEvent(w)
  /\ Goes(w, Idle)

CommitOther(w) ==
  /\ work[w].change.action = "other"
  /\ OneEvent(w)
  /\ Goes(w, Idle)
  /\ UNCHANGED <<account, sessions>>

Commit(w) ==
  /\ work[w].step = "append"
  /\ \/ \E s \in Sessions : CommitOpening(w, s)
     \/ CommitLogout(w) \/ CommitDisable(w) \/ CommitOther(w)
  /\ lock' = Nobody
  /\ UNCHANGED <<clock, version, slots>>

-----------------------------------------------------------------------------
Next ==
  \/ Tick
  \/ \E s \in Sessions : Expire(s)
  \/ \E w \in Workers :
       \/ StartProcess(w) \/ Abandon(w)
       \/ \E a \in Actions : Attempt(w, a)
       \/ check_rate_limit(w) \/ Refuse(w) \/ Accept(w) \/ OpenSession(w)
       \/ consume_rate_limit_slot(w) \/ clear_rate_limit_bucket(w)
       \/ StartNote(w) \/ ReadForNote(w) \/ InsertNote(w)
       \/ \E s \in Sessions : Logout(w, s)
       \/ StartWrite(w, "disable") \/ StartWrite(w, "other")
       \/ BeginWrite(w) \/ ReadTail(w) \/ RefuseAccount(w) \/ Commit(w)

Spec == Init /\ [][Next]_vars

-----------------------------------------------------------------------------
(* Properties.                                                             *)

(* Once a process serves, the chain is hashed throughout, and what breaks   *)
(* it first is an event that was appended outside a transaction, by a       *)
(* handler another connection overtook: no migration and no transaction     *)
(* ever forks it.                                                           *)
BreaksOnlyUnlocked ==
  version = 1 =>
    /\ \A k \in DOMAIN events : Hashed(events[k])
    /\ \A k \in DOMAIN events : FirstBroken(events, k) => ~events[k].locked

(* However many connections fail at the same time, and however long they    *)
(* waited for the lock with the time they read, an action has no more than  *)
(* its limit of counted failures in a window.                               *)
LimitHolds == \A a \in Actions : Active(slots[a], clock) <= Limit

(* An account that was disabled stays so, and none of its sessions works    *)
(* again: neither one from a login that was under way when the account's    *)
(* sessions were revoked, nor through a registration that raced the first.  *)
DisabledIsOut ==
  [][account = "disabled" => account' = "disabled" /\ \A s \in Sessions : ~Resolves(s)']_vars
=============================================================================
