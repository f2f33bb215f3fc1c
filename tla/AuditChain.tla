----------------------------- MODULE AuditChain -----------------------------
(***************************************************************************)
(* The hash chain of demo_audit_events (app/storage.py).                   *)
(*                                                                         *)
(* An event's hash covers its payload and the hash of the event it links   *)
(* to; it is represented by the event's number, which is what no two       *)
(* events share.  Link 0 is the empty hash a chain starts from.  Payloads  *)
(* are left out: nothing updates them.                                     *)
(***************************************************************************)
EXTENDS Integers, Sequences

Unhashed == -1    \* an event of the program before there were hashes

(* locked tells whether the event was read and written in one transaction.  *)
Event == [link : Nat \cup {Unhashed}, locked : BOOLEAN]

Hashed(e) == e.link # Unhashed

(* _latest_audit_event_hash.                                                *)
IsLatest(events, k) ==
  /\ k \in 0 .. Len(events)
  /\ k # 0 => Hashed(events[k])
  /\ \A j \in k + 1 .. Len(events) : ~Hashed(events[j])

Latest(events) == CHOOSE k \in 0 .. Len(events) : IsLatest(events, k)

(* verify_audit_chain expects each event to link to the last one it found   *)
(* valid.  Up to the first event that does not, that is the latest before   *)
(* it.                                                                      *)
Broken(events) ==
  {k \in DOMAIN events :
     Hashed(events[k]) /\ events[k].link # Latest(SubSeq(events, 1, k - 1))}

FirstBroken(events, k) == k \in Broken(events) /\ \A j \in Broken(events) : k <= j

verify_audit_chain(events) ==
  CASE events = <<>> -> "empty"
    [] Broken(events) # {} -> "broken"
    [] \E k \in DOMAIN events : ~Hashed(events[k]) -> "partial_legacy_rows"
    [] OTHER -> "verified"

(* insert_audit_event, with the latest hash it read.                        *)
Added(events, link, locked) == Append(events, [link |-> link, locked |-> locked])

-----------------------------------------------------------------------------
(* _backfill_fully_legacy_audit_chain: which chains it accepts, and what    *)
(* they become.  The _slip links every legacy event to the empty hash.      *)
FullyLegacy(events) == \A k \in DOMAIN events : ~Hashed(events[k])

CanMigrate(events) == FullyLegacy(events) \/ verify_audit_chain(events) = "verified"

Backfilled_slip(events) ==
  IF events = <<>> \/ ~FullyLegacy(events) THEN events
  ELSE [k \in 1 .. Len(events) + 1 |-> [link |-> 0, locked |-> TRUE]]

Backfilled(events) ==
  IF events = <<>> \/ ~FullyLegacy(events) THEN events
  ELSE [k \in 1 .. Len(events) + 1 |-> [link |-> k - 1, locked |-> TRUE]]
=============================================================================
