--------------------------- MODULE CompleteSetBank ---------------------------
(***************************************************************************)
(* What the v2 collateral ledger promises its participants: points enter   *)
(* once, at the treasury; only the treasury gives points away; and an      *)
(* account turns Scale points into one YES and one NO share and back.      *)
(* Nothing else changes what anybody owns.                                 *)
(***************************************************************************)
EXTENDS Naturals, FiniteSets

CONSTANTS Participants, Treasury, Markets, Point, Scale

Accounts == Participants \cup {Treasury}
Assets   == (Markets \X {"YES", "NO"}) \cup {Point}

VARIABLES issued, owned   \* points in existence, what each account owns

Init == issued = 0 /\ owned = [h \in Accounts \X Assets |-> 0]

Issue ==
  /\ issued = 0
  /\ issued' \in Nat \ {0}
  /\ owned' = [owned EXCEPT ![<<Treasury, Point>>] = issued']

Give(p) ==
  \E n \in 1 .. owned[<<Treasury, Point>>] :
    /\ owned' = [owned EXCEPT ![<<Treasury, Point>>] = @ - n, ![<<p, Point>>] = @ + n]
    /\ UNCHANGED issued

Split(a, m) ==
  \E q \in 1 .. owned[<<a, Point>>] :
    /\ q * Scale <= owned[<<a, Point>>]
    /\ owned' = [owned EXCEPT ![<<a, Point>>] = @ - q * Scale,
                              ![<<a, <<m, "YES">>>>] = @ + q, ![<<a, <<m, "NO">>>>] = @ + q]
    /\ UNCHANGED issued

Merge(a, m) ==
  \E q \in 1 .. owned[<<a, <<m, "YES">>>>] :
    /\ q <= owned[<<a, <<m, "NO">>>>]
    /\ owned' = [owned EXCEPT ![<<a, Point>>] = @ + q * Scale,
                              ![<<a, <<m, "YES">>>>] = @ - q, ![<<a, <<m, "NO">>>>] = @ - q]
    /\ UNCHANGED issued

Next ==
  \/ Issue
  \/ \E p \in Participants : Give(p)
  \/ \E a \in Accounts, m \in Markets : Split(a, m) \/ Merge(a, m)

Spec == Init /\ [][Next]_<<issued, owned>>
=============================================================================
