-------------------------- MODULE AppointmentLedger --------------------------
(***************************************************************************)
(* What the scheduler promises its users, with no transactions, locks or   *)
(* retries: a ledger of appointments in which capacity is claimed and the  *)
(* lifecycle advanced one atomic operation at a time.                      *)
(***************************************************************************)
EXTENDS Naturals

CONSTANTS AppointmentIDs, Technicians, Bays, Null

VARIABLE ledger   \* [AppointmentIDs -> entry or Null]

InService == {"requested", "checked_in", "in_progress"}

\* Two entries compete for a technician or a bay at some instant.
Compete(a, b) ==
    /\ a.technician = b.technician \/ a.bay = b.bay
    /\ a.starts < b.ends
    /\ b.starts < a.ends

\* AppointmentStatus of the domain layer: forward one state at a time, and
\* out of every active state to cancelled.
Follows(from, to) ==
    \/ from = "requested" /\ to = "checked_in"
    \/ from = "checked_in" /\ to = "in_progress"
    \/ from = "in_progress" /\ to = "completed"
    \/ from \in InService /\ to = "cancelled"

LedgerInit == ledger = [id \in AppointmentIDs |-> Null]

Book(id, t, b, from, to) ==
    LET entry == [technician |-> t, bay |-> b, starts |-> from, ends |-> to,
                  status |-> "requested"]
    IN  /\ ledger[id] = Null
        /\ \A o \in AppointmentIDs :
             (ledger[o] # Null /\ ledger[o].status \in InService)
                => ~ Compete(ledger[o], entry)
        /\ ledger' = [ledger EXCEPT ![id] = entry]

Advance(id, to) ==
    /\ ledger[id] # Null
    /\ Follows(ledger[id].status, to)
    /\ ledger' = [ledger EXCEPT ![id].status = to]

LedgerNext ==
    \E id \in AppointmentIDs :
       \/ \E t \in Technicians, b \in Bays :
            /\ ledger'[id] # Null
            /\ Book(id, t, b, ledger'[id].starts, ledger'[id].ends)
       \/ \E to \in {"checked_in", "in_progress", "completed", "cancelled"} :
            Advance(id, to)

LedgerSpec == LedgerInit /\ [][LedgerNext]_ledger
=============================================================================
