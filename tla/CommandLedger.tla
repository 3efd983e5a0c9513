--------------------------- MODULE CommandLedger ---------------------------
(***************************************************************************)
(* What the transactional outbox promises to the rest of the application,  *)
(* without dispatchers, claims, back-off or broker copies:                 *)
(*                                                                         *)
(*   - a command is handed to the broker only after the transaction that   *)
(*     wrote its row committed;                                            *)
(*   - the row says "published" only if the broker has the command, and    *)
(*     says so for good;                                                   *)
(*   - the command's effect happens only after it was handed over, and at  *)
(*     most once;                                                          *)
(*   - a command given up on ("parked") is not confirmed, and leaves that  *)
(*     state only when somebody releases it.                               *)
(*                                                                         *)
(* Outbox.tla implements this specification.                               *)
(***************************************************************************)
EXTENDS Naturals

CONSTANT Commands

VARIABLES
  recorded,   \* commands whose outbox row is committed
  sent,       \* commands the broker accepted at least once
  confirmed,  \* commands whose row is PUBLISHED
  parked,     \* commands that are FAILED with the automatic attempts used up
  applied     \* number of times the command's effect was written

ledgerVars == <<recorded, sent, confirmed, parked, applied>>

LedgerInit ==
  /\ recorded = {}
  /\ sent = {}
  /\ confirmed = {}
  /\ parked = {}
  /\ applied = [c \in Commands |-> 0]

Record(c) ==
  /\ c \notin recorded
  /\ recorded' = recorded \cup {c}
  /\ UNCHANGED <<sent, confirmed, parked, applied>>

Send(c) ==
  /\ c \in recorded \ sent
  /\ sent' = sent \cup {c}
  /\ UNCHANGED <<recorded, confirmed, parked, applied>>

Confirm(c) ==
  /\ c \in sent \ (confirmed \cup parked)
  /\ confirmed' = confirmed \cup {c}
  /\ UNCHANGED <<recorded, sent, parked, applied>>

Park(c) ==
  /\ c \in recorded \ (confirmed \cup parked)
  /\ parked' = parked \cup {c}
  /\ UNCHANGED <<recorded, sent, confirmed, applied>>

Release(c) ==
  /\ c \in parked
  /\ parked' = parked \ {c}
  /\ UNCHANGED <<recorded, sent, confirmed, applied>>

Apply(c) ==
  /\ c \in sent
  /\ applied[c] = 0
  /\ applied' = [applied EXCEPT ![c] = 1]
  /\ UNCHANGED <<recorded, sent, confirmed, parked>>

LedgerNext ==
  \E c \in Commands :
    Record(c) \/ Send(c) \/ Confirm(c) \/ Park(c) \/ Release(c) \/ Apply(c)

LedgerSpec == LedgerInit /\ [][LedgerNext]_ledgerVars
=============================================================================
