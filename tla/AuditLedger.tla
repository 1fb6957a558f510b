----------------------------- MODULE AuditLedger -----------------------------
(* What the audit log promises to the rest of the Gate, with the files, the   *)
(* buffers and the crashes left out: a ledger that only ever grows, and side   *)
(* effects that are released only for records already in it.                   *)
EXTENDS Naturals, Sequences

VARIABLES
  ledger,    \* the hashes of the durable records, in chain order
  released   \* the hashes of the records whose side effect has run

vars == <<ledger, released>>

Init ==
  /\ ledger = <<>>
  /\ released = {}

\* Records become durable behind the ones that already are.
Seal ==
  /\ Len(ledger') > Len(ledger)
  /\ SubSeq(ledger', 1, Len(ledger)) = ledger
  /\ UNCHANGED released

\* The side effect of a durable record runs.
Release ==
  /\ \E i \in 1..Len(ledger) : released' = released \cup {ledger[i]}
  /\ UNCHANGED ledger

Next == Seal \/ Release

Spec == Init /\ [][Next]_vars
==============================================================================
