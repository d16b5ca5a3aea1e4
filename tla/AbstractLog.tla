----------------------------- MODULE AbstractLog -----------------------------
(***************************************************************************)
(* What openraft expects of a log storage (the RaftLogStorage trait): a    *)
(* log without gaps that only changes at its ends, and a vote that never   *)
(* goes back.  Nothing here crashes: what is in the log is in the log.     *)
(***************************************************************************)
EXTENDS Naturals

CONSTANTS
    MaxIndex,   \* bound on log indexes
    MaxTerm     \* bound on terms

VARIABLES
    base,     \* index of the last purged entry, 0 if there is none
    entries,  \* [base + 1 .. end -> term of the entry]
    ballot    \* the vote

abstractVars == <<base, entries, ballot>>

AbstractInit ==
    /\ base = 0
    /\ entries = [i \in 1 .. 0 |-> 0]
    /\ ballot = 0

\* Entries are added behind the last one.
Extend ==
    \E n \in base .. MaxIndex, t \in 1 .. MaxTerm :
        /\ DOMAIN entries \subseteq base + 1 .. n
        /\ entries' = [i \in base + 1 .. n |-> IF i \in DOMAIN entries THEN entries[i] ELSE t]
        /\ UNCHANGED <<base, ballot>>

\* A suffix goes.
Cut ==
    \E n \in base .. MaxIndex :
        /\ base + 1 .. n \subseteq DOMAIN entries
        /\ entries' = [i \in base + 1 .. n |-> entries[i]]
        /\ UNCHANGED <<base, ballot>>

\* A prefix goes, or all of it when a snapshot is ahead of the log.
Compact ==
    \E n \in base .. MaxIndex :
        /\ base' = n
        /\ entries' = [i \in {j \in DOMAIN entries : n < j} |-> entries[i]]
        /\ UNCHANGED ballot

Promise ==
    /\ ballot' \in ballot + 1 .. MaxTerm
    /\ UNCHANGED <<base, entries>>

AbstractNext == Extend \/ Cut \/ Compact \/ Promise

AbstractSpec == AbstractInit /\ [][AbstractNext]_abstractVars

=============================================================================
