------------------------------ MODULE Durable ------------------------------
(* What the persistence manager promises its stores: a section of the file *)
(* only moves forward, never past what its store held, and a restarted     *)
(* process resumes from the file.  A version counts the changes a section  *)
(* has seen.                                                               *)
EXTENDS Naturals

CONSTANT Sections

VARIABLES mem, disk

Init == /\ disk \in [Sections -> Nat]
        /\ mem = disk

\* A store changes one of its sections.
Change(s) == /\ mem' = [mem EXCEPT ![s] = @ + 1]
             /\ UNCHANGED disk

\* The process ended; the next one starts from the file.
Restart == mem' = disk /\ UNCHANGED disk

\* The file is replaced; its sections may come from different moments.
Save == /\ \A s \in Sections : disk[s] <= disk'[s] /\ disk'[s] <= mem[s]
        /\ UNCHANGED mem

Next == (\E s \in Sections : Change(s)) \/ Save \/ Restart

Spec == Init /\ [][Next]_<<mem, disk>>
=============================================================================
