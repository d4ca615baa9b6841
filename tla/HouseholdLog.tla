---------------------------- MODULE HouseholdLog ----------------------------
(***************************************************************************)
(* What sync promises a household, without saying how: one shared log that *)
(* only grows, in which the operations of each device stand once and in    *)
(* the order it made them, and of which each device knows a prefix that    *)
(* only grows.  SyncEngine implements it with log = the relay's operations *)
(* and known = each device's stored last_seq.                              *)
(***************************************************************************)
EXTENDS Naturals, Sequences

CONSTANT Devices

VARIABLES
    log,    \* the operations shared so far
    known   \* known[d]: how far device d has taken in those of the others

Init ==
    /\ log = <<>>
    /\ known = [d \in Devices |-> 0]

\* Device d shares operations of its own, each newer than all it shared before.
Publish(d) ==
    /\ Len(log') > Len(log)
    /\ \A i \in 1..Len(log) : log'[i] = log[i]
    /\ \A i \in (Len(log) + 1)..Len(log') :
        /\ log'[i].dev = d
        /\ \A j \in 1..(i - 1) : log'[j].dev = d => log'[j].ts < log'[i].ts
    /\ UNCHANGED known

\* Device d takes in the log up to an operation of another device.
Learn(d) ==
    /\ \E n \in (known[d] + 1)..Len(log) :
        /\ log[n].dev # d
        /\ known' = [known EXCEPT ![d] = n]
    /\ UNCHANGED log

Next == \E d \in Devices : Publish(d) \/ Learn(d)

Spec == Init /\ [][Next]_<<log, known>>
=============================================================================
