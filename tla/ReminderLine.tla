---------------------------- MODULE ReminderLine ----------------------------
(***************************************************************************)
(* What the way of a reminder from the scheduler to the Slack sender       *)
(* promises (jobs/reminders, infra/kafka): the reminders of a partition    *)
(* stand in line and are handed to the sender one after the other, in the  *)
(* order in which they were published.  Stopping gives up at most the one  *)
(* that is being served.  A setback, a crash or a stop whose save fails,   *)
(* does too, and puts the line back to what was saved last, which is never *)
(* further than the one being served.                                      *)
(*                                                                         *)
(* Reminders are named by their place, <<partition, offset>>.  When they   *)
(* are due and whether the sender succeeds does not matter here.           *)
(***************************************************************************)
EXTENDS Naturals, Sequences

CONSTANT Partitions

VARIABLES
    length,     \* [Partitions -> how many reminders have been published]
    served,     \* [Partitions -> how many of them are done with]
    saved,      \* [Partitions -> where the line goes on after a setback]
    tries,      \* the reminders handed to the sender, in their order
    lost        \* the reminders given up when they were being served

vars == <<length, served, saved, tries, lost>>

Waiting == {p \in Partitions : served[p] < length[p]}

\* The reminder at the head of the line of partition p.
First(p) == <<p, served[p] + 1>>

Init ==
    /\ length = [p \in Partitions |-> 0]
    /\ served = [p \in Partitions |-> 0]
    /\ saved = [p \in Partitions |-> 0]
    /\ tries = <<>>
    /\ lost = {}

Publish(p) ==
    /\ length' = [length EXCEPT ![p] = @ + 1]
    /\ UNCHANGED <<served, saved, tries, lost>>

Serve(p) ==
    /\ p \in Waiting
    /\ served' = [served EXCEPT ![p] = @ + 1]
    /\ tries' = Append(tries, First(p))
    /\ UNCHANGED <<length, saved, lost>>

\* Nobody knows whether the sender had been called.
GiveUp(p) ==
    /\ p \in Waiting
    /\ lost' = lost \cup {First(p)}
    /\ tries' \in {tries, Append(tries, First(p))}

Interrupt(p) ==
    /\ GiveUp(p)
    /\ served' = [served EXCEPT ![p] = @ + 1]
    /\ UNCHANGED <<length, saved>>

\* current: the partition, if there is one, whose first reminder is being
\* served.
Save(current) ==
    /\ saved' = [p \in Partitions |->
                    IF p \in current THEN served[p] + 1 ELSE served[p]]
    /\ UNCHANGED <<length, served, tries, lost>>

Setback ==
    /\ served' = saved
    /\ \/ UNCHANGED <<tries, lost>>
       \/ \E p \in Partitions : GiveUp(p)
    /\ UNCHANGED <<length, saved>>

Next ==
    \/ \E p \in Partitions : Publish(p) \/ Serve(p) \/ Interrupt(p)
    \/ Save({}) \/ \E p \in Waiting : Save({p})
    \/ Setback

Spec == Init /\ [][Next]_vars
=============================================================================
