---------------------------- MODULE BarrierService ----------------------------
(***************************************************************************)
(* What the simulator promises the harts of a run, without turns, sleep or *)
(* traps: a hart goes on from a barrier only when every hart of its group  *)
(* has come to the same one, and a group of which no hart could go on does *)
(* not last.                                                               *)
(***************************************************************************)
EXTENDS Integers

CONSTANTS NumHarts, Addrs

VARIABLES
  rounds,   \* of each hart of the group: how many barriers, and the last one
  left      \* harts of the group that have finished

groupVars == <<rounds, left>>

Members == DOMAIN rounds
NoGroup == [h \in {} |-> [count |-> 0, site |-> 0]]

\* Every hart of the group has come as far as this one.
MayGoOn(h) ==
  /\ h \in Members \ left
  /\ \A g \in Members : rounds[g].count > rounds[h].count \/ rounds[g] = rounds[h]

SomeHartMayGoOn == \E h \in Members : MayGoOn(h)

Init == rounds = NoGroup /\ left = {}

Gather(n) ==
  /\ Members = {}
  /\ rounds' = [h \in 0 .. n - 1 |-> [count |-> 0, site |-> 0]]
  /\ left' = {}

Arrive(h, a) ==
  /\ MayGoOn(h)
  /\ rounds' = [rounds EXCEPT ![h] = [count |-> rounds[h].count + 1, site |-> a]]
  /\ UNCHANGED left
  /\ SomeHartMayGoOn'

Leave(h) ==
  /\ MayGoOn(h)
  /\ left' = left \cup {h}
  /\ UNCHANGED rounds
  /\ SomeHartMayGoOn'

Disperse ==
  /\ Members # {}
  /\ rounds' = NoGroup /\ left' = {}

Next ==
  \/ \E n \in 1 .. NumHarts : Gather(n)
  \/ \E h \in Members : Leave(h) \/ \E a \in Addrs : Arrive(h, a)
  \/ Disperse

Spec == Init /\ [][Next]_groupVars

=============================================================================
