---------------------------- MODULE QuotaLedger ----------------------------
(***************************************************************************)
(* What a rate limiter promises, whatever process keeps it and however it  *)
(* counts: a ledger of slots, one per admitted call, that is never over a  *)
(* cap.  A slot is taken only if every rolling hour and every calendar day *)
(* stays within the caps of its key; a held slot is later either settled   *)
(* for good or freed; nothing else ever changes a slot.                    *)
(***************************************************************************)
EXTENDS Integers, Sequences, FiniteSets

CONSTANTS Key,          \* the (caller, action class) pairs that have a quota
          PerHour,      \* cap of each key in a rolling hour
          PerDay,       \* cap of each key in a calendar day
          HourSeconds,  \* length of the rolling window
          Instant,      \* the instants a slot can be stamped with
          Day           \* the day labels

VARIABLE slots          \* the slots, in the order they were taken

Slot == [key: Key, epoch: Instant, day: Day, state: {"held", "spent", "freed"}]

InHour(k, t) ==
  {i \in DOMAIN slots : /\ slots[i].key = k
                        /\ slots[i].state # "freed"
                        /\ t - HourSeconds < slots[i].epoch
                        /\ slots[i].epoch <= t}

InDay(k, d) ==
  {i \in DOMAIN slots : /\ slots[i].key = k
                        /\ slots[i].state # "freed"
                        /\ slots[i].day = d}

WithinCaps ==
  /\ \A k \in Key, t \in Instant : Cardinality(InHour(k, t)) <= PerHour[k]
  /\ \A k \in Key, d \in Day : Cardinality(InDay(k, d)) <= PerDay[k]

Init == slots = <<>>

\* A new slot may be stamped with any instant, even one before the latest:
\* the caps must hold in the ledger that results.
Take(k, t, d) ==
  /\ slots' = Append(slots, [key |-> k, epoch |-> t, day |-> d, state |-> "held"])
  /\ WithinCaps'

\* Any number of held slots become spent together.
Settle(S) ==
  slots' = [i \in DOMAIN slots |->
              IF i \in S THEN [slots[i] EXCEPT !.state = "spent"] ELSE slots[i]]

\* The call of slot i is known to have had no effect.
Free(i) ==
  /\ slots[i].state = "held"
  /\ slots' = [slots EXCEPT ![i].state = "freed"]

Held == {i \in DOMAIN slots : slots[i].state = "held"}

Next ==
  \/ \E S \in SUBSET Held : Settle(S)
  \/ \E k \in Key, t \in Instant, d \in Day : Take(k, t, d)
  \/ \E i \in Held : Free(i)

Spec == Init /\ [][Next]_slots
=============================================================================
