------------------------------ MODULE EventBus ------------------------------
(***************************************************************************)
(* The kernel event bus of seed/saios/src/kernel/event.rs: a numbered log  *)
(* of the newest events, and counters per kind that never forget.  Its     *)
(* operations are functions on the bus, for the components that publish.   *)
(* Each runs under the bus's own lock, taken last and never held across a  *)
(* yield.                                                                  *)
(***************************************************************************)
EXTENDS Integers, Sequences

CONSTANTS
  MAX_EVENTS,   \* 512 in the code
  U64_MAX,
  EventKind     \* the kinds of events

ASSUME EventBusAssumption == MAX_EVENTS \in Nat /\ U64_MAX \in Nat

NewBus ==
  [next_seq |-> 1, events |-> <<>>, total |-> 0,
   counters |-> [k \in EventKind |-> 0]]

saturating_inc(n) == IF n < U64_MAX THEN n + 1 ELSE U64_MAX

\* The events that stay when a log longer than cap loses one.
Trim(log) == IF Len(log) > MAX_EVENTS THEN Tail(log) ELSE log

publish(bus, kind, source) ==
  [next_seq |-> saturating_inc(bus.next_seq),
   events   |-> Trim(Append(bus.events, [seq |-> bus.next_seq, kind |-> kind,
                                         source |-> source])),
   total    |-> saturating_inc(bus.total),
   counters |-> [bus.counters EXCEPT ![kind] = saturating_inc(@)]]

\* The last events, at most limit of them.
recent(bus, limit) ==
  SubSeq(bus.events, Len(bus.events) + 1 - (IF limit < Len(bus.events) THEN limit ELSE Len(bus.events)),
         Len(bus.events))

\* Forget all but the latest keep_latest events.
clear_stale(bus, keep_latest) ==
  [bus EXCEPT !.events = recent(bus, keep_latest)]
=============================================================================
