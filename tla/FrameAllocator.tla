--------------------------- MODULE FrameAllocator ---------------------------
(***************************************************************************)
(* What the physical memory manager promises its clients, without bitmap,  *)
(* counters or search order: a set of free frames, the set of frames its   *)
(* clients hold, and the answer to the last call.  A request for a run of  *)
(* contiguous frames is granted whenever a suitable run is free, and is    *)
(* refused only when there is none; a frame is given back only by a client *)
(* that holds it.                                                          *)
(***************************************************************************)
EXTENDS Integers

CONSTANTS
  PAGE_SIZE,  \* bytes in a frame
  MAX_PAGES,  \* frames the allocator can track
  U64_MAX,    \* largest byte address, also "no limit" as a request's limit
  Counts,     \* numbers of frames clients ask for
  Limits,     \* address limits clients ask for
  None        \* the answer of a refused request

VARIABLES
  free,   \* frames that may be granted
  held,   \* frames granted and not given back
  reply   \* the last call and its answer

vars == <<free, held, reply>>

Frames == 0 .. MAX_PAGES - 1

\* The frames a request limited to addresses below limit may receive: the whole
\* frame lies below the limit.
Below(limit) == {f \in Frames : limit = U64_MAX \/ (f + 1) * PAGE_SIZE <= limit}

Run(first, count) == first .. first + count - 1

Grantable(count, limit) ==
  {first \in Frames : Run(first, count) \subseteq free \cap Below(limit)}

Init ==
  /\ free = {}
  /\ held = {}
  /\ reply = [op |-> "none"]

\* Memory appears once, before any of it has been granted.
Boot ==
  /\ free = {} /\ held = {}
  /\ free' \in SUBSET (Frames \ {0})
  /\ reply' = [op |-> "init"]
  /\ UNCHANGED held

Grant(count, limit) ==
  /\ count > 0
  /\ \E first \in Frames :
       /\ reply' = [op |-> "alloc", count |-> count, limit |-> limit, ret |-> first]
       /\ first \in Grantable(count, limit)
       /\ free' = free \ Run(first, count)
       /\ held' = held \cup Run(first, count)

Refuse(count, limit) ==
  /\ reply' = [op |-> "alloc", count |-> count, limit |-> limit, ret |-> None]
  /\ count = 0 \/ Grantable(count, limit) = {}
  /\ UNCHANGED <<free, held>>

GiveBack ==
  /\ held' \in SUBSET held
  /\ free' = free \cup (held \ held')
  /\ reply' = [op |-> "free", freed |-> held \ held']

Withdraw ==
  /\ free' \in SUBSET free
  /\ reply' = [op |-> "reserve"]
  /\ UNCHANGED held

Next ==
  \/ Boot
  \/ \E count \in Counts, limit \in Limits : Grant(count, limit) \/ Refuse(count, limit)
  \/ GiveBack
  \/ Withdraw

Spec == Init /\ [][Next]_vars
=============================================================================
