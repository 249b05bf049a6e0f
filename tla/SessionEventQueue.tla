-------------------------- MODULE SessionEventQueue --------------------------
(***************************************************************************)
(* The lock-free queue between the service control handler, whose threads  *)
(* push session notifications, and the service thread, which pops them     *)
(* once per round.  Every action is one atomic operation of the code on a  *)
(* slot, a cursor or the overflow flag; any two may interleave.            *)
(*                                                                         *)
(* A notification is represented by the call that pushes it, so that no    *)
(* two are equal.  The cursors are kept modulo the capacity: the code's    *)
(* wrap at a power of two the capacity divides.                            *)
(***************************************************************************)
EXTENDS Naturals

CONSTANTS
    Events,       \* push calls
    Unencodable,  \* those whose type and session id leave no room for the + 1
    Capacity      \* SESSION_EVENT_QUEUE_CAPACITY

ASSUME QueueAssumption ==
    /\ Capacity \in Nat \ {0}
    /\ Unencodable \subseteq Events
    /\ "empty" \notin Events

VARIABLES
    slots,       \* the event in each slot, or "empty"
    writeCursor,
    readCursor,
    overflowed,  \* the flag that stands for every event that found no slot
    pushers,     \* where each push call is: phase, first index and offset
    popper,      \* where the pop call is
    delivered,   \* history: events popped
    covered,     \* history: events whose push had ended when an overflow was popped
    awaited      \* history: events in a slot when the current pop began its scan

queueVars == <<slots, writeCursor, readCursor, overflowed, pushers, popper,
               delivered, covered, awaited>>

Indices == 0..(Capacity - 1)
At(phase, start, offset) == [phase |-> phase, start |-> start, offset |-> offset]

\* index = start.wrapping_add(offset) % SESSION_EVENT_QUEUE_CAPACITY
Index(start, offset) ==
    IF start + offset < Capacity THEN start + offset ELSE (start + offset) - Capacity

Held == {e \in Events : \E n \in Indices : slots[n] = e}
Returned == {e \in Events : pushers[e].phase \in {"stored", "refused"}}

QueueInit ==
    /\ slots = [n \in Indices |-> "empty"]
    /\ writeCursor = 0
    /\ readCursor = 0
    /\ overflowed = FALSE
    /\ pushers = [e \in Events |-> At("idle", 0, 0)]
    /\ popper = At("idle", 0, 0)
    /\ delivered = {}
    /\ covered = {}
    /\ awaited = {}

popping == <<readCursor, popper, delivered, covered, awaited>>

\* push: checked_add fails, or the write cursor is advanced with fetch_add.
PushBegin(e) ==
    /\ pushers[e].phase = "idle"
    /\ IF e \in Unencodable
       THEN /\ pushers' = [pushers EXCEPT ![e].phase = "overflow"]
            /\ UNCHANGED writeCursor
       ELSE /\ pushers' = [pushers EXCEPT ![e] = At("scan", writeCursor, 0)]
            /\ writeCursor' = Index(writeCursor, 1)
    /\ UNCHANGED <<slots, overflowed, popping>>

\* A store in place of the compare_exchange.
PushOverwrites(e) ==
    /\ pushers[e].phase = "scan"
    /\ slots' = [slots EXCEPT ![pushers[e].start] = e]
    /\ pushers' = [pushers EXCEPT ![e].phase = "stored"]
    /\ UNCHANGED <<writeCursor, overflowed, popping>>

\* compare_exchange(0, encoded) on the next slot; a whole lap without an empty
\* one leaves the loop.
PushTry(e) ==
    LET p == pushers[e]
        n == Index(p.start, p.offset)
    IN  /\ p.phase = "scan"
        /\ \/ /\ slots[n] = "empty"
              /\ slots' = [slots EXCEPT ![n] = e]
              /\ pushers' = [pushers EXCEPT ![e].phase = "stored"]
           \/ /\ slots[n] # "empty"
              /\ pushers' = [pushers EXCEPT ![e] =
                    IF p.offset + 1 < Capacity THEN At("scan", p.start, p.offset + 1)
                    ELSE At("overflow", p.start, p.offset)]
              /\ UNCHANGED slots
        /\ UNCHANGED <<writeCursor, overflowed, popping>>

\* overflowed.store(true) and return false
PushRefuse(e) ==
    /\ pushers[e].phase = "overflow"
    /\ pushers' = [pushers EXCEPT ![e].phase = "refused"]
    /\ overflowed' = TRUE
    /\ UNCHANGED <<slots, writeCursor, popping>>

pushing == <<writeCursor, pushers>>

\* A flag that is cleared and not reported.
PopForgetsOverflow ==
    /\ popper.phase = "idle"
    /\ overflowed' = FALSE
    /\ popper' = At("scan", readCursor, 0)
    /\ awaited' = Held
    /\ UNCHANGED <<covered, slots, readCursor, delivered, pushing>>

\* pop: overflowed.swap(false) comes first, then the read cursor is loaded.
PopBegin ==
    /\ popper.phase = "idle"
    /\ overflowed' = FALSE
    /\ IF overflowed
       THEN /\ covered' = covered \cup Returned
            /\ UNCHANGED <<popper, awaited>>
       ELSE /\ popper' = At("scan", readCursor, 0)
            /\ awaited' = Held
            /\ UNCHANGED covered
    /\ UNCHANGED <<slots, readCursor, delivered, pushing>>

\* A slot that is read and not taken out.
PopPeeks ==
    LET n == Index(popper.start, popper.offset)
    IN  /\ popper.phase = "scan"
        /\ \/ /\ slots[n] # "empty"
              /\ delivered' = delivered \cup {slots[n]}
              /\ readCursor' = Index(n, 1)
              /\ popper' = At("idle", 0, 0)
           \/ /\ slots[n] = "empty"
              /\ popper' = IF popper.offset + 1 < Capacity
                           THEN At("scan", popper.start, popper.offset + 1)
                           ELSE At("none", 0, 0)
              /\ UNCHANGED <<delivered, readCursor>>
        /\ UNCHANGED <<slots, overflowed, covered, awaited, pushing>>

\* One lap that stops short of the slot before the read cursor.
PopShortLap ==
    LET n == Index(popper.start, popper.offset)
    IN  /\ popper.phase = "scan"
        /\ \/ /\ slots[n] # "empty"
              /\ delivered' = delivered \cup {slots[n]}
              /\ slots' = [slots EXCEPT ![n] = "empty"]
              /\ readCursor' = Index(n, 1)
              /\ popper' = At("idle", 0, 0)
           \/ /\ slots[n] = "empty"
              /\ popper' = IF popper.offset + 2 < Capacity
                           THEN At("scan", popper.start, popper.offset + 1)
                           ELSE At("none", 0, 0)
              /\ UNCHANGED <<slots, delivered, readCursor>>
        /\ UNCHANGED <<overflowed, covered, awaited, pushing>>

\* swap(0) on the next slot; a whole lap of empty ones returns None.
PopTry ==
    LET n == Index(popper.start, popper.offset)
    IN  /\ popper.phase = "scan"
        /\ \/ /\ slots[n] # "empty"
              /\ delivered' = delivered \cup {slots[n]}
              /\ slots' = [slots EXCEPT ![n] = "empty"]
              /\ readCursor' = Index(n, 1)
              /\ popper' = At("idle", 0, 0)
           \/ /\ slots[n] = "empty"
              /\ popper' = IF popper.offset + 1 < Capacity
                           THEN At("scan", popper.start, popper.offset + 1)
                           ELSE At("none", 0, 0)
              /\ UNCHANGED <<slots, delivered, readCursor>>
        /\ UNCHANGED <<overflowed, covered, awaited, pushing>>

\* pop has returned None; the service loop asks again in its next round.
PopAgain ==
    /\ popper.phase = "none"
    /\ popper' = At("idle", 0, 0)
    /\ UNCHANGED <<slots, readCursor, overflowed, delivered, covered, awaited, pushing>>

Push(e) == PushBegin(e) \/ PushTry(e) \/ PushRefuse(e)
Pop == PopBegin \/ PopTry \/ PopAgain

QueueNext == Pop \/ \E e \in Events : Push(e)

\* The service loop keeps popping; a pusher may be suspended for ever.
QueueSpec == QueueInit /\ [][QueueNext]_queueVars /\ WF_queueVars(Pop)
-----------------------------------------------------------------------------
(***************************************************************************)
(* Properties                                                              *)
(***************************************************************************)
Phases == {"idle", "scan", "overflow", "stored", "refused"}

\* Every variable has its type; no scan leaves the array.
QueueTypeOK ==
    /\ slots \in [Indices -> Events \cup {"empty"}]
    /\ writeCursor \in Indices
    /\ readCursor \in Indices
    /\ overflowed \in BOOLEAN
    /\ pushers \in [Events -> [phase: Phases, start: Indices, offset: Indices]]
    /\ popper \in [phase: {"idle", "scan", "none"}, start: Indices, offset: Indices]
    /\ delivered \subseteq Events
    /\ covered \subseteq Events
    /\ awaited \subseteq Events

\* An event whose push returned true is in a slot or has been delivered; one
\* whose push returned false is announced by the flag or by a delivered overflow.
NothingLost ==
    \A e \in Events :
        /\ pushers[e].phase = "stored" => e \in Held \cup delivered
        /\ pushers[e].phase = "refused" => overflowed \/ e \in covered

\* No event is handed out twice: it is in one slot at most, and in none once it
\* has been delivered or before its push stored it.
DeliveredOnce ==
    /\ \A m, n \in Indices : slots[m] # "empty" /\ slots[m] = slots[n] => m = n
    /\ Held \cap delivered = {}
    /\ \A e \in Held \cup delivered : pushers[e].phase = "stored"

\* When pop returns None, every event that was in the queue when that pop began
\* has been taken out: the drain loop of a round leaves nothing behind that was
\* there when its last pop started, whatever the pushers did meanwhile.
NoneMeansDrained == popper.phase = "none" => awaited \cap Held = {}

\* Every notification reaches the service: it is delivered, or an overflow that
\* clears all sessions is.
EveryEventArrives ==
    \A e \in Events : e \in Returned ~> e \in delivered \cup covered
=============================================================================
