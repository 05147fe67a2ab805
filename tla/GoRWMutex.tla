----------------------------- MODULE GoRWMutex -----------------------------
(***************************************************************************)
(* sync.RWMutex, as the code uses it (external: Go's runtime).             *)
(*                                                                         *)
(* A writer first announces itself, then waits for the readers that are    *)
(* inside to leave.  From the announcement on, new readers are parked; an  *)
(* Unlock lets all of them in before the next writer can announce itself.  *)
(* So a reader that never leaves stops the writers, and with a writer      *)
(* announced it stops all other readers too.                               *)
(***************************************************************************)
CONSTANT NoGoroutine

Free == [readers |-> {}, parked |-> {}, writer |-> NoGoroutine]

\* RLock: inside at once, or parked behind the writer.
RLock(rw, g) == IF rw.writer = NoGoroutine
                  THEN [rw EXCEPT !.readers = @ \cup {g}]
                  ELSE [rw EXCEPT !.parked = @ \cup {g}]

RUnlock(rw, g) == [rw EXCEPT !.readers = @ \ {g}]

Reads(rw, g) == g \in rw.readers

\* Lock: one writer at a time gets as far as announcing itself.
CanAnnounce(rw) == rw.writer = NoGoroutine
Announce(rw, g) == [rw EXCEPT !.writer = g]

Writes(rw, g) == rw.writer = g /\ rw.readers = {}

Unlock(rw) == [readers |-> rw.parked, parked |-> {}, writer |-> NoGoroutine]
=============================================================================
