--------------------------- MODULE CommandService ---------------------------
(***************************************************************************)
(* What a Raft partition promises to the caller of SyncCommand: a command  *)
(* is executed at most once, an execution has one place in one history     *)
(* that all replicas share, and a call that succeeds was executed and has  *)
(* had its own output written to its own stream.  A call that fails says   *)
(* nothing: its command may have been executed, or may be executed later.  *)
(***************************************************************************)
EXTENDS Sequences, Naturals

CONSTANT Commands       \* the SyncCommand calls, each made at most once

VARIABLES status,       \* status[c]: "new", "open", "ok" or "failed"
          history,      \* the commands in the order they are executed
          answered      \* the calls whose stream has their own output

vars == <<status, history, answered>>

Executed == {history[i] : i \in 1..Len(history)}

Init == /\ status = [c \in Commands |-> "new"]
        /\ history = <<>>
        /\ answered = {}

Call(c) == /\ status[c] = "new"
           /\ status' = [status EXCEPT ![c] = "open"]
           /\ UNCHANGED <<history, answered>>

\* A command takes its place in the history, once; the caller of it may have
\* given up by then.
Execute(c) == /\ status[c] \in {"open", "failed"}
              /\ c \notin Executed
              /\ history' = Append(history, c)
              /\ UNCHANGED <<status, answered>>

Answer(c) == /\ c \in Executed
             /\ answered' = answered \cup {c}
             /\ UNCHANGED <<status, history>>

Succeed(c) == /\ status[c] = "open"
              /\ c \in answered
              /\ status' = [status EXCEPT ![c] = "ok"]
              /\ UNCHANGED <<history, answered>>

\* A crash fails every open call of a node at once.
Fail(C) == /\ \A c \in C : status[c] = "open"
           /\ status' = [c \in Commands |-> IF c \in C THEN "failed"
                                                      ELSE status[c]]
           /\ UNCHANGED <<history, answered>>

Next == \/ \E c \in Commands : Call(c) \/ Execute(c) \/ Answer(c) \/ Succeed(c)
        \/ \E C \in SUBSET Commands : Fail(C)

Spec == Init /\ [][Next]_vars
=============================================================================
