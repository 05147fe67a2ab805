----------------------------- MODULE Conversions -----------------------------
(***************************************************************************)
(* What one process hands to another one: messages and log entries as      *)
(* bytes (WireFormat), and the spec of a cluster as the two files of its   *)
(* nodes (Deployment).  A behaviour hands over one thing.                  *)
(***************************************************************************)
EXTENDS WireFormat, Deployment

CONSTANTS Numbers, Strings,   \* values of the fields
          SomeBytes,          \* bytes that arrive, and
          MaxBytes            \* how many of them at most

VARIABLES
  type,       \* the type of the message, or "none"
  message,    \* the message that was written, if one was
  bytes       \* its bytes

wireVars == <<type, message, bytes>>
vars     == <<wireVars, deployVars>>

Schemas == [Entry                |-> Entry,
            SubscribeRequest     |-> SubscribeRequest,
            PartitionEvent       |-> PartitionEvent,
            RaftEvent            |-> RaftEvent,
            LeaderUpdated        |-> LeaderUpdatedEvent,
            SendSnapshotStarted  |-> SendSnapshotStartedEvent,
            LogCompacted         |-> LogCompactedEvent,
            ConnectionFailed     |-> ConnectionFailedEvent,
            ProtocolConfig       |-> ProtocolConfig]

Types == DOMAIN Schemas

RECURSIVE Samples(_), Values(_)

Values(f) ==
  CASE f.kind = "uint"  -> {n \in Numbers : n < 2^f.width} \cup {2^f.width - 1}
    [] f.kind = "bool"  -> 0..1
    [] f.kind = "bytes" -> Strings
    [] f.kind \in {"embedded", "std"} -> Samples(f.of)
    [] f.kind = "pointer" -> {{}} \cup {{x} : x \in Samples(f.of)}
    [] f.kind = "oneof"   -> {{}}

Samples(s) ==
  LET upTo[k \in 0..Len(s)] ==
        IF k = 0 THEN {<<>>}
        ELSE {Append(m, v) : m \in upTo[k - 1], v \in Values(s[k])}
      alternatives == {k \in 1..Len(s) : s[k].kind = "oneof"}
  IN upTo[Len(s)] \cup
     UNION {{[m EXCEPT ![k] = {x}] : m \in upTo[Len(s)], x \in Samples(s[k].of)}
            : k \in alternatives}

\* A field that s does not have, of every wire type.
Unknown(s) == LET n == 8 * (Len(s) + 1) IN
  {Varint[n] \o <<200, 1>>, Varint[n + 1] \o <<1, 2, 3, 4, 5, 6, 7, 8>>,
   Varint[n + 2] \o <<2, 8, 1>>, Varint[n + 5] \o <<1, 2, 3, 4>>,
   Varint[n + 3] \o <<11, 8, 1, 12>> \o Varint[n + 4]}

-----------------------------------------------------------------------------

Init ==
  /\ type = "none"
  /\ message = {}
  /\ bytes = <<>>
  /\ DeployInit

Nothing == type = "none" /\ cluster = {}

WriteMessage ==
  /\ Nothing
  /\ \E t \in Types : \E m \in Samples(Schemas[t]) :
       /\ type' = t
       /\ message' = {m}
       /\ bytes' = Marshal(Schemas[t], m)
  /\ UNCHANGED deployVars

\* The writer is of a later version and writes a field that the reader does
\* not know.
WriteUnknown ==
  /\ \E m \in message : bytes = Marshal(Schemas[type], m)
  /\ \E u \in Unknown(Schemas[type]) : bytes' \in {u \o bytes, bytes \o u}
  /\ UNCHANGED <<type, message, deployVars>>

\* Bytes that no Marshal wrote.
Arrive ==
  /\ message = {} /\ cluster = {}
  /\ Len(bytes) < MaxBytes
  /\ type' \in IF type = "none" THEN Types ELSE {type}
  /\ \E x \in SomeBytes : bytes' = Append(bytes, x)
  /\ UNCHANGED <<message, deployVars>>

Next == \/ WriteMessage \/ WriteUnknown \/ Arrive
        \/ type = "none" /\ DeployNext /\ UNCHANGED wireVars

Spec == Init /\ [][Next]_vars

-----------------------------------------------------------------------------
(* Properties of the messages                                              *)

\* What is written is read: zero values, empty messages and the alternative of
\* a oneof among them, and whatever a later version wrote beside it.  The
\* buffer that Marshal allocates by Size is filled exactly.
RoundTrips ==
  \A m \in message :
    /\ Unmarshal(Schemas[type], bytes) = {m}
    /\ Size(Schemas[type], m) = Len(Marshal(Schemas[type], m))

\* Whatever bytes are accepted make a message of the type, which is written
\* and read as itself again: no value outgrows its type, fields may come
\* twice and in any order, and there is one event in a RaftEvent.
AcceptedIsMessage ==
  message = {} /\ type # "none" =>
    \A m \in Unmarshal(Schemas[type], bytes) :
      /\ IsMessage(Schemas[type], m)
      /\ Unmarshal(Schemas[type], Marshal(Schemas[type], m)) = {m}
=============================================================================
