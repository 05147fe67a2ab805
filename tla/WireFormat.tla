----------------------------- MODULE WireFormat -----------------------------
(***************************************************************************)
(* What the processes write for each other: the entries of the Raft log,   *)
(* the events a node sends to the controller, and the configuration, as    *)
(* the code that protoc generated (pkg/storage/protocol.pb.go and          *)
(* config/config.pb.go) turns them into bytes and back.                    *)
(*                                                                         *)
(* The generated code repeats one pattern per message and field.  Here the *)
(* pattern is written once, and a message is described by its fields.  A   *)
(* message is the sequence of their values by field number; the value of a *)
(* field that may be absent is a set with at most one member.  The result  *)
(* of reading is such a set as well: it is empty for an error.             *)
(***************************************************************************)
EXTENDS Naturals, Sequences, FiniteSets, Varints
LOCAL INSTANCE Functions

CONSTANT Width32    \* stands for the 32 bits of uint32 and int32

ASSUME WidthAssumption == Width32 \in 1..Width64

-----------------------------------------------------------------------------
(* Kinds of fields.                                                        *)

Uint64 == [kind |-> "uint", width |-> Width64]
Uint32 == [kind |-> "uint", width |-> Width32]
Bool   == [kind |-> "bool"]
Bytes  == [kind |-> "bytes"]                        \* bytes and string

\* A message that is there at all times (nullable = false), one from outside
\* the repository that is (stdtime) or may be there (stdduration), and one of
\* the alternatives of a oneof.  (Times and durations out of the range of Go's
\* types are errors for the code, and are not told apart here.)
Embedded(s) == [kind |-> "embedded", of |-> s]
Std(s)      == [kind |-> "std", of |-> s]
Pointer(s)  == [kind |-> "pointer", of |-> s]
OneOf(s)    == [kind |-> "oneof", of |-> s]

Optional(f)  == f.kind \in {"pointer", "oneof"}
Submessage(f) == f.kind \in {"embedded", "std", "pointer", "oneof"}

-----------------------------------------------------------------------------
(* The messages.                                                           *)

\* google.protobuf.Timestamp and Duration
Timestamp == <<Uint64, Uint32>>

Entry            == <<Bytes, Uint64>>
SubscribeRequest == <<>>

PartitionEvent         == <<Uint32>>
MemberReadyEvent       == <<Embedded(PartitionEvent)>>
MembershipChangedEvent == <<Embedded(PartitionEvent)>>

LeaderEvent        == <<Embedded(PartitionEvent), Uint64, Bytes>>
LeaderUpdatedEvent == <<Embedded(LeaderEvent)>>

SnapshotEvent              == <<Embedded(PartitionEvent), Uint64>>
SendSnapshotStartedEvent   == <<Embedded(SnapshotEvent), Bytes>>
SendSnapshotCompletedEvent == <<Embedded(SnapshotEvent), Bytes>>
SendSnapshotAbortedEvent   == <<Embedded(SnapshotEvent), Bytes>>
SnapshotReceivedEvent      == <<Embedded(SnapshotEvent), Bytes>>
SnapshotRecoveredEvent     == <<Embedded(SnapshotEvent)>>
SnapshotCreatedEvent       == <<Embedded(SnapshotEvent)>>
SnapshotCompactedEvent     == <<Embedded(SnapshotEvent)>>

LogEvent            == <<Embedded(PartitionEvent), Uint64>>
LogCompactedEvent   == <<Embedded(LogEvent)>>
LogDBCompactedEvent == <<Embedded(LogEvent)>>

ConnectionEvent            == <<Bytes, Bool>>
ConnectionEstablishedEvent == <<Embedded(ConnectionEvent)>>
ConnectionFailedEvent      == <<Embedded(ConnectionEvent)>>

\* The alternatives of a RaftEvent, fields 2 to 15.
MemberEvents     == <<OneOf(MemberReadyEvent), OneOf(LeaderUpdatedEvent),
                      OneOf(MembershipChangedEvent)>>
TransferEvents   == <<OneOf(SendSnapshotStartedEvent),
                      OneOf(SendSnapshotCompletedEvent),
                      OneOf(SendSnapshotAbortedEvent)>>
SnapshotEvents   == <<OneOf(SnapshotReceivedEvent),
                      OneOf(SnapshotRecoveredEvent),
                      OneOf(SnapshotCreatedEvent),
                      OneOf(SnapshotCompactedEvent)>>
LogEvents        == <<OneOf(LogCompactedEvent), OneOf(LogDBCompactedEvent)>>
ConnectionEvents == <<OneOf(ConnectionEstablishedEvent),
                      OneOf(ConnectionFailedEvent)>>

RaftEvent == <<Std(Timestamp)>> \o MemberEvents \o TransferEvents \o
             SnapshotEvents \o LogEvents \o ConnectionEvents

ProtocolConfig == <<Pointer(Timestamp), Pointer(Timestamp), Uint64, Uint64>>

-----------------------------------------------------------------------------
(* Values.                                                                 *)

RECURSIVE Zero(_), IsMessage(_, _)

Zero(s) == [k \in 1..Len(s) |->
              CASE s[k].kind \in {"uint", "bool"}    -> 0
                [] s[k].kind = "bytes"               -> <<>>
                [] s[k].kind \in {"embedded", "std"} -> Zero(s[k].of)
                [] Optional(s[k])                    -> {}]

IsMessage(s, m) ==
  /\ DOMAIN m = 1..Len(s)
  /\ \A k \in 1..Len(s) :
       CASE s[k].kind = "uint"  -> m[k] \in 0..2^s[k].width - 1
         [] s[k].kind = "bool"  -> m[k] \in 0..1
         [] s[k].kind = "bytes" -> m[k] \in Seq(0..255)
         [] s[k].kind \in {"embedded", "std"} -> IsMessage(s[k].of, m[k])
         [] Optional(s[k]) -> /\ Cardinality(m[k]) <= 1
                              /\ \A x \in m[k] : IsMessage(s[k].of, x)
  /\ Cardinality({k \in 1..Len(s) : s[k].kind = "oneof" /\ m[k] # {}}) <= 1

-----------------------------------------------------------------------------
(* Writing.                                                                *)

RECURSIVE Marshal(_, _), Size(_, _)

WireType(f) == IF f.kind \in {"uint", "bool"} THEN 0 ELSE 2

\* Mutant: a message without content is left out.
WrittenWithContent(f, v) ==
  CASE f.kind \in {"uint", "bool"}    -> v # 0
    [] f.kind = "bytes"               -> v # <<>>
    [] f.kind \in {"embedded", "std"} -> TRUE
    [] Optional(f)                    -> v \notin {{}, {Zero(f.of)}}

\* Zero is not written, a message is even when it is empty.
Written(f, v) ==
  CASE f.kind \in {"uint", "bool"}    -> v # 0
    [] f.kind = "bytes"               -> v # <<>>
    [] f.kind \in {"embedded", "std"} -> TRUE
    [] Optional(f)                    -> v # {}

Message(f, v) == IF Optional(f) THEN CHOOSE x \in v : TRUE ELSE v

Payload(f, v) == CASE f.kind \in {"uint", "bool"} -> Varint[v]
                   [] f.kind = "bytes"            -> Prefixed(v)
                   [] Submessage(f) -> Prefixed(Marshal(f.of, Message(f, v)))

FieldBytes(s, m, k) == IF Written(s[k], m[k])
                         THEN Varint[8 * k + WireType(s[k])] \o Payload(s[k], m[k])
                         ELSE <<>>

\* MarshalToSizedBuffer
Marshal(s, m) ==
  LET upTo[k \in 0..Len(s)] ==
        IF k = 0 THEN <<>> ELSE upTo[k - 1] \o FieldBytes(s, m, k)
  IN upTo[Len(s)]

\* Size, which is computed before a byte is written and fixes the buffer.
Size(s, m) ==
  SumFunction([k \in 1..Len(s) |->
           IF ~Written(s[k], m[k]) THEN 0 ELSE 1 +
             CASE s[k].kind = "uint"  -> SizeOfVarint(m[k])
               [] s[k].kind = "bool"  -> 1
               [] s[k].kind = "bytes" -> SizeOfVarint(Len(m[k])) + Len(m[k])
               [] Submessage(s[k]) ->
                    LET l == Size(s[k].of, Message(s[k], m[k]))
                    IN SizeOfVarint(l) + l])

-----------------------------------------------------------------------------
(* Reading.  Positions count from 1; a position is read as {} if it cannot *)
(* be had.                                                                 *)

\* The position after the tag, and the value if there is one, of wire type w;
\* depth is the number of groups that are open.
After(b, i, w, depth) ==
  CASE w \in {0, 2} -> {x[2] + 1 : x \in Extent(b, i, w)}
    [] w = 1 -> {i + 8}
    [] w = 5 -> {i + 4}
    [] w = 3 -> {i}
    [] w = 4 /\ depth > 0 -> {i}
    [] OTHER -> {}

Depth(w, depth) == CASE w = 3 -> depth + 1
                     [] w = 4 -> depth - 1
                     [] OTHER -> depth

RECURSIVE SkipFrom(_, _, _), UnmarshalFrom(_, _, _, _)

SkipFrom(b, i, depth) ==
  UNION {LET w == ReadVarint(b, i, t, Width64) % 8
             next == After(b, t + 1, w, depth)
         IN IF Depth(w, depth) = 0 THEN next
            ELSE UNION {SkipFrom(b, n, Depth(w, depth)) : n \in next}
         : t \in VarintEnd(b, i)}

\* skipProtocol and skipConfig: the position after one field of any kind, a
\* group with all that it contains.
Skip(b, i) == SkipFrom(b, i, 0)

\* int32(wire >> 3), and 0 where that is not a field number
FieldNumber(tag) == LET n == (tag \div 8) % 2^Width32
                    IN IF n < 2^(Width32 - 1) THEN n ELSE 0

\* Mutant: the alternative that was read before stays.
PutBeside(s, m, k, v) == [m EXCEPT ![k] = v]

\* The value v is put into field k; there is one alternative of a oneof.
Put(s, m, k, v) ==
  [n \in DOMAIN m |-> IF n = k THEN v
                      ELSE IF s[k].kind = "oneof" /\ s[n].kind = "oneof" THEN {}
                      ELSE m[n]]

\* What field f, which had the value v, has after reading b from i to e: a
\* number, bytes, or a message, which is read into the one that is there
\* (embedded) or is a new one.
FieldValue(f, v, b, i, e) ==
  CASE f.kind = "uint"     -> {ReadVarint(b, i, e, f.width)}
    [] f.kind = "bool"     -> {IF ReadVarint(b, i, e, Width64) = 0 THEN 0 ELSE 1}
    [] f.kind = "bytes"    -> {SubSeq(b, i, e)}
    [] f.kind = "embedded" -> UnmarshalFrom(f.of, v, SubSeq(b, i, e), 1)
    [] f.kind = "std"      -> UnmarshalFrom(f.of, Zero(f.of), SubSeq(b, i, e), 1)
    [] Optional(f)         -> {{x} : x \in UnmarshalFrom(f.of, Zero(f.of),
                                                         SubSeq(b, i, e), 1)}

\* A field that is known is read, with the wire type it must have, and another
\* one is skipped.
Field(s, m, b, i, t) ==
  LET tag == ReadVarint(b, i, t, Width64)
      k == FieldNumber(tag)
      w == tag % 8
  IN CASE w = 4 \/ k = 0 -> {}
       [] w # 4 /\ k > Len(s) -> {<<m, n>> : n \in Skip(b, i)}
       [] w # 4 /\ k \in 1..Len(s) ->
            IF w # WireType(s[k]) THEN {} ELSE
            UNION {{<<Put(s, m, k, v), x[2] + 1>>
                    : v \in FieldValue(s[k], m[k], b, x[1], x[2])}
                   : x \in Extent(b, t + 1, w)}

UnmarshalFrom(s, m, b, i) ==
  CASE i = Len(b) + 1 -> {m}
    [] i > Len(b) + 1 -> {}
    [] OTHER -> UNION {UNION {UnmarshalFrom(s, y[1], b, y[2])
                              : y \in Field(s, m, b, i, t)}
                       : t \in VarintEnd(b, i)}

\* Unmarshal
Unmarshal(s, b) == UnmarshalFrom(s, Zero(s), b, 1)
=============================================================================
