--------------------------- MODULE MessageWriter ---------------------------
(***************************************************************************)
(* transport.WriteMessage: one message of the protocol, encoded as JSON    *)
(* and a newline, handed to the connection in one Write.                   *)
(*                                                                         *)
(* Model simplifications:                                                  *)
(*  - the encoding of a message is the message itself, the stream a        *)
(*    sequence of messages and newlines;                                   *)
(*  - a Write of the connection is atomic; when it fails it may have       *)
(*    written the first part of what it was given.                         *)
(***************************************************************************)
EXTENDS Naturals, Sequences, FiniteSets, SequencesExt

CONSTANTS
  Threads,        \* the goroutines that write to the connection
  Messages,       \* the messages they write
  Unencodable,    \* the messages json cannot encode
  MaxStream,      \* bound on the length of the stream
  Nil

VARIABLES
  stream,         \* what the connection has taken
  failed,         \* a Write of the connection has failed
  call,           \* call[t]: what thread t has still to write
  ret             \* the last return of WriteMessage

vars == <<stream, failed, call, ret>>

NL == "\n"

\* Seeded fault: the message and its newline are two Writes.
EncodeInTwoWrites(req) == << <<req>>, <<NL>> >>

\* Encoder.Encode(req): the Writes it makes, one of the value and the
\* newline together.
Encode(req) == << <<req, NL>> >>

\* Seeded fault: the error of the encoding is dropped.
EncodesAlways(req) == TRUE

Encodes(req) == req \notin Unencodable

\* The stream has room for one more message beside those being written.
Room == Len(stream) + 2 * Cardinality({u \in Threads : call[u] # <<>>}) + 2 <= MaxStream

Init ==
  /\ stream = <<>>
  /\ failed = FALSE
  /\ call = [t \in Threads |-> <<>>]
  /\ ret = [op |-> "New", err |-> Nil]

\* WriteMessage(writer, req), to the first Write
WriteMessage(t, req) ==
  /\ call[t] = <<>>
  /\ IF Encodes(req)
     THEN Room /\ call' = [call EXCEPT ![t] = Encode(req)] /\ UNCHANGED ret
     ELSE ret' = [op |-> "WriteMessage", err |-> "UnsupportedValue"] /\ UNCHANGED call
  /\ UNCHANGED <<stream, failed>>

\* writer.Write(b) takes all of b.
Write(t) ==
  /\ call[t] # <<>>
  /\ stream' = stream \o Head(call[t])
  /\ call' = [call EXCEPT ![t] = Tail(@)]
  /\ ret' = IF Tail(call[t]) = <<>> THEN [op |-> "WriteMessage", err |-> Nil] ELSE ret
  /\ UNCHANGED failed

\* writer.Write(b) fails after n parts of b.
WriteFails(t, n) ==
  /\ call[t] # <<>>
  /\ n < Len(Head(call[t]))
  /\ stream' = stream \o SubSeq(Head(call[t]), 1, n)
  /\ failed' = TRUE
  /\ call' = [call EXCEPT ![t] = <<>>]
  /\ ret' = [op |-> "WriteMessage", err |-> "WriteFailed"]

Next ==
  \E t \in Threads :
    \/ \E req \in Messages : WriteMessage(t, req)
    \/ Write(t)
    \/ \E n \in 0 .. 1 : WriteFails(t, n)

Spec == Init /\ [][Next]_vars

-----------------------------------------------------------------------------
(* Properties *)

\* Only what json can encode reaches the connection.
TypeOK ==
  /\ stream \in BoundedSeq((Messages \ Unencodable) \cup {NL}, MaxStream)
  /\ failed \in BOOLEAN
  /\ \A t \in Threads : Len(call[t]) <= 2

\* The reader finds one message per line: as long as no Write has failed,
\* the stream is messages each followed by its newline, however the
\* WriteMessage calls of several goroutines on one connection interleave.
StreamIsFramed ==
  ~failed =>
    \A i \in DOMAIN stream : (stream[i] = NL) <=> (i % 2 = 0)

=============================================================================
