---------------------------- MODULE MessageReader ----------------------------
(***************************************************************************)
(* How sync_or_async_read of both workers puts a message together: the      *)
(* chunks of CChunkedBuffer, reads that end in ERROR_MORE_DATA, and the     *)
(* limit MAX_INPUT_MESSAGE_SIZE.  The text is the same in the server and in  *)
(* the client; the module follows the client's, whose peer can also take    *)
(* away what was not read yet (DisconnectNamedPipe).                        *)
(*                                                                           *)
(* A byte is named by its session, its message and its place in it, so that *)
(* lost, repeated and mixed bytes can be told apart.                        *)
(***************************************************************************)
EXTENDS Integers, Sequences, SequencesExt

CONSTANTS
    BUFSIZE,
    MAX_INPUT_MESSAGE_SIZE,
    Sizes,          \* sizes of the messages the peer may send
    MaxSent,        \* bound: messages of a session
    MaxSessions     \* bound: sessions

ASSUME SizesAssumption == Sizes \subseteq Nat
ASSUME ReaderBoundsAssumption == MaxSent \in Nat /\ MaxSessions \in Nat \ {0}
ASSUME LimitAssumption ==
    /\ BUFSIZE \in Nat \ {0}
    /\ MAX_INPUT_MESSAGE_SIZE \in Nat /\ MAX_INPUT_MESSAGE_SIZE > 2 * BUFSIZE

Byte == Nat \X Nat \X Nat
ByteAt(s, k, i) == <<s, k, i>>
\* The bytes m + 1 .. m + n of message k of session s.
Bytes(s, k, m, n) == [j \in 1 .. n |-> ByteAt(s, k, m + j)]
Junk == <<0, 0, 0>>             \* what SetCount leaves in a new chunk
NoResult == [n |-> 0, more |-> FALSE]

VARIABLES
    pc,             \* "peek", "read", "pending", or "done": the pending read is over
    fMsgTooLong,
    m_inputBuffer,  \* the chunks
    result,         \* of the read that was pending
    inbound,        \* the pipe: of each message in it the bytes still unread
    gone,           \* the peer has disconnected
    session, sent,  \* the peer: the sizes of the messages it sent
    delivered       \* history: the buffers passed to OnMessage

peerVars == <<session, sent>>
vars == <<pc, fMsgTooLong, m_inputBuffer, result, inbound, gone, peerVars,
          delivered>>

Init ==
    /\ pc = "peek" /\ fMsgTooLong = FALSE /\ m_inputBuffer = <<>>
    /\ result = NoResult
    /\ inbound = <<>> /\ gone = FALSE
    /\ session = 1 /\ sent = <<>> /\ delivered = <<>>

(***************************************************************************)
(* CChunkedBuffer                                                           *)
(***************************************************************************)
Contents(b) == FlattenSeq(b)
GetCount(b) == Len(Contents(b))

AddBuffer(b, size) == Append(b, [k \in 1 .. size |-> Junk])

GetLastChunk(b, size) == IF b = <<>> THEN AddBuffer(b, size) ELSE b

\* The last chunk is cut to the n bytes that were read into it.
TrimLastChunk(b, n) ==
    IF n = 0 THEN Front(b) ELSE Append(Front(b), SubSeq(Last(b), 1, n))

\* External: ReadFile fills the last chunk from the message's unread bytes.
Transferred(b, bytes) ==
    IF Len(bytes) < Len(Last(b)) THEN Len(bytes) ELSE Len(Last(b))
Filled(b, bytes) ==
    Append(Front(b), [k \in DOMAIN Last(b) |->
                        IF k \in DOMAIN bytes THEN bytes[k] ELSE Last(b)[k]])

(***************************************************************************)
(* sync_or_async_read                                                       *)
(***************************************************************************)
TooLong_Above(b, left) == GetCount(b) + left > MAX_INPUT_MESSAGE_SIZE
TooLong(b, left) == GetCount(b) + left >= MAX_INPUT_MESSAGE_SIZE

\* prepare_input_buffer
Wanted_Left(left) == left
Wanted(left) == IF left > 0 THEN left ELSE BUFSIZE

Peek ==
    /\ pc = "peek" /\ ~gone
    /\ LET left == IF inbound = <<>> THEN 0 ELSE Len(Head(inbound))
       IN /\ fMsgTooLong' = TooLong(m_inputBuffer, left)
          /\ m_inputBuffer' = IF fMsgTooLong'
                              THEN GetLastChunk(m_inputBuffer, BUFSIZE)
                              ELSE AddBuffer(m_inputBuffer, Wanted(left))
    /\ pc' = "read"
    /\ UNCHANGED <<result, inbound, gone, peerVars, delivered>>

\* message_completed when nothing of the message is left in the pipe.
MoreOrCompleted_NotEmpty(b, more) ==
    /\ m_inputBuffer' = IF more THEN b ELSE <<>>
    /\ delivered' = IF more \/ GetCount(b) = 0 THEN delivered
                    ELSE Append(delivered, Contents(b))

MoreOrCompleted(b, more) ==
    \/ /\ more
       /\ m_inputBuffer' = b
       /\ UNCHANGED delivered
    \/ /\ ~more
       /\ delivered' = Append(delivered, Contents(b))
       /\ m_inputBuffer' = <<>>

\* What remains in the pipe when n bytes of its first message were read.
Rest(n) ==
    IF n < Len(Head(inbound))
    THEN <<SubSeq(Head(inbound), n + 1, Len(Head(inbound)))>> \o Tail(inbound)
    ELSE Tail(inbound)

\* A message is there, and is read synchronously, or its beginning is.
Read ==
    /\ pc = "read" /\ ~gone
    /\ inbound # <<>>
    /\ LET bytes == Head(inbound)
           n == Transferred(m_inputBuffer, bytes)
       IN /\ inbound' = Rest(n)
          /\ \/ /\ fMsgTooLong
                /\ m_inputBuffer' = <<>>
                /\ UNCHANGED delivered
             \/ /\ ~fMsgTooLong
                /\ MoreOrCompleted(TrimLastChunk(Filled(m_inputBuffer, bytes), n),
                                   n < Len(bytes))
    /\ pc' = "peek"
    /\ UNCHANGED <<fMsgTooLong, result, gone, peerVars>>

\* ERROR_IO_PENDING
ReadPends ==
    /\ pc = "read" /\ ~gone
    /\ inbound = <<>>
    /\ pc' = "pending"
    /\ UNCHANGED <<fMsgTooLong, m_inputBuffer, result, inbound, gone, peerVars,
                   delivered>>

\* main_loop after m_evRead, back into sync_or_async_read.
Completed ==
    /\ pc = "done"
    /\ MoreOrCompleted(TrimLastChunk(m_inputBuffer, result.n), result.more)
    /\ result' = NoResult
    /\ pc' = "peek"
    /\ UNCHANGED <<fMsgTooLong, inbound, gone, peerVars>>

\* An operation fails; reset clears the buffer, and another session begins.
ClearedAtReset_Not == m_inputBuffer
ClearedAtReset == <<>>

Fails ==
    /\ gone
    /\ pc \in {"peek", "read", "pending"}
    /\ session < MaxSessions
    /\ m_inputBuffer' = ClearedAtReset
    /\ pc' = "peek"
    /\ gone' = FALSE
    /\ session' = session + 1 /\ sent' = <<>> /\ delivered' = <<>>
    /\ UNCHANGED <<fMsgTooLong, result, inbound>>

Reader == Peek \/ Read \/ ReadPends \/ Completed \/ Fails

(***************************************************************************)
(* External: the peer.                                                      *)
(***************************************************************************)
\* A message completes the pending read, with all of it or its beginning.
Send(size) ==
    /\ ~gone
    /\ Len(sent) < MaxSent
    /\ sent' = Append(sent, size)
    /\ LET bytes == Bytes(session, Len(sent'), 0, size)
           n == Transferred(m_inputBuffer, bytes)
       IN IF pc = "pending"
          THEN /\ pc' = "done"
               /\ m_inputBuffer' = Filled(m_inputBuffer, bytes)
               /\ result' = [n |-> n, more |-> n < size]
               /\ inbound' = IF n < size THEN <<SubSeq(bytes, n + 1, size)>>
                                         ELSE <<>>
          ELSE /\ inbound' = Append(inbound, bytes)
               /\ UNCHANGED <<pc, m_inputBuffer, result>>
    /\ UNCHANGED <<fMsgTooLong, gone, session, delivered>>

Disconnect ==
    /\ ~gone
    /\ gone' = TRUE
    /\ inbound' = <<>>
    /\ UNCHANGED <<pc, fMsgTooLong, m_inputBuffer, result, peerVars, delivered>>

Peer == (\E size \in Sizes : Send(size)) \/ Disconnect

\* After the last session nothing more need happen.
Finished == gone /\ session = MaxSessions /\ UNCHANGED vars

Next == Reader \/ Peer \/ Finished

Spec == Init /\ [][Next]_vars

-----------------------------------------------------------------------------
(***************************************************************************)
(* Properties                                                               *)
(***************************************************************************)
\* Type invariant; and an operation always has a chunk to read into.
TypeOK ==
    /\ pc \in {"peek", "read", "pending", "done"}
    /\ fMsgTooLong \in BOOLEAN /\ gone \in BOOLEAN
    /\ m_inputBuffer \in Seq(Seq(Byte))
    /\ pc # "peek" => m_inputBuffer # <<>> /\ Last(m_inputBuffer) # <<>>
    /\ result \in [n : Nat, more : BOOLEAN]
    /\ inbound \in Seq(Seq(Byte))
    /\ session \in 1 .. MaxSessions
    /\ sent \in Seq(Sizes)
    /\ delivered \in Seq(Seq(Byte))

\* Message k of the session from its byte b on.
Message(k, b) == Bytes(session, k, b - 1, sent[k] + 1 - b)

\* The k-th buffer passed to OnMessage holds the bytes of the k-th message sent,
\* in order and without a gap: all of them when the message is below the limit,
\* however the reads cut it and whatever was left unread in an earlier session.
MessagesArriveWhole ==
    \A k \in DOMAIN delivered :
        /\ k \in DOMAIN sent
        /\ sent[k] < MAX_INPUT_MESSAGE_SIZE => delivered[k] = Message(k, 1)
        /\ sent[k] >= MAX_INPUT_MESSAGE_SIZE =>
              \E b \in 1 .. sent[k] : delivered[k] = Message(k, b)

\* When the reader waits for the peer it has passed on every message.
NothingIsLeft ==
    pc = "pending" /\ ~gone => Len(delivered) = Len(sent)

\* However long a message, no buffer of MAX_INPUT_MESSAGE_SIZE bytes is needed.
BufferIsBounded == GetCount(m_inputBuffer) < MAX_INPUT_MESSAGE_SIZE

\* "just ignore this message silently" (include/named-pipe-client.hpp:340): of a
\* message that is too long nothing is passed to OnMessage.
LongMessagesAreIgnored ==
    \A k \in DOMAIN delivered : \A j \in DOMAIN delivered[k] :
        sent[delivered[k][j][2]] < MAX_INPUT_MESSAGE_SIZE

-----------------------------------------------------------------------------
(***************************************************************************)
(* The inductive invariant: which bytes are in the chunks and which in the   *)
(* pipe.                                                                     *)
(***************************************************************************)
\* The message that is being put together, and how it begins and ends.
Current == Len(delivered) + 1
Beginning(n) == Bytes(session, Current, 0, n)
LastBytes(k, n) == Bytes(session, k, sent[k] - n, n)

\* A chunk is kept only of a read that ended in ERROR_MORE_DATA because Peek had
\* found no message; the next read takes what Peek then finds: there are never
\* more than two chunks.
KeptChunk ==
    /\ m_inputBuffer[1] = Beginning(BUFSIZE)
    /\ Current \in DOMAIN sent /\ sent[Current] > BUFSIZE
OneChunk(size) == Len(m_inputBuffer) = 1 /\ Len(m_inputBuffer[1]) = size
LastOfTwo ==
    /\ Len(m_inputBuffer) = 2 /\ Len(m_inputBuffer[2]) > 0
    /\ KeptChunk /\ sent[Current] = BUFSIZE + Len(m_inputBuffer[2])
    /\ sent[Current] < MAX_INPUT_MESSAGE_SIZE

ChunksHold ==
    /\ pc = "peek" => m_inputBuffer = <<>> \/ (OneChunk(BUFSIZE) /\ KeptChunk)
    /\ pc = "read" /\ fMsgTooLong => OneChunk(BUFSIZE)
    /\ pc = "read" /\ ~fMsgTooLong =>
          LastOfTwo \/ \E size \in 1 .. (MAX_INPUT_MESSAGE_SIZE - 1) : OneChunk(size)
    /\ pc \in {"pending", "done"} => OneChunk(BUFSIZE)
    /\ pc = "done" =>
          /\ Current \in DOMAIN sent
          /\ result.n = IF sent[Current] < BUFSIZE THEN sent[Current] ELSE BUFSIZE
          /\ result.more = (result.n < sent[Current])
          /\ \A j \in 1 .. result.n : m_inputBuffer[1][j] = ByteAt(session, Current, j)

\* The first message in the pipe, and how much of it must be there.
First == IF pc = "done" /\ ~result.more THEN Current + 1 ELSE Current
HeadIs(unread) ==
    /\ pc = "peek" /\ m_inputBuffer = <<>> =>
          \/ unread = sent[First]
          \/ sent[First] >= MAX_INPUT_MESSAGE_SIZE /\ unread > 0
    /\ pc = "peek" /\ m_inputBuffer # <<>> => unread = sent[First] - BUFSIZE
    /\ pc = "read" /\ fMsgTooLong =>
          sent[First] >= MAX_INPUT_MESSAGE_SIZE /\ unread > BUFSIZE
    /\ pc = "read" /\ ~fMsgTooLong /\ Len(m_inputBuffer) = 1 =>
          \/ unread = sent[First] /\ (OneChunk(unread) \/ OneChunk(BUFSIZE))
          \/ sent[First] >= MAX_INPUT_MESSAGE_SIZE /\ OneChunk(unread)
    /\ pc = "read" /\ ~fMsgTooLong /\ Len(m_inputBuffer) = 2 =>
          unread = sent[First] - BUFSIZE
    /\ pc = "done" => unread = IF result.more THEN sent[First] - BUFSIZE ELSE sent[First]

PipeHolds ==
    /\ gone => inbound = <<>>
    /\ ~gone =>
          /\ Len(inbound) = Len(sent) + 1 - First
          /\ \A j \in DOMAIN inbound :
                /\ inbound[j] = LastBytes(First + j - 1, Len(inbound[j]))
                /\ j > 1 => Len(inbound[j]) = sent[First + j - 1]
          /\ inbound # <<>> => Len(inbound[1]) <= sent[First] /\ HeadIs(Len(inbound[1]))
          /\ inbound = <<>> /\ pc = "read" => ~fMsgTooLong /\ OneChunk(BUFSIZE)
          /\ pc = "pending" => inbound = <<>>

MInv == TypeOK /\ ChunksHold /\ PipeHolds /\ MessagesArriveWhole
=============================================================================
