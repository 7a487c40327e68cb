-------------------------- MODULE StreamLineReader --------------------------
(***************************************************************************)
(* galaxy/reader.py: readline() cuts the client's byte stream into lines,  *)
(* and remembers how far it has searched a line that is not complete yet.  *)
(* Its caller is the read loop of galaxy/api/jsonrpc.py, which takes empty *)
(* data for the end of the stream.                                         *)
(*                                                                         *)
(* An action is one round of readline()'s loop.  Plugin.close(), which     *)
(* ends the read loop too, is left to GalaxyPlugin.                        *)
(***************************************************************************)
EXTENDS Naturals, Sequences

CONSTANTS
    Char,       \* the bytes
    Newline,
    ChunkSize,  \* the most that one read() returns
    MaxBytes    \* bound: bytes sent in one behavior

ASSUME NewlineAssumption == Newline \in Char
ASSUME ChunkSizeAssumption == ChunkSize \in Nat \ {0}
ASSUME MaxBytesAssumption == MaxBytes \in Nat

VARIABLES
    sent,       \* all the bytes the client has sent
    eof,        \* the client has closed its end
    broken,     \* a read() has failed
    incoming,   \* the bytes that read() has not returned yet
    buffer,     \* _buffer
    searched,   \* _processed_buffer_it
    taken,      \* the bytes of the lines returned, with their newlines
    reading     \* Connection._active, while the read loop runs

vars == <<sent, eof, broken, incoming, buffer, searched, taken, reading>>

TypeOK ==
    /\ sent \in Seq(Char)
    /\ eof \in BOOLEAN
    /\ broken \in BOOLEAN
    /\ incoming \in Seq(Char)
    /\ buffer \in Seq(Char)
    /\ searched \in 0..Len(buffer)
    /\ taken \in Seq(Char)
    /\ reading \in BOOLEAN

Init ==
    /\ sent = <<>>
    /\ eof = FALSE
    /\ broken = FALSE
    /\ incoming = <<>>
    /\ buffer = <<>>
    /\ searched = 0
    /\ taken = <<>>
    /\ reading = TRUE

-----------------------------------------------------------------------------
(* The client.                                                             *)
Send(c) ==
    /\ ~eof
    /\ Len(sent) < MaxBytes
    /\ sent' = Append(sent, c)
    /\ incoming' = Append(incoming, c)
    /\ UNCHANGED <<eof, broken, buffer, searched, taken, reading>>

CloseStream ==
    /\ ~eof
    /\ eof' = TRUE
    /\ UNCHANGED <<sent, broken, incoming, buffer, searched, taken, reading>>

-----------------------------------------------------------------------------
(* Slip: a read() only when the buffer is empty.                           *)
NeedsDataOnlyIfEmpty == buffer = <<>>

(* There is nothing in the buffer, or nothing that was not searched.       *)
NeedsData == buffer = <<>> \/ searched # 0

(* Slip: the last newline, not the first.                                  *)
LastNewlineAt(buf, n) ==
    /\ n \in (searched + 1)..Len(buf)
    /\ buf[n] = Newline
    /\ \A i \in (n + 1)..Len(buf) : buf[i] # Newline

(* The first newline that the search finds.                                *)
NewlineAt(buf, n) ==
    /\ n \in (searched + 1)..Len(buf)
    /\ buf[n] = Newline
    /\ \A i \in (searched + 1)..(n - 1) : buf[i] # Newline

(* Slip: the remainder counts as searched.                                 *)
OffsetAtEnd(n) == Len(buffer')

(* Where the next search starts, the line of n bytes being removed.        *)
OffsetAfter(n) == 0

Remainder(buf, n) == SubSeq(buf, n + 1, Len(buf))

(* A line is returned, without its newline.  The read loop handles it, but *)
(* stops if it is empty.                                                   *)
ReturnLine(buf, n) ==
    /\ NewlineAt(buf, n)
    /\ buffer' = Remainder(buf, n)
    /\ searched' = OffsetAfter(n)
    /\ taken' = taken \o SubSeq(buf, 1, n)
    /\ reading' = (n # 1)

(* No newline: readline() goes on with the next chunk.                     *)
KeepBuffer(buf) ==
    /\ \A i \in (searched + 1)..Len(buf) : buf[i] # Newline
    /\ buffer' = buf
    /\ searched' = Len(buf)
    /\ UNCHANGED <<taken, reading>>

Find(buf) ==
    \/ KeepBuffer(buf)
    \/ \E n \in 1..Len(buf) : ReturnLine(buf, n)

(* The buffer may hold another line.                                       *)
Search ==
    /\ reading
    /\ ~NeedsData
    /\ Find(buffer)
    /\ UNCHANGED <<sent, eof, broken, incoming>>

Extended(chunk) == buffer \o chunk

(* read() returns what has arrived, at most ChunkSize bytes.               *)
Fetch(k) ==
    /\ reading
    /\ NeedsData
    /\ k \in 1..Len(incoming)
    /\ k = Len(incoming) \/ k = ChunkSize
    /\ k <= ChunkSize
    /\ Find(Extended(SubSeq(incoming, 1, k)))
    /\ incoming' = SubSeq(incoming, k + 1, Len(incoming))
    /\ UNCHANGED <<sent, eof, broken>>

(* read() returns nothing: the read loop stops.  What is left in the       *)
(* buffer is dropped.                                                      *)
EndOfStream ==
    /\ reading
    /\ NeedsData
    /\ incoming = <<>>
    /\ eof
    /\ reading' = FALSE
    /\ UNCHANGED <<sent, eof, broken, incoming, buffer, searched, taken>>

(* read() raises: the read loop stops.                                     *)
ReadFails ==
    /\ reading
    /\ NeedsData
    /\ broken' = TRUE
    /\ reading' = FALSE
    /\ UNCHANGED <<sent, eof, incoming, buffer, searched, taken>>

Readline == Search \/ (\E k \in 1..ChunkSize : Fetch(k)) \/ EndOfStream

Next ==
    \/ \E c \in Char : Send(c)
    \/ CloseStream
    \/ Readline
    \/ ReadFails

Spec == Init /\ [][Next]_vars

(* The event loop resumes readline() when there is something to read.      *)
FairSpec == Spec /\ WF_vars(Readline)

-----------------------------------------------------------------------------
(* No byte is lost, duplicated or reordered on its way from the stream     *)
(* through the buffer to the lines.                                        *)
NoByteLost == sent = taken \o (buffer \o incoming)

(* The part of the buffer that is not searched again holds no newline.     *)
SearchedIsClean == \A i \in 1..searched : buffer[i] # Newline

(* Every complete line is returned, unless the read loop stops before.     *)
LinesReturned ==
    \A n \in 1..MaxBytes :
        (Len(sent) >= n /\ sent[n] = Newline) ~> (Len(taken) >= n \/ ~reading)

(* readline() returns empty bytes, and the read loop reports "Received     *)
(* EOF", only when the stream has ended.                                   *)
StopsOnlyAtEnd == ~reading => eof \/ broken

-----------------------------------------------------------------------------
Lines == INSTANCE LineStream WITH rest <- buffer \o incoming

(* The lines are what LineStream says.                                     *)
ImplementsLineStream == Lines!Spec

=============================================================================
