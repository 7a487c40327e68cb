-------------------------- MODULE Connection_proofs --------------------------
(***************************************************************************)
(* Machine-checked proofs about the two halves of the JSON-RPC connection: *)
(* StreamLineReader, for every set of bytes, every chunk size and streams  *)
(* of every length, and OutgoingRequests, for every set of callers and any *)
(* number of responses.                                                    *)
(*                                                                         *)
(* No byte is lost, the part of the buffer that is skipped holds no        *)
(* newline, and the lines are those of LineStream.  Only a response that   *)
(* the handler is not prepared for takes the plugin down, and a call ends  *)
(* with the response to its own request.                                   *)
(***************************************************************************)
EXTENDS StreamLineReader, OutgoingRequests, SequenceTheorems, TLAPS

(* The bytes are all there, and those that were searched hold no newline.  *)
IInv ==
    /\ TypeOK
    /\ NoByteLost
    /\ SearchedIsClean

(* Concatenation of byte sequences is associative.                         *)
LEMMA Associative ==
  \A s, t, u \in Seq(Char) : (s \o t) \o u = s \o (t \o u)
<1> TAKE s, t, u \in Seq(Char)
<1>1. QED
  BY ConcatAssociative

(* A sequence is what it is cut into.                                      *)
LEMMA Cut ==
  ASSUME NEW s \in Seq(Char), NEW n \in 0..Len(s)
  PROVE  /\ SubSeq(s, 1, n) \in Seq(Char)
         /\ SubSeq(s, n + 1, Len(s)) \in Seq(Char)
         /\ SubSeq(s, 1, n) \o SubSeq(s, n + 1, Len(s)) = s
<1>1. Len(s) \in Nat /\ \A i \in 1..Len(s) : s[i] \in Char
  BY LenProperties, ElementOfSeq
<1>2. SubSeq(s, 1, n) \in Seq(Char)
  BY <1>1, SubSeqProperties
<1>3. SubSeq(s, n + 1, Len(s)) \in Seq(Char)
  BY <1>1, SubSeqProperties
<1>4. SubSeq(s, 1, n) \o SubSeq(s, n + 1, Len(s)) = SubSeq(s, 1, Len(s))
  BY <1>1, 1 \in 1..(Len(s) + 1), n \in (1 - 1)..Len(s), Len(s) \in n..Len(s), ConcatAdjacentSubSeq, Zenon
<1>5. QED
  BY <1>2, <1>3, <1>4, SubSeqFull

(* Cutting after the first n bytes does not depend on what comes behind.   *)
LEMMA CutOfConcat ==
  ASSUME NEW s \in Seq(Char), NEW t \in Seq(Char), NEW n \in 1..Len(s)
  PROVE  /\ SubSeq(s \o t, 1, n) = SubSeq(s, 1, n)
         /\ SubSeq(s \o t, n + 1, Len(s \o t)) = SubSeq(s, n + 1, Len(s)) \o t
<1>1. Len(s) \in Nat /\ Len(t) \in Nat
  BY LenProperties
<1>2. /\ s \o t \in Seq(Char)
      /\ Len(s \o t) = Len(s) + Len(t)
      /\ \A i \in 1..(Len(s) + Len(t)) :
            (s \o t)[i] = IF i <= Len(s) THEN s[i] ELSE t[i - Len(s)]
  BY ConcatProperties
<1>3. SubSeq(s \o t, 1, n) = SubSeq(s, 1, n)
  BY <1>1, SubSeqOfConcat1
<1>4. SubSeq(s, n + 1, Len(s)) \in Seq(Char)
      /\ Len(SubSeq(s, n + 1, Len(s))) = Len(s) - n
      /\ \A i \in 1..(Len(s) - n) : SubSeq(s, n + 1, Len(s))[i] = s[n + i]
  BY <1>1, SubSeqProperties, ElementOfSeq
<1>5. SubSeq(s \o t, n + 1, Len(s \o t)) = SubSeq(s, n + 1, Len(s)) \o t
  <2> DEFINE left == SubSeq(s \o t, n + 1, Len(s \o t))
             right == SubSeq(s, n + 1, Len(s)) \o t
  <2>1. /\ left \in Seq(Char)
        /\ Len(left) = Len(s) + Len(t) - n
        /\ \A i \in 1..(Len(s) + Len(t) - n) : left[i] = (s \o t)[n + i]
    BY <1>1, <1>2, SubSeqProperties, ElementOfSeq
  <2>2. /\ right \in Seq(Char)
        /\ Len(right) = Len(s) + Len(t) - n
        /\ \A i \in 1..(Len(s) + Len(t) - n) :
              right[i] = IF i <= Len(s) - n THEN s[n + i] ELSE t[i - (Len(s) - n)]
    <3> DEFINE rest == SubSeq(s, n + 1, Len(s))
    <3>1. /\ rest \in Seq(Char)
          /\ Len(rest) = Len(s) - n
          /\ \A i \in 1..(Len(s) - n) : rest[i] = s[n + i]
      BY <1>4
    <3> HIDE DEF rest
    <3>2. /\ rest \o t \in Seq(Char)
          /\ Len(rest \o t) = Len(rest) + Len(t)
          /\ \A i \in 1..(Len(rest) + Len(t)) :
                (rest \o t)[i] = IF i <= Len(rest) THEN rest[i] ELSE t[i - Len(rest)]
      BY <3>1, ConcatProperties
    <3>3. \A i \in 1..(Len(s) + Len(t) - n) :
             (rest \o t)[i] = IF i <= Len(s) - n THEN s[n + i] ELSE t[i - (Len(s) - n)]
      BY <1>1, <3>1, <3>2
    <3>4. right = rest \o t
      BY DEF rest
    <3> HIDE DEF right
    <3>5. Len(rest) + Len(t) = Len(s) + Len(t) - n
      BY <1>1, <3>1
    <3>6. QED
      BY <3>2, <3>3, <3>4, <3>5
  <2> HIDE DEF left, right
  <2>3. \A i \in 1..Len(left) : left[i] = right[i]
    <3> SUFFICES ASSUME NEW i \in 1..(Len(s) + Len(t) - n)
                 PROVE  left[i] = right[i]
      BY <2>1
    <3>1. left[i] = IF n + i <= Len(s) THEN s[n + i] ELSE t[n + i - Len(s)]
      <4>1. n + i \in 1..(Len(s) + Len(t))
        BY <1>1
      <4>2. left[i] = (s \o t)[n + i]
        BY <2>1
      <4>3. QED
        BY <1>2, <4>1, <4>2
    <3>2. n + i - Len(s) = i - (Len(s) - n) /\ (n + i <= Len(s) <=> i <= Len(s) - n)
      BY <1>1
    <3>3. QED
      BY <2>2, <3>1, <3>2
  <2>4. left = right
    BY <2>1, <2>2, <2>3, SeqEqual
  <2>5. QED
    BY <2>4 DEF left, right
<1>6. QED
  BY <1>3, <1>5

(* A search of buf, `in` being what read() has not returned, either takes  *)
(* the first line off, or leaves the bytes where they are.                 *)
LEMMA FindTakesFirstLine ==
  ASSUME TypeOK,
         NEW buf \in Seq(Char), NEW in \in Seq(Char),
         searched <= Len(buf),
         \A i \in 1..searched : buf[i] # Newline,
         Find(buf)
  PROVE  /\ TypeOK' <=> sent' \in Seq(Char) /\ eof' \in BOOLEAN /\ broken' \in BOOLEAN
                        /\ incoming' \in Seq(Char)
         /\ SearchedIsClean'
         /\ taken' \o (buffer' \o in) = taken \o (buf \o in)
         /\ \/ taken' = taken /\ buffer' = buf
            \/ \E n \in 1..Len(buf \o in) :
                  /\ (buf \o in)[n] = Newline
                  /\ \A i \in 1..(n - 1) : (buf \o in)[i] # Newline
                  /\ taken' = taken \o SubSeq(buf \o in, 1, n)
                  /\ buffer' \o in = SubSeq(buf \o in, n + 1, Len(buf \o in))
<1>1. Len(buf) \in Nat /\ Len(in) \in Nat /\ searched \in Nat
  BY LenProperties DEF TypeOK
<1>2. CASE KeepBuffer(buf)
  <2>1. \A i \in 1..Len(buf) : buf[i] # Newline
    BY <1>1, <1>2 DEF KeepBuffer
  <2>2. QED
    BY <1>1, <1>2, <2>1 DEF KeepBuffer, TypeOK, SearchedIsClean
<1>3. ASSUME NEW n \in 1..Len(buf), ReturnLine(buf, n)
      PROVE  /\ TypeOK' <=> sent' \in Seq(Char) /\ eof' \in BOOLEAN /\ broken' \in BOOLEAN
                            /\ incoming' \in Seq(Char)
             /\ SearchedIsClean'
             /\ taken' \o (buffer' \o in) = taken \o (buf \o in)
             /\ n \in 1..Len(buf \o in)
             /\ (buf \o in)[n] = Newline
             /\ \A i \in 1..(n - 1) : (buf \o in)[i] # Newline
             /\ taken' = taken \o SubSeq(buf \o in, 1, n)
             /\ buffer' \o in = SubSeq(buf \o in, n + 1, Len(buf \o in))
  <2>1. /\ SubSeq(buf, 1, n) \in Seq(Char)
        /\ buffer' \in Seq(Char)
        /\ SubSeq(buf, 1, n) \o buffer' = buf
    <3>1. buffer' = SubSeq(buf, n + 1, Len(buf))
      BY <1>3 DEF ReturnLine, Remainder
    <3>2. n \in 0..Len(buf)
      BY <1>1
    <3>3. QED
      BY <3>1, <3>2, Cut
  <2>2. searched' = 0 /\ taken' = taken \o SubSeq(buf, 1, n) /\ reading' \in BOOLEAN
    BY <1>3 DEF ReturnLine, OffsetAfter
  <2>3. taken \in Seq(Char) /\ taken' \in Seq(Char)
    BY <2>1, <2>2, ConcatProperties DEF TypeOK
  <2>4. searched' \in 0..Len(buffer') /\ SearchedIsClean'
    BY <2>1, <2>2, LenProperties DEF SearchedIsClean
  <2>5. taken' \o (buffer' \o in) = taken \o (buf \o in)
    <3>1. buffer' \o in \in Seq(Char)
      BY <2>1, ConcatProperties
    <3>2. (taken \o SubSeq(buf, 1, n)) \o (buffer' \o in)
             = taken \o (SubSeq(buf, 1, n) \o (buffer' \o in))
      <4>1. taken \in Seq(Char)
        BY <2>3
      <4>2. \A line, behind \in Seq(Char) : (taken \o line) \o behind = taken \o (line \o behind)
        BY <4>1, Associative, Zenon
      <4>3. QED
        BY <2>1, <3>1, <4>2, Zenon
    <3>3. SubSeq(buf, 1, n) \o (buffer' \o in) = (SubSeq(buf, 1, n) \o buffer') \o in
      BY <2>1, Associative
    <3>4. QED
      BY <2>1, <2>2, <3>2, <3>3
  <2>6. /\ Len(buf \o in) = Len(buf) + Len(in)
        /\ \A i \in 1..n : (buf \o in)[i] = buf[i]
    BY <1>1, ConcatProperties
  <2>7. buf[n] = Newline /\ \A i \in 1..(n - 1) : buf[i] # Newline
    BY <1>1, <1>3 DEF ReturnLine, NewlineAt
  <2>8. /\ SubSeq(buf \o in, 1, n) = SubSeq(buf, 1, n)
        /\ SubSeq(buf \o in, n + 1, Len(buf \o in)) = SubSeq(buf, n + 1, Len(buf)) \o in
    BY CutOfConcat
  <2>9. buffer' \o in = SubSeq(buf \o in, n + 1, Len(buf \o in))
    BY <1>3, <2>8 DEF ReturnLine, Remainder
  <2>10. TypeOK' <=> sent' \in Seq(Char) /\ eof' \in BOOLEAN /\ broken' \in BOOLEAN
                     /\ incoming' \in Seq(Char)
    BY <2>1, <2>2, <2>3, <2>4 DEF TypeOK
  <2>11. n \in 1..Len(buf \o in) /\ (buf \o in)[n] = Newline
         /\ \A i \in 1..(n - 1) : (buf \o in)[i] # Newline
    BY <1>1, <2>6, <2>7
  <2>12. QED
    BY <2>2, <2>4, <2>5, <2>8, <2>9, <2>10, <2>11
<1>4. QED
  BY <1>2, <1>3 DEF Find

(* Nothing has been sent or searched in the initial state.                 *)
LEMMA InitIInv == Init => IInv
<1> SUFFICES ASSUME Init
             PROVE  IInv
  OBVIOUS
<1>1. TypeOK
  <2>1. <<>> \in Seq(Char) /\ 0 \in 0..Len(<<>>)
    BY EmptySeq
  <2>2. QED
    BY <2>1 DEF Init, TypeOK
<1>2. <<>> = <<>> \o (<<>> \o <<>>)
  BY EmptySeq, ConcatEmptySeq
<1>3. QED
  BY <1>1, <1>2 DEF Init, IInv, NoByteLost, SearchedIsClean

(* A step of the reader that takes a line, or the stutter of one that does *)
(* not.                                                                    *)
TakesFirstLine ==
    \/ taken' = taken /\ buffer' \o incoming' = buffer \o incoming
    \/ \E n \in 1..Len(buffer \o incoming) : Lines!TakeLine(n)

(* A search of the buffer keeps the invariant.                             *)
LEMMA StepSearch ==
  ASSUME IInv, Search
  PROVE  IInv' /\ TakesFirstLine
<1> USE DEF IInv
<1>1. buffer \in Seq(Char) /\ incoming \in Seq(Char) /\ searched <= Len(buffer)
      /\ \A i \in 1..searched : buffer[i] # Newline
  BY LenProperties DEF TypeOK, SearchedIsClean
<1>2. Find(buffer) /\ UNCHANGED <<sent, eof, broken, incoming>>
  BY DEF Search
<1>3. TypeOK' /\ SearchedIsClean'
  BY <1>1, <1>2, FindTakesFirstLine DEF TypeOK
<1>4. /\ taken' \o (buffer' \o incoming) = taken \o (buffer \o incoming)
      /\ \/ taken' = taken /\ buffer' = buffer
         \/ \E n \in 1..Len(buffer \o incoming) :
               /\ (buffer \o incoming)[n] = Newline
               /\ \A i \in 1..(n - 1) : (buffer \o incoming)[i] # Newline
               /\ taken' = taken \o SubSeq(buffer \o incoming, 1, n)
               /\ buffer' \o incoming = SubSeq(buffer \o incoming, n + 1, Len(buffer \o incoming))
  BY <1>1, <1>2, FindTakesFirstLine, Zenon
<1>5. NoByteLost' /\ TakesFirstLine
  BY <1>2, <1>4 DEF NoByteLost, TakesFirstLine, Lines!TakeLine
<1>6. QED
  BY <1>3, <1>5

(* So does the next chunk, with what it completes.                         *)
LEMMA StepFetch ==
  ASSUME IInv, NEW k \in 1..ChunkSize, Fetch(k)
  PROVE  IInv' /\ TakesFirstLine
<1> DEFINE chunk == SubSeq(incoming, 1, k)
           left == SubSeq(incoming, k + 1, Len(incoming))
<1>1. /\ buffer \in Seq(Char) /\ incoming \in Seq(Char)
      /\ searched \in 0..Len(buffer) /\ Len(buffer) \in Nat /\ Len(incoming) \in Nat
  BY LenProperties DEF IInv, TypeOK
<1>2. k \in 1..Len(incoming) /\ Find(buffer \o chunk) /\ incoming' = left
      /\ UNCHANGED <<sent, eof, broken>>
  BY DEF Fetch, Extended
<1>3. chunk \in Seq(Char) /\ left \in Seq(Char) /\ chunk \o left = incoming
  BY <1>1, <1>2, Cut
<1> HIDE DEF chunk, left
<1>4. /\ buffer \o chunk \in Seq(Char)
      /\ Len(buffer \o chunk) = Len(buffer) + Len(chunk)
      /\ \A i \in 1..Len(buffer) : (buffer \o chunk)[i] = buffer[i]
  BY <1>1, <1>3, ConcatProperties, LenProperties
<1>5. searched <= Len(buffer \o chunk) /\ \A i \in 1..searched : (buffer \o chunk)[i] # Newline
  BY <1>1, <1>3, <1>4, LenProperties DEF IInv, SearchedIsClean
<1>6. (buffer \o chunk) \o left = buffer \o incoming
  <2>1. buffer \in Seq(Char) /\ chunk \in Seq(Char) /\ left \in Seq(Char) /\ chunk \o left = incoming
    BY <1>1, <1>3
  <2>2. (buffer \o chunk) \o left = buffer \o (chunk \o left)
    BY <2>1, Associative, Zenon
  <2>3. QED
    BY <2>1, <2>2
<1>7. TypeOK' /\ SearchedIsClean'
  BY <1>2, <1>3, <1>4, <1>5, FindTakesFirstLine DEF IInv, TypeOK
<1>8. /\ taken' \o (buffer' \o left) = taken \o (buffer \o incoming)
      /\ \/ taken' = taken /\ buffer' = buffer \o chunk
         \/ \E n \in 1..Len(buffer \o incoming) :
               /\ (buffer \o incoming)[n] = Newline
               /\ \A i \in 1..(n - 1) : (buffer \o incoming)[i] # Newline
               /\ taken' = taken \o SubSeq(buffer \o incoming, 1, n)
               /\ buffer' \o left = SubSeq(buffer \o incoming, n + 1, Len(buffer \o incoming))
  <2> DEFINE buf == buffer \o chunk
  <2>1. buf \in Seq(Char) /\ searched <= Len(buf) /\ (\A i \in 1..searched : buf[i] # Newline)
        /\ Find(buf) /\ TypeOK
    BY <1>2, <1>4, <1>5 DEF IInv
  <2>2. buf \o left = buffer \o incoming
    BY <1>6
  <2> HIDE DEF buf
  <2>3. /\ taken' \o (buffer' \o left) = taken \o (buf \o left)
        /\ \/ taken' = taken /\ buffer' = buf
           \/ \E n \in 1..Len(buf \o left) :
                 /\ (buf \o left)[n] = Newline
                 /\ \A i \in 1..(n - 1) : (buf \o left)[i] # Newline
                 /\ taken' = taken \o SubSeq(buf \o left, 1, n)
                 /\ buffer' \o left = SubSeq(buf \o left, n + 1, Len(buf \o left))
    BY <1>3, <2>1, FindTakesFirstLine, Zenon
  <2>4. QED
    BY <2>2, <2>3 DEF buf
<1>9. NoByteLost' /\ TakesFirstLine
  BY <1>2, <1>6, <1>8 DEF IInv, NoByteLost, TakesFirstLine, Lines!TakeLine
<1>10. QED
  BY <1>7, <1>9 DEF IInv

(* What the client sends is appended to what is still to be handed on.     *)
LEMMA StepSend ==
  ASSUME IInv, NEW c \in Char, Send(c)
  PROVE  IInv' /\ Lines!Arrive(c)
<1>1. /\ sent \in Seq(Char) /\ taken \in Seq(Char) /\ buffer \in Seq(Char) /\ incoming \in Seq(Char)
      /\ sent' = Append(sent, c) /\ incoming' = Append(incoming, c)
      /\ UNCHANGED <<eof, broken, buffer, searched, taken, reading>>
  BY DEF IInv, TypeOK, Send
<1>2. sent' = sent \o <<c>> /\ incoming' = incoming \o <<c>> /\ <<c>> \in Seq(Char)
  BY <1>1, AppendIsConcat
<1>3. buffer \o incoming \in Seq(Char)
  BY <1>1, ConcatProperties
<1>4. buffer \o (incoming \o <<c>>) = (buffer \o incoming) \o <<c>>
  BY <1>1, <1>2, Associative
<1>5. taken \o ((buffer \o incoming) \o <<c>>) = (taken \o (buffer \o incoming)) \o <<c>>
  BY <1>1, <1>2, <1>3, Associative
<1>6. NoByteLost'
  BY <1>1, <1>2, <1>4, <1>5 DEF IInv, NoByteLost
<1>7. (buffer \o incoming)' = Append(buffer \o incoming, c)
  BY <1>1, <1>2, <1>3, <1>4
<1>8. QED
  BY <1>1, <1>6, <1>7 DEF IInv, TypeOK, SearchedIsClean, Lines!Arrive

(* Every step keeps the invariant, and is a step of LineStream or leaves   *)
(* the bytes as they are.                                                  *)
LEMMA StepIInv == IInv /\ [Next]_vars => IInv' /\ [Lines!Next]_(Lines!vars)
<1> SUFFICES ASSUME IInv, [Next]_vars
             PROVE  IInv' /\ [Lines!Next]_(Lines!vars)
  OBVIOUS
<1>1. ASSUME NEW c \in Char, Send(c)
      PROVE  IInv' /\ [Lines!Next]_(Lines!vars)
  BY <1>1, StepSend DEF Lines!Next
<1>2. ASSUME CloseStream \/ EndOfStream \/ ReadFails \/ UNCHANGED vars
      PROVE  IInv' /\ [Lines!Next]_(Lines!vars)
  BY <1>2 DEF CloseStream, EndOfStream, ReadFails, vars, IInv, TypeOK, NoByteLost,
     SearchedIsClean, Lines!vars
<1>3. ASSUME TakesFirstLine
      PROVE  [Lines!Next]_(Lines!vars)
  BY <1>3 DEF TakesFirstLine, Lines!Next, Lines!vars
<1>4. QED
  BY <1>1, <1>2, <1>3, StepSearch, StepFetch DEF Next, Readline

(* The invariant holds in every reachable state.                           *)
THEOREM Invariance == Spec => []IInv
<1>1. QED
  BY InitIInv, StepIInv, PTL DEF Spec

(* No byte of the stream is lost, duplicated or reordered.                 *)
THEOREM BytesArePreserved == Spec => []NoByteLost
<1>1. IInv => NoByteLost
  BY DEF IInv
<1>2. QED
  BY <1>1, Invariance, PTL

(* The bytes that a search skips hold no newline.                          *)
THEOREM SkippedIsClean == Spec => []SearchedIsClean
<1>1. IInv => SearchedIsClean
  BY DEF IInv
<1>2. QED
  BY <1>1, Invariance, PTL

(* The reader's lines are those of the stream, cut after every newline.    *)
THEOREM ReaderImplementsLineStream == Spec => ImplementsLineStream
<1>1. Init => Lines!Init
  <2>1. <<>> \o <<>> = <<>>
    BY EmptySeq, ConcatEmptySeq
  <2>2. QED
    BY <2>1 DEF Init, Lines!Init
<1>2. QED
  BY <1>1, StepIInv, Invariance, PTL DEF Spec, ImplementsLineStream, Lines!Spec

-----------------------------------------------------------------------------
(* The requests of the plugin: OutgoingRequests.                           *)

(* Each call has an id of its own.                                         *)
OwnId ==
    \A c \in Caller :
        /\ request_id[c] = 0 <=> pc[c] = "idle"
        /\ \A d \in Caller : request_id[c] # 0 /\ request_id[d] = request_id[c] => d = c

(* A future that is done was set to a response that was read for its id.   *)
SetByResponse ==
    \A n \in 1..last_request_id :
        futures[n].state \in {"result", "exception"} =>
            /\ futures[n].by \in 1..read
            /\ responses[futures[n].by].id = n
            /\ responses[futures[n].by].error <=> futures[n].state = "exception"

(* Only closing cancels a future, and nothing is read afterwards.          *)
CancelledWhenClosed ==
    \A n \in 1..last_request_id : futures[n].state = "cancelled" => ~active

RaisedWhenClosed == raised => ~active

(* The part of OwnResponse that each step keeps.                           *)
GotOwn ==
    \A c \in Caller :
        /\ got[c] # 0 => pc[c] \in {"answered", "refused"}
        /\ pc[c] \in {"answered", "refused"} =>
            /\ got[c] \in 1..read
            /\ responses[got[c]].id = request_id[c]
            /\ responses[got[c]].error <=> pc[c] = "refused"

RequestsInv ==
    /\ RequestsTypeOK
    /\ OwnId
    /\ SetByResponse
    /\ CancelledWhenClosed
    /\ RaisedWhenClosed
    /\ GotOwn
    /\ OnlyUnexpectedRaises

LEMMA RequestsInitInv == RequestsInit => RequestsInv
<1> SUFFICES ASSUME RequestsInit
             PROVE  RequestsInv
  OBVIOUS
<1>1. RequestsTypeOK
  <2>1. futures \in [1..last_request_id -> [state : FutureState, by : Nat]]
    BY DEF RequestsInit
  <2>2. responses \in Seq(Response) /\ Len(responses) = 0
    BY DEF RequestsInit
  <2>3. /\ last_request_id = 0 /\ active \in BOOLEAN /\ raised \in BOOLEAN
        /\ read = 0
        /\ request_id = [c \in Caller |-> 0]
        /\ got = [c \in Caller |-> 0]
    BY DEF RequestsInit
  <2>4. pc \in [Caller -> {"idle", "waiting"} \cup Ended]
    BY DEF RequestsInit
  <2>5. QED
    BY <2>1, <2>2, <2>3, <2>4 DEF RequestsTypeOK
<1>2. OwnId /\ SetByResponse /\ CancelledWhenClosed /\ RaisedWhenClosed
  BY DEF RequestsInit, OwnId, SetByResponse, CancelledWhenClosed, RaisedWhenClosed
<1>3. GotOwn /\ OnlyUnexpectedRaises
  BY DEF RequestsInit, GotOwn, OnlyUnexpectedRaises
<1>4. QED
  BY <1>1, <1>2, <1>3 DEF RequestsInv

(* A call gets the next id, and a future that is pending.                  *)
LEMMA SendRequestKeepsInv ==
  ASSUME RequestsInv, NEW c \in Caller, NEW loggable \in BOOLEAN, SendRequest(c, loggable)
  PROVE  RequestsInv'
<1>1. /\ last_request_id \in Nat
      /\ NewId = last_request_id + 1
      /\ last_request_id' = NewId
      /\ \A d \in Caller : request_id[d] \in 0..last_request_id
      /\ request_id[c] = 0
  BY DEF RequestsInv, RequestsTypeOK, SendRequest, NewId, OwnId
<1>2. futures' \in [1..last_request_id' -> [state : FutureState, by : Nat]]
  <2>1. Pending \in [state : FutureState, by : Nat]
    BY DEF Pending, FutureState
  <2>2. \A n \in 1..last_request_id' : n # NewId => n \in 1..last_request_id
    BY <1>1
  <2>3. \A n \in 1..last_request_id : futures[n] \in [state : FutureState, by : Nat]
    BY DEF RequestsInv, RequestsTypeOK
  <2>4. QED
    BY <2>1, <2>2, <2>3 DEF SendRequest
<1>3. RequestsTypeOK'
  <2>1. pc' \in [Caller -> {"idle", "waiting"} \cup Ended]
    BY DEF RequestsInv, RequestsTypeOK, SendRequest, Ended
  <2>2. request_id' \in [Caller -> 0..last_request_id']
    BY <1>1 DEF RequestsInv, RequestsTypeOK, SendRequest
  <2>3. QED
    BY <1>1, <1>2, <2>1, <2>2 DEF RequestsInv, RequestsTypeOK, SendRequest,
                                  client
<1>4. OwnId'
  BY <1>1 DEF RequestsInv, OwnId, SendRequest, RequestsTypeOK
<1>5. \A n \in 1..last_request_id' :
          futures'[n] = IF n = NewId THEN Pending ELSE futures[n]
  BY <1>1 DEF SendRequest
<1>6. SetByResponse' /\ CancelledWhenClosed'
  BY <1>1, <1>5
  DEF RequestsInv, SetByResponse, CancelledWhenClosed, SendRequest,
      Pending, client
<1>7. GotOwn'
  BY <1>1 DEF RequestsInv, RequestsTypeOK, GotOwn, OwnId, SendRequest, client
<1>8. RaisedWhenClosed' /\ OnlyUnexpectedRaises'
  BY DEF RequestsInv, RaisedWhenClosed, OnlyUnexpectedRaises, Unexpected,
         SendRequest, client
<1>9. QED
  BY <1>3, <1>4, <1>6, <1>7, <1>8 DEF RequestsInv

(* The responses that were there remain as they were.                      *)
LEMMA RespondKeepsInv ==
  ASSUME RequestsInv, NEW r \in Responses, Respond(r)
  PROVE  RequestsInv'
<1>1. /\ responses' = Append(responses, r)
      /\ responses \in Seq(Response)
      /\ read \in 0..Len(responses)
      /\ last_request_id \in Nat
  BY DEF RequestsInv, RequestsTypeOK, Respond
<1>2. r \in Response
  BY <1>1 DEF Responses, Response
<1>3. /\ responses' \in Seq(Response)
      /\ Len(responses') = Len(responses) + 1
      /\ \A k \in 1..Len(responses) : responses'[k] = responses[k]
  BY <1>1, <1>2
<1>4. RequestsTypeOK'
  BY <1>1, <1>3 DEF RequestsInv, RequestsTypeOK, Respond, connection,
                    callers
<1>5. OwnId' /\ CancelledWhenClosed' /\ RaisedWhenClosed'
  BY DEF RequestsInv, OwnId, CancelledWhenClosed, RaisedWhenClosed, Respond,
         connection, callers
<1>6. SetByResponse'
  BY <1>1, <1>3 DEF RequestsInv, SetByResponse, Respond, connection
<1>7. GotOwn'
  BY <1>1, <1>3 DEF RequestsInv, GotOwn, Respond, connection, callers
<1>8. OnlyUnexpectedRaises'
  BY <1>1, <1>3 DEF RequestsInv, OnlyUnexpectedRaises, Unexpected,
                    Respond, connection
<1>9. QED
  BY <1>4, <1>5, <1>6, <1>7, <1>8 DEF RequestsInv

(* What closing does to the futures and the callers.                       *)
LEMMA CloseKeeps ==
  ASSUME RequestsInv, Close, UNCHANGED <<responses, last_request_id>>,
         read' \in read..Len(responses)
  PROVE  /\ futures' \in [1..last_request_id' -> [state : FutureState, by : Nat]]
         /\ pc' \in [Caller -> {"idle", "waiting"} \cup Ended]
         /\ OwnId' /\ SetByResponse' /\ CancelledWhenClosed' /\ GotOwn'
         /\ ~active'
<1>1. /\ DOMAIN futures = 1..last_request_id
      /\ futures \in [1..last_request_id -> [state : FutureState, by : Nat]]
      /\ read \in 0..Len(responses)
      /\ Len(responses) \in Nat
      /\ pc \in [Caller -> {"idle", "waiting"} \cup Ended]
  BY DEF RequestsInv, RequestsTypeOK
<1>2. \A n \in 1..last_request_id :
          futures'[n] = futures[n] \/ futures'[n] = [state |-> "cancelled", by |-> 0]
  BY <1>1 DEF Close
<1>3. futures' \in [1..last_request_id' -> [state : FutureState, by : Nat]]
  BY <1>1, <1>2 DEF Close, FutureState
<1>4. \A c \in Caller :
          /\ pc'[c] = pc[c] \/ (pc[c] = "waiting" /\ pc'[c] = "cancelled")
          /\ request_id'[c] = request_id[c]
          /\ got'[c] = got[c]
  BY DEF Close
<1>5. pc' \in [Caller -> {"idle", "waiting"} \cup Ended]
  BY <1>1, <1>4 DEF Close, Ended
<1>6. ~active'
  BY DEF Close, Reading
<1>7. OwnId'
  BY <1>4 DEF RequestsInv, OwnId
<1>8. SetByResponse'
  BY <1>1, <1>2 DEF RequestsInv, SetByResponse
<1>9. CancelledWhenClosed'
  BY <1>6 DEF CancelledWhenClosed
<1>10. GotOwn'
  BY <1>1, <1>4 DEF RequestsInv, GotOwn
<1>11. QED
  BY <1>3, <1>5, <1>6, <1>7, <1>8, <1>9, <1>10

LEMMA ShutdownKeepsInv == RequestsInv /\ Shutdown => RequestsInv'
<1> SUFFICES ASSUME RequestsInv, Shutdown
             PROVE  RequestsInv'
  OBVIOUS
<1>1. Close /\ UNCHANGED <<responses, last_request_id, read, raised, request_id, got>>
  BY DEF Shutdown, client, Close
<1>2. read' \in read..Len(responses)
  BY <1>1 DEF RequestsInv, RequestsTypeOK
<1>3. /\ futures' \in [1..last_request_id' -> [state : FutureState, by : Nat]]
      /\ pc' \in [Caller -> {"idle", "waiting"} \cup Ended]
      /\ OwnId' /\ SetByResponse' /\ CancelledWhenClosed' /\ GotOwn'
      /\ ~active'
  BY <1>1, <1>2, CloseKeeps
<1>4. active' \in BOOLEAN
  BY DEF Shutdown, Close, Reading
<1>5. RequestsTypeOK'
  BY <1>1, <1>3, <1>4 DEF RequestsInv, RequestsTypeOK
<1>6. RaisedWhenClosed' /\ OnlyUnexpectedRaises'
  BY <1>1, <1>3 DEF RequestsInv, RaisedWhenClosed, OnlyUnexpectedRaises,
                    Unexpected
<1>7. QED
  BY <1>3, <1>5, <1>6 DEF RequestsInv

(* A response raises for want of an id, for its body, or because there was *)
(* one before: in a connection that is read, no future is cancelled.       *)
LEMMA HandleResponseKeepsInv == RequestsInv /\ HandleResponse => RequestsInv'
<1> SUFFICES ASSUME RequestsInv, HandleResponse
             PROVE  RequestsInv'
  OBVIOUS
<1>1. /\ UNCHANGED <<responses, last_request_id>>
      /\ active
      /\ read' = read + 1
      /\ read \in Nat /\ Len(responses) \in Nat
      /\ read' \in 1..Len(responses)
      /\ read' \in read..Len(responses)
      /\ Incoming = responses[read']
      /\ Incoming \in Response
      /\ DOMAIN futures = 1..last_request_id
  BY DEF RequestsInv, RequestsTypeOK, HandleResponse, client,
         Incoming
<1>2. ~raised
  BY <1>1 DEF RequestsInv, RaisedWhenClosed
<1>3. CASE UNCHANGED <<futures, active, raised, callers>>
  <2>1. RequestsTypeOK'
    BY <1>1, <1>3 DEF RequestsInv, RequestsTypeOK, callers
  <2>2. OwnId' /\ CancelledWhenClosed' /\ RaisedWhenClosed'
    BY <1>1, <1>3 DEF RequestsInv, OwnId, CancelledWhenClosed, RaisedWhenClosed,
                      callers
  <2>3. SetByResponse'
    BY <1>1, <1>3 DEF RequestsInv, SetByResponse
  <2>4. GotOwn'
    BY <1>1, <1>3 DEF RequestsInv, GotOwn, callers
  <2>5. OnlyUnexpectedRaises'
    BY <1>2, <1>3 DEF OnlyUnexpectedRaises
  <2>6. QED
    BY <2>1, <2>2, <2>3, <2>4, <2>5 DEF RequestsInv
<1>4. CASE /\ Known(Incoming.id)
           /\ Settable(Incoming.id)
           /\ futures' = SetFuture(Incoming.id)
           /\ UNCHANGED <<active, raised, callers>>
  <2> DEFINE set == [state |-> IF Incoming.error THEN "exception" ELSE "result",
                     by |-> read']
  <2>1. /\ Incoming.id \in 1..last_request_id
        /\ futures' = [futures EXCEPT ![Incoming.id] = set]
    BY <1>1, <1>4 DEF Known, SetFuture
  <2>2. futures' \in [1..last_request_id' -> [state : FutureState, by : Nat]]
    BY <1>1, <2>1 DEF RequestsInv, RequestsTypeOK, FutureState
  <2>3. RequestsTypeOK'
    BY <1>1, <1>4, <2>2 DEF RequestsInv, RequestsTypeOK, callers
  <2>4. OwnId' /\ RaisedWhenClosed'
    BY <1>1, <1>4 DEF RequestsInv, OwnId, RaisedWhenClosed, callers
  <2>5. \A n \in 1..last_request_id : futures'[n] = IF n = Incoming.id THEN set ELSE futures[n]
    BY <2>1 DEF RequestsInv, RequestsTypeOK
  <2>6. set.state # "cancelled" /\ set.by = read' /\ (Incoming.error <=> set.state = "exception")
    BY <1>1 DEF Response
  <2>7. CancelledWhenClosed'
    BY <1>1, <1>4, <2>5, <2>6 DEF RequestsInv, CancelledWhenClosed
  <2>8. SetByResponse'
    <3>1. SUFFICES ASSUME NEW n \in 1..last_request_id,
                          futures'[n].state \in {"result", "exception"}
                   PROVE  /\ futures'[n].by \in 1..read'
                          /\ responses[futures'[n].by].id = n
                          /\ responses[futures'[n].by].error <=> futures'[n].state = "exception"
      BY <1>1 DEF SetByResponse
    <3>2. CASE n = Incoming.id
      BY <1>1, <2>5, <2>6, <3>2
    <3>3. CASE n # Incoming.id
      <4>1. futures'[n] = futures[n]
        BY <2>5, <3>3
      <4>2. QED
        BY <1>1, <3>1, <4>1 DEF RequestsInv, SetByResponse
    <3>4. QED
      BY <3>2, <3>3
  <2>9. GotOwn'
    BY <1>1, <1>4 DEF RequestsInv, GotOwn, callers
  <2>10. OnlyUnexpectedRaises'
    BY <1>2, <1>4 DEF OnlyUnexpectedRaises
  <2>11. QED
    BY <2>3, <2>4, <2>7, <2>8, <2>9, <2>10 DEF RequestsInv
<1>5. CASE /\ \/ Incoming.id = 0
              \/ Known(Incoming.id) /\ ~Settable(Incoming.id)
           /\ Raise
  <2>1. Close /\ raised' = TRUE /\ UNCHANGED <<request_id, got>>
    BY <1>5 DEF Raise, Close
  <2>2. /\ futures' \in [1..last_request_id' -> [state : FutureState, by : Nat]]
        /\ pc' \in [Caller -> {"idle", "waiting"} \cup Ended]
        /\ OwnId' /\ SetByResponse' /\ CancelledWhenClosed' /\ GotOwn'
        /\ ~active'
    BY <1>1, <2>1, CloseKeeps
  <2>3. active' \in BOOLEAN
    BY <2>1 DEF Close, Reading
  <2>4. RequestsTypeOK'
    BY <1>1, <2>1, <2>2, <2>3 DEF RequestsInv, RequestsTypeOK
  <2>5. Unexpected(read')
    <3>1. CASE Incoming.id = 0 \/ Incoming.body = "other"
      BY <1>1, <3>1 DEF Unexpected
    <3>2. CASE /\ Incoming.id \in 1..last_request_id
               /\ Incoming.body = "object"
               /\ futures[Incoming.id].state # "pending"
      <4>1. futures[Incoming.id].state \in FutureState
        BY <1>1, <3>2 DEF RequestsInv, RequestsTypeOK
      <4>2. futures[Incoming.id].state \in {"result", "exception"}
        BY <1>1, <3>2, <4>1 DEF RequestsInv, CancelledWhenClosed, FutureState
      <4>3. /\ futures[Incoming.id].by \in 1..read
            /\ responses[futures[Incoming.id].by].id = Incoming.id
        BY <3>2, <4>2 DEF RequestsInv, SetByResponse
      <4>4. QED
        BY <1>1, <4>3 DEF Unexpected
    <3>3. QED
      BY <1>1, <1>5, <3>1, <3>2 DEF Known, Settable, Response
  <2>6. OnlyUnexpectedRaises' /\ RaisedWhenClosed'
    BY <1>1, <2>2, <2>5 DEF OnlyUnexpectedRaises, RaisedWhenClosed, Unexpected
  <2>7. QED
    BY <2>2, <2>4, <2>6 DEF RequestsInv
<1>6. QED
  BY <1>3, <1>4, <1>5 DEF HandleResponse

(* A caller is resumed with the response that its future was set to.       *)
LEMMA ResumeKeepsInv ==
  ASSUME RequestsInv, NEW c \in Caller, Resume(c)
  PROVE  RequestsInv'
<1>1. /\ UNCHANGED <<responses, last_request_id, futures, read, active, raised, request_id>>
      /\ pc[c] = "waiting"
      /\ request_id[c] \in 1..last_request_id
      /\ read \in 0..Len(responses)
      /\ Len(responses) \in Nat
  BY DEF RequestsInv, RequestsTypeOK, OwnId, Resume, client,
         connection
<1> DEFINE f == futures[request_id[c]]
<1>2. /\ f.state \in {"result", "exception"}
      /\ f.by \in 1..read
      /\ responses[f.by].id = request_id[c]
      /\ responses[f.by].error <=> f.state = "exception"
  BY <1>1 DEF RequestsInv, SetByResponse, Resume
<1>3. /\ pc' = [pc EXCEPT ![c] = IF f.state = "result" THEN "answered" ELSE "refused"]
      /\ got' = [got EXCEPT ![c] = f.by]
  BY DEF Resume
<1>4. RequestsTypeOK'
  BY <1>1, <1>2, <1>3 DEF RequestsInv, RequestsTypeOK, Ended
<1>5. OwnId'
  BY <1>1, <1>3 DEF RequestsInv, RequestsTypeOK, OwnId
<1>6. SetByResponse' /\ CancelledWhenClosed' /\ RaisedWhenClosed' /\ OnlyUnexpectedRaises'
  BY <1>1
  DEF RequestsInv, SetByResponse, CancelledWhenClosed, RaisedWhenClosed,
      OnlyUnexpectedRaises, Unexpected
<1>7. GotOwn'
  BY <1>1, <1>2, <1>3 DEF RequestsInv, RequestsTypeOK, GotOwn
<1>8. QED
  BY <1>4, <1>5, <1>6, <1>7 DEF RequestsInv

LEMMA StutterKeepsInv == RequestsInv /\ UNCHANGED requestVars => RequestsInv'
BY DEF requestVars, RequestsInv, RequestsTypeOK, OwnId, SetByResponse,
       CancelledWhenClosed, RaisedWhenClosed, GotOwn,
       OnlyUnexpectedRaises, Unexpected

LEMMA RequestsStepInv == RequestsInv /\ [RequestsNext]_requestVars => RequestsInv'
BY SendRequestKeepsInv, RespondKeepsInv, HandleResponseKeepsInv, ResumeKeepsInv,
   ShutdownKeepsInv, StutterKeepsInv DEF RequestsNext

LEMMA RequestsInvariance == RequestsSpec => []RequestsInv
BY RequestsInitInv, RequestsStepInv, PTL DEF RequestsSpec

-----------------------------------------------------------------------------
(* Type correctness: no future is that of an id not given out, and the     *)
(* response that a caller got is one that was sent.                        *)
THEOREM RequestsTypeCorrect == RequestsSpec => []RequestsTypeOK
<1>1. RequestsInv => RequestsTypeOK
  BY DEF RequestsInv
<1>2. QED
  BY <1>1, RequestsInvariance, PTL

(* _handle_response raises for a response that the client should not have  *)
(* sent, and for no other.                                                 *)
THEOREM UnexpectedOnly == RequestsSpec => []OnlyUnexpectedRaises
<1>1. RequestsInv => OnlyUnexpectedRaises
  BY DEF RequestsInv
<1>2. QED
  BY <1>1, RequestsInvariance, PTL

(* send_request returns or raises what was sent for its own id, and that   *)
(* id is its own: two calls that have got the same response are one.       *)
THEOREM ResponseIsOwn == RequestsSpec => []OwnResponse
<1>1. RequestsInv => OwnResponse
  <2> SUFFICES ASSUME RequestsInv, NEW c \in Caller, pc[c] \in {"answered", "refused"}
               PROVE  /\ got[c] \in 1..read
                      /\ responses[got[c]].id = request_id[c]
                      /\ responses[got[c]].error <=> pc[c] = "refused"
                      /\ \A d \in Caller : got[d] = got[c] => d = c
    BY DEF OwnResponse
  <2>1. /\ got[c] \in 1..read
        /\ responses[got[c]].id = request_id[c]
        /\ responses[got[c]].error <=> pc[c] = "refused"
    BY DEF RequestsInv, GotOwn
  <2>2. ASSUME NEW d \in Caller, got[d] = got[c]
        PROVE  d = c
    <3>1. pc[d] \in {"answered", "refused"}
      BY <2>1, <2>2 DEF RequestsInv, RequestsTypeOK, GotOwn
    <3>2. request_id[d] = request_id[c]
      BY <2>1, <2>2, <3>1 DEF RequestsInv, GotOwn
    <3>3. request_id[c] # 0
      BY DEF RequestsInv, OwnId
    <3>4. QED
      BY <3>2, <3>3 DEF RequestsInv, OwnId
  <2>3. QED
    BY <2>1, <2>2
<1>2. QED
  BY <1>1, RequestsInvariance, PTL

=============================================================================
