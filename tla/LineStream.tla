----------------------------- MODULE LineStream -----------------------------
(***************************************************************************)
(* What a reader of lines promises: the bytes that arrive are handed on in *)
(* their order, each exactly once, cut after every newline and nowhere     *)
(* else.                                                                   *)
(***************************************************************************)
EXTENDS Naturals, Sequences

CONSTANTS
    Char,       \* the bytes
    Newline     \* the one that ends a line

VARIABLES
    taken,      \* the bytes handed on, with their newlines
    rest        \* the bytes that have arrived and not been handed on

vars == <<taken, rest>>

Init == taken = <<>> /\ rest = <<>>

Arrive(c) ==
    /\ rest' = Append(rest, c)
    /\ UNCHANGED taken

(* The first line of the rest, n bytes with its newline, is handed on.     *)
TakeLine(n) ==
    /\ rest[n] = Newline
    /\ \A i \in 1..(n - 1) : rest[i] # Newline
    /\ taken' = taken \o SubSeq(rest, 1, n)
    /\ rest' = SubSeq(rest, n + 1, Len(rest))

Next ==
    \/ \E c \in Char : Arrive(c)
    \/ \E n \in 1..Len(rest) : TakeLine(n)

Spec == Init /\ [][Next]_vars

=============================================================================
