------------------------------ MODULE GameList ------------------------------
(***************************************************************************)
(* plugin.py, generate_gamelist(): the lists of games are read off what    *)
(* legendary.exe prints, by one pass over the text that looks for "* ",    *)
(* "(App name: " and " GiB" at every position.                             *)
(*                                                                         *)
(* A game is printed as "* <title> (App name: <id> | Version: ...)", one   *)
(* of its DLCs in the same way without the "* ", and an installed game     *)
(* with " | <size> GiB" at the end.  The text is a sequence of tokens.     *)
(* Titles are any tokens: words, which are what str() makes of the bytes   *)
(* of the output, and the two markers that may occur in a title.           *)
(***************************************************************************)
EXTENDS Naturals, Sequences, SequencesExt

CONSTANTS
    Word,           \* the words of titles
    MaxLines,       \* bound: lines printed
    MaxTitle        \* bound: tokens of a title

ASSUME BoundsAssumption == MaxLines \in Nat /\ MaxTitle \in Nat \ {0}

(* The text around a title does not occur in one.  The other two markers   *)
(* may: they are tokens of a title of their own.                           *)
ASSUME WordAssumption == Word \cap {"(App name: ", " GiB"} = {}

Star    == <<"* ">>
App     == <<"(App name: ">>
Paren   == <<"(A">>             \* any other parenthesis that starts with A
Bar     == <<" |">>
Version == <<"version">>
GiB     == <<" GiB">>
Id(k)   == <<"id", k>>          \* of the k-th line
Size(k) == <<"size", k>>

Title == BoundedSeq({<<w>> : w \in Word} \cup {Star, Paren}, MaxTitle) \ {<<>>}

VARIABLES
    printed,        \* the lines: a title each, of a game or of a DLC
    installed,      \* list-installed, not list-games
    output,         \* the text
    i,              \* where the pass is
    game_name,      \* <<>> until there is one
    game_id,        \* likewise
    games,          \* owned_games or local_games, with the titles of the former
    names,          \* owned_game_names or local_game_names
    sizes,          \* local_game_sizes
    failed          \* an IndexError or UnboundLocalError was raised

vars == <<printed, installed, output, i, game_name, game_id, games, names, sizes, failed>>

(* What legendary.exe prints for the k-th line.                            *)
Line(k, l, inst) ==
    (IF l.dlc THEN <<>> ELSE <<Star>>) \o l.title \o <<App, Id(k), Bar, Version>>
    \o (IF inst THEN <<Bar, Size(k), GiB>> ELSE <<>>)

Output(lines, inst) == FlattenSeq([k \in DOMAIN lines |-> Line(k, lines[k], inst)])

(* A DLC is printed behind its game.                                       *)
Library ==
    {lines \in BoundedSeq([dlc : BOOLEAN, title : Title], MaxLines) :
        lines # <<>> => ~Head(lines).dlc}

Init ==
    /\ printed \in Library
    /\ installed \in BOOLEAN
    /\ output = Output(printed, installed)
    /\ i = 1
    /\ game_name = <<>>
    /\ game_id = <<>>
    /\ games = <<>>
    /\ names = <<>>
    /\ sizes = <<>>
    /\ failed = FALSE

-----------------------------------------------------------------------------
(* The first of the markers S from k on; 0 if the text has none.           *)
MarkerFrom(S, k) == SelectInSubSeq(output, k, Len(output), LAMBDA t : t \in S)

NameStart == i + 1

(* Slip: a title may not begin with "(A".                                  *)
NameEndEager == MarkerFrom({App, Paren}, i + 1)

(* Where the next "(A" is.  The first token of the title is not looked at. *)
NameEnd == MarkerFrom({App, Paren}, i + 2)

(* Slip: an id is listed with the title of the first game.                 *)
ListedFirst == [id |-> game_id', title |-> IF names = <<>> THEN game_name ELSE names[1]]

Listed == [id |-> game_id', title |-> game_name]

Fail ==
    /\ failed' = TRUE
    /\ UNCHANGED <<game_name, game_id, games, names, sizes>>

ReadName ==
    /\ output[i] = Star
    /\ IF NameEnd = 0
       THEN Fail
       ELSE /\ game_name' = SubSeq(output, NameStart, NameEnd - 1)
            /\ names' = Append(names, game_name')
            /\ UNCHANGED <<game_id, games, sizes, failed>>

ReadId ==
    /\ output[i] = App
    /\ IF MarkerFrom({Bar}, i + 1) = 0 \/ (game_name = <<>> /\ ~installed)
       THEN Fail
       ELSE /\ game_id' = SubSeq(output, i + 1, MarkerFrom({Bar}, i + 1) - 1)
            /\ games' = Append(games, Listed)
            /\ UNCHANGED <<game_name, names, sizes, failed>>

Sized == <<game_id, SubSeq(output, i - 1, i - 1)>>

ReadSize ==
    /\ output[i] = GiB
    /\ installed
    /\ IF game_id = <<>>
       THEN Fail
       ELSE /\ sizes' = Append(sizes, Sized)
            /\ UNCHANGED <<game_name, game_id, games, names, failed>>

Skip ==
    /\ output[i] \notin {Star, App, GiB}
    /\ UNCHANGED <<game_name, game_id, games, names, sizes, failed>>

(* One round of the for loop.                                              *)
Round ==
    /\ ~failed
    /\ i <= Len(output)
    /\ ReadName \/ ReadId \/ ReadSize \/ Skip
    /\ i' = i + 1
    /\ UNCHANGED <<printed, installed, output>>

Next == Round

Spec == Init /\ [][Next]_vars

-----------------------------------------------------------------------------
Done == ~failed /\ i > Len(output)

EndsInStar(line) == Last(line.title) = Star

(* What is left of a title: the part behind its last "* ", up to the first *)
(* "(A" that is not at the start of that part.                             *)
Shown(title) ==
    LET start == SelectLastInSeq(title, LAMBDA t : t = Star)
        rest == SubSeq(title, start + 1, Len(title))
        cut == SelectInSubSeq(rest, 2, Len(rest), LAMBDA t : t = Paren)
    IN  IF cut = 0 THEN rest ELSE SubSeq(rest, 1, cut - 1)

(* Every game and every DLC is listed, once and in the order printed, and  *)
(* if it is installed with its own size.  The pass fails only if the last  *)
(* title ends in an asterisk: its "* " is then followed by the only "(A"   *)
(* that could end it.                                                      *)
IdsListed ==
    /\ failed => EndsInStar(Last(printed))
    /\ Done => /\ Len(games) = Len(printed)
               /\ \A k \in DOMAIN printed : games[k].id = <<Id(k)>>
    /\ Done /\ installed => sizes = [k \in DOMAIN printed |-> <<<<Id(k)>>, <<Size(k)>>>>]

(* A game is listed with its own title, or what is left of it.             *)
TitlesListed ==
    Done /\ ~installed =>
        \A k \in DOMAIN printed :
            ~printed[k].dlc /\ ~EndsInStar(printed[k]) => games[k].title = Shown(printed[k].title)

=============================================================================
