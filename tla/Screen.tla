------------------------------- MODULE Screen -------------------------------
(***************************************************************************)
(* What a terminal promises: the last Height lines of what was written.    *)
(***************************************************************************)
EXTENDS Naturals, Sequences

CONSTANTS Width, Height, Chars

VARIABLE text     \* the lines to be seen; the last one is being written

\* Only the last Height lines stay.
Visible(lines) ==
    IF Len(lines) <= Height THEN lines
    ELSE SubSeq(lines, Len(lines) - Height + 1, Len(lines))

NewLine == text' = Visible(Append(text, <<>>))

\* A character goes to the end of the line; a full line begins the next.
Put(c) ==
    LET line == Append(text[Len(text)], c)
        new  == [text EXCEPT ![Len(text)] = line]
    IN  text' = IF Len(line) < Width THEN new ELSE Visible(Append(new, <<>>))

Clear == text' = <<<<>>>>

Init == text = <<<<>>>>

Next == NewLine \/ Clear \/ \E c \in Chars : Put(c)

Spec == Init /\ [][Next]_text
====
