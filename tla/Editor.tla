------------------------------- MODULE Editor -------------------------------
(***************************************************************************)
(* The line editor of sop1/lab01/editor (sop-ed.c).  The text is not kept  *)
(* in memory: every command reads the file and writes it back, a deletion  *)
(* in two steps, the new text over the old one and then ftruncate.  The    *)
(* user may kill the editor between any two steps and start it again.      *)
(***************************************************************************)
EXTENDS Integers, Sequences, SequencesExt, FiniteSets, FiniteSetsExt

CONSTANTS Chars,      \* characters other than the newline
          MaxLen,     \* bound: length of the file
          MaxLineNo   \* bound: line numbers entered are -1 .. MaxLineNo

VARIABLES
    pc,       \* "command" (line 176), "truncate" (line 100), "ended"
    file,     \* the content of the file
    keep,     \* the length ftruncate will leave
    cmd,      \* history: the last command that changed the file, as a record
    old,      \* history: the content before that command
    cut       \* history: the editor was killed before that command's ftruncate

vars == <<pc, file, keep, cmd, old, cut>>

NL == "\n"
None == [op |-> "none"]
Text(n) == UNION {[1 .. k -> Chars \cup {NL}] : k \in 0 .. n}

Init == /\ pc = "command" /\ keep = 0 /\ cmd = None
        /\ file \in Text(MaxLen) /\ old = file /\ cut = FALSE

\* How many newlines the first i characters contain.
Newlines(f, i) == Cardinality({j \in 1 .. i : f[j] = NL})

\* The loop "while (lines_to_go > 0 ...)": characters read until m lines are over.
HasLines(f, m) == Newlines(f, Len(f)) >= m
SkipLines(f, m) == IF m <= 0 THEN 0
                   ELSE IF HasLines(f, m)
                     THEN Min({i \in 1 .. Len(f) : Newlines(f, i) = m})
                     ELSE Len(f)

-----------------------------------------------------------------------------
(* The commands.                                                           *)

\* A line of input: up to its newline, or to the end of the input.
InputLine(n) == {s \in Text(n) : s # <<>> /\ \A j \in 1 .. Len(s) - 1 : s[j] # NL}

\* append_line: the whole text is written again, with the line at its end.
AppendLine(s) == /\ pc = "command" /\ Len(file) + Len(s) <= MaxLen
                 /\ file' = file \o s
                 /\ cmd' = [op |-> "append", line |-> s] /\ old' = file /\ cut' = FALSE
                 /\ UNCHANGED <<pc, keep>>

\* Mutant: one line too many is skipped.
LinesBeforeLate(k) == k
LinesBefore(k) == k - 1

NotInFile(f, k) == f = <<>> \/ ~HasLines(f, LinesBefore(k))

\* What delete_line collects in new_content.
Deleted(f, k) == LET a == SkipLines(f, LinesBefore(k))
                     rest == SubSeq(f, a + 1, Len(f))
                     b == SkipLines(rest, 1)
                 IN SubSeq(f, 1, a) \o SubSeq(rest, b + 1, Len(rest))

\* delete_line up to its write: the end of the old text is still there.
DeleteLine(k) == LET new == Deleted(file, k) IN
                 /\ pc = "command" /\ ~NotInFile(file, k)
                 /\ file' = new \o SubSeq(file, Len(new) + 1, Len(file))
                 /\ keep' = Len(new) /\ pc' = "truncate"
                 /\ cmd' = [op |-> "delete", no |-> k] /\ old' = file /\ cut' = FALSE

Truncate == /\ pc = "truncate" /\ pc' = "command"
            /\ file' = SubSeq(file, 1, keep)
            /\ keep' = 0
            /\ UNCHANGED <<cmd, old, cut>>

NoSuchLine(k) == /\ pc = "command" /\ NotInFile(file, k)
                 /\ cmd' = [op |-> "delete", no |-> k] /\ old' = file /\ cut' = FALSE
                 /\ UNCHANGED <<pc, file, keep>>

\* read_limits; '%' calls it with 1 and -1.
Invalid == [ok |-> FALSE, text |-> <<>>]
ReadLimits(f, l, r) ==
    LET a == SkipLines(f, l - 1)
        rest == SubSeq(f, a + 1, Len(f))
        b == IF r = -1 THEN Len(rest) ELSE SkipLines(rest, r - l + 1)
    IN  IF l < 1 \/ (r # -1 /\ r < l) \/ f = <<>> \/ ~HasLines(f, l - 1) THEN Invalid
        ELSE [ok |-> TRUE, text |-> SubSeq(rest, 1, b)]

\* 'q', or the end of the input (ERR).
Quit == /\ pc = "command" /\ pc' = "ended"
        /\ UNCHANGED <<file, keep, cmd, old, cut>>

\* The editor is killed before ftruncate; whatever is in the file stays.
Killed == /\ pc = "truncate" /\ pc' = "ended"
          /\ keep' = 0 /\ cut' = TRUE
          /\ UNCHANGED <<file, cmd, old>>

Restart == /\ pc = "ended" /\ pc' = "command"
           /\ UNCHANGED <<file, keep, cmd, old, cut>>

Next == \/ Truncate \/ Quit \/ Killed \/ Restart
        \/ \E s \in InputLine(2) : AppendLine(s)
        \/ \E k \in -1 .. MaxLineNo : DeleteLine(k) \/ NoSuchLine(k)

Spec == Init /\ [][Next]_vars

-----------------------------------------------------------------------------
(* Properties.                                                             *)

\* The j-th smallest number of S.
Nth(S, j) == CHOOSE x \in S : Cardinality({y \in S : y <= x}) = j

\* Reference: a text is a sequence of lines, each with the newline that ends it.
Lines(f) == LET cuts == {0, Len(f)} \cup {i \in 1 .. Len(f) : f[i] = NL}
            IN  [j \in 1 .. Cardinality(cuts) - 1 |->
                    SubSeq(f, Nth(cuts, j) + 1, Nth(cuts, j + 1))]

(* The commands as the comment at line 152 lists them: append puts a line  *)
(* at the end (it goes on a last line without newline), delete takes the   *)
(* line of that number out and leaves a file without such a line alone.    *)
Applied(c, ls) ==
    IF c.op = "append" THEN ls \o <<c.line>>
    ELSE IF c.op = "delete" /\ c.no \in 1 .. Len(ls) THEN RemoveAt(ls, c.no)
    ELSE ls

(* What command c leaves of the text before it.  A kill before ftruncate   *)
(* loses nothing, but the end of the old text still follows the new one.   *)
Left(c) == LET new == FlattenSeq(Applied(c, Lines(old)))
           IN  IF cut THEN new \o SubSeq(old, Len(new) + 1, Len(old)) ELSE new

\* There is no such line, but lines_to_go > 0 fails at once (line 67).
BelowOne == cmd.op = "delete" /\ cmd.no < 1

(* Between two commands the file is what the last command makes of the     *)
(* lines of the file before it, whatever lines are empty or unfinished;    *)
(* after a kill in the middle of a deletion it is that and the end of the  *)
(* old text, and the next command works on the lines of the whole.  A      *)
(* number below 1 deletes the first line.  And read_limits prints exactly  *)
(* the lines from the l-th to the r-th.                                    *)
EditsLines ==
    pc = "command" =>
        /\ file = Left(IF BelowOne THEN [op |-> "delete", no |-> 1] ELSE cmd)
        /\ \A l \in -1 .. MaxLineNo, r \in -1 .. MaxLineNo :
             LET ls == Lines(file)
                 last == IF r = -1 \/ r > Len(ls) THEN Len(ls) ELSE r
             IN  ReadLimits(file, l, r).ok /\ l <= Len(ls) =>
                   ReadLimits(file, l, r).text = FlattenSeq(SubSeq(ls, l, last))

(* What the comment at lines 152-160 says of 'd': the nth line is deleted, *)
(* so a number below 1, which no line has, deletes nothing.                *)
DeletesNthLine == pc = "command" => file = Left(cmd)
=============================================================================
