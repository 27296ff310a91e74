------------------------------ MODULE Preview ------------------------------
(***************************************************************************)
(* What a file preview of the browser console shows (console.rs): the     *)
(* lines kept with a search result, the range of the file that a view     *)
(* reads, and the part of it that fits the reply.  A text is a set of     *)
(* lines, shown in the order of their numbers; of a line only its length  *)
(* matters and the length of its characters, which are all alike.         *)
(***************************************************************************)
EXTENDS Integers, FiniteSets

CONSTANTS
    MaxLines,      \* MAX_PREVIEW_LINES
    MaxBytes,      \* MAX_PREVIEW_BYTES
    MaxFileBytes,  \* max_file_bytes
    ReadLimit      \* MAX_BOUNDED_TEXT_READ_BYTES

ASSUME PreviewAssumption ==
    /\ MaxLines \in Nat \ {0} /\ MaxBytes \in Nat \ {0}
    /\ MaxFileBytes \in Nat /\ ReadLimit \in Nat

Views == {"match", "window", "document"}
Lines == [n : Nat \ {0}, bytes : Nat, width : 1 .. MaxBytes]
IsText(lines) ==
    /\ lines \subseteq Lines /\ IsFiniteSet(lines)
    /\ \A k, l \in lines : k.n = l.n => k = l
IsFile(lines) == IsText(lines) /\ {l.n : l \in lines} = 1 .. Cardinality(lines)

TotalBytes(lines) == Cardinality(UNION {{l.n} \X (1 .. l.bytes) : l \in lines})
Above(lines, l) == {k \in lines : k.n < l.n}
Smaller(a, b) == IF a < b THEN a ELSE b
Larger(a, b) == IF a < b THEN b ELSE a
Distance(a, b) == Larger(a - b, b - a)

\* truncate_utf8: what fits room, up to a boundary between characters.
Truncated(l, room) ==
    IF l.bytes <= room THEN l ELSE [l EXCEPT !.bytes = room - (room % l.width)]

\* The context of a search result, with the matched line itself.
ContextLines(entry) ==
    entry.context \cup
        {l \in entry.text : \A k \in entry.context : k.n # entry.at}

\* The matched line comes first, then the others by their distance from it.
Nearer(entry, k, l) ==
    LET dk == Distance(k.n, entry.at) dl == Distance(l.n, entry.at)
    IN  dk < dl \/ (dk = dl /\ k.n < l.n)
Place(entry, l) == Cardinality({k \in ContextLines(entry) : Nearer(entry, k, l)})
Places(entry) == 1 .. Cardinality(ContextLines(entry))
Nearest(entry) ==
    [i \in Places(entry) |-> CHOOSE l \in ContextLines(entry) : Place(entry, l) = i - 1]

\* The bytes that are left when the nearest i lines have been kept.
Room(entry) ==
    LET room[i \in Places(entry) \cup {0}] ==
            IF i = 0 THEN MaxBytes
            ELSE room[i - 1] - Truncated(Nearest(entry)[i], room[i - 1]).bytes
    IN  room

\* What issue_entry_preview_handles_in_map keeps of a result: the nearest lines,
\* until there are enough of them or no byte is left.
MatchLines(entry) ==
    LET near == Nearest(entry)
        room == Room(entry)
        kept == {i \in Places(entry) : i <= MaxLines /\ room[i - 1] > 0}
    IN  [lines |-> {Truncated(near[i], room[i - 1]) : i \in kept},
         cut |-> \E i \in Places(entry) : i \notin kept \/ near[i].bytes > room[i - 1]]

StartLine(view, at) ==
    CASE view = "document" -> 1
      [] view = "window" -> Larger(1, at - (MaxLines \div 2))
      [] view = "match" -> at

\* Mutant: a document is read up to the last line that can be shown.
EndLineExact(view, at) == StartLine(view, at) + MaxLines - 1

\* A document is read one line further than it can be shown, so that a longer
\* one is noticed.
EndLine(view, at) ==
    IF view = "document" THEN MaxLines + 1 ELSE StartLine(view, at) + MaxLines - 1

\* The size of lines in the file, each with its line break.
Size(lines) == TotalBytes(lines) + Cardinality(lines)

\* LocalBackend::read_text: the range, unless the file, or what is read of it up
\* to the end of the range, is too large.
InRange(file, start, end) ==
    LET upto == {l \in file : l.n <= Larger(start, end)}
    IN  IF Size(file) > MaxFileBytes \/ Size(upto) > ReadLimit
        THEN [ok |-> FALSE, lines |-> {}]
        ELSE [ok |-> TRUE, lines |-> {l \in upto : l.n >= start}]

ReadView(file, view, at) == InRange(file, StartLine(view, at), EndLine(view, at))

\* bounded_preview: the lines that fit the reply whole, what fits of the next one,
\* and whether anything is missing.
Whole(lines) ==
    {l \in lines : /\ Cardinality(Above(lines, l)) < MaxLines
                   /\ TotalBytes(Above(lines, l) \cup {l}) <= MaxBytes}
Partial(lines) ==
    LET rest == {l \in lines \ Whole(lines) :
                    Above(lines, l) \subseteq Whole(lines) /\ Cardinality(Whole(lines)) < MaxLines}
    IN  {k \in {Truncated(l, MaxBytes - TotalBytes(Whole(lines))) : l \in rest} : k.bytes > 0}
Bounded(lines, cut) ==
    [lines |-> Whole(lines) \cup Partial(lines), cut |-> cut \/ Whole(lines) # lines]
=============================================================================
