--------------------------- MODULE MCBrowserTasks ---------------------------
(* Contents, results and replies for the model checker. *)
EXTENDS BrowserTasks

Line(n, chars, width) == [n |-> n, bytes |-> chars * width, width |-> width]
Short == {Line(1, 1, 1), Line(2, 1, 1)}
Long == {Line(1, 1, 1), Line(2, 1, 1), Line(3, 3, 2)}
Huge == {Line(1, 9, 1), Line(2, 3, 2), Line(3, 2, 1)}
MCFiles == {Short, Long, Huge}

Result(file, at, context, text) ==
    [eligible |-> TRUE, file |-> file, at |-> at, context |-> context, text |-> text]
Named == Result(Long, 2, {}, {})
Folder == [Named EXCEPT !.eligible = FALSE]
Heavy == Result(Huge, 3, {Line(1, 1, 1), Line(2, 3, 2)}, {Line(3, 2, 1)})
Tiny == Result(Short, 1, {Line(1, 1, 1), Line(2, 1, 1)}, {})
MCBatches == {<<Folder, Heavy, Named, Tiny>>, <<Tiny>>}
=============================================================================
