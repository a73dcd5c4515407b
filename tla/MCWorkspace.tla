----------------------------- MODULE MCWorkspace -----------------------------
EXTENDS Workspace

\* No line; no final newline; a lone CR; CRLF throughout; mixed, three lines.
SmallEndings == {<<>>, <<"none">>, <<"cr", "crlf">>, <<"crlf", "crlf">>, <<"lf", "crlf", "none">>}

\* Others leave the file empty, or with two lines or one byte.
SmallRewrites == {TextFile(FALSE, <<>>), TextFile(TRUE, <<"lf", "lf">>), BinaryFile(1)}

File(hits) == [kind |-> "file", hits |-> hits]
Damaged    == [kind |-> "damaged", hits |-> 1]
Folder     == [kind |-> "dir", hits |-> 0]
Bad        == [kind |-> "bad", hits |-> 0]

\* Nothing; more matches than asked for; a damaged file between two others; an
\* entry that cannot be read behind a match.
SmallTrees == {<<>>, <<Folder, File(2), File(1)>>, <<File(1), Damaged, File(0), File(1)>>,
               <<File(1), Bad>>}

\* A timeout that is refused, no deadline, a short one, and none given.
SmallTimeouts == {-2, -1, 1, Absent}
=============================================================================
