------------------------------ MODULE MCBooksRun ------------------------------
EXTENDS BooksRun
CONSTANTS d1, d2

Line(n, amount, balance, sure) ==
    [line |-> n, amount |-> amount, balance |-> balance, sure |-> sure, dated |-> TRUE]
(* a doubtful row between two clean ones *)
Doubtful == <<Line(1, 5, 5, TRUE), Line(2, -2, 3, FALSE), Line(3, 1, 4, TRUE)>>
(* a PDF of two pages *)
TwoPages == <<Line(2, 5, 5, TRUE), Line(1, -2, 3, TRUE)>>
(* a doubtful row ahead of the clean ones *)
Opening == <<Line(1, 4, 4, FALSE), Line(2, 1, 5, TRUE), Line(3, 2, 7, TRUE)>>
(* a balance that cannot be read, and a line that lost its date *)
Faded == <<Line(1, 5, 5, TRUE), Line(2, -2, NoBalance, TRUE), [Line(3, 1, 4, TRUE) EXCEPT !.dated = FALSE]>>
(* no balance to be read *)
Scanned == <<Line(1, 5, NoBalance, TRUE)>>

MCStatements == {Doubtful, TwoPages, Opening, Faded, Scanned}
MCTargets == {<<d1, d2>>, <<d1, d1>>}
=============================================================================
