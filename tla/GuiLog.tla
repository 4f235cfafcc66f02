------------------------------- MODULE GuiLog -------------------------------
(***************************************************************************)
(* tic_gui.py's reading of a captured console: lines are split at single   *)
(* spaces, the first six fields are t1 and t4, the first line with fewer   *)
(* than six fields ends the reading.  A line is a sequence of the tokens   *)
(* that CalMaster prints; a stamp is three fields, "sec ns ps".            *)
(***************************************************************************)
EXTENDS Integers, SequencesExt

Stamps    == {"t1", "resp", "t4"}  \* numbers
LineEnds  == {"t4", "err", "hdr"}  \* tokens whose printf ends the line

FieldsOf(token) ==
  CASE token.kind \in Stamps -> 3
    [] token.kind = "err" -> 7        \* "fsm for %s: Error %i in %s"
    [] token.kind = "hdr" -> 12       \* "### note t4.phase already corrected ...", 12 and more

\* The console before and after a token: the complete lines, and the line
\* that is still open.
PrintToken(con, token) ==
  IF token.kind \in LineEnds
    THEN [log |-> Append(con.log, Append(con.line, token)), line |-> <<>>]
    ELSE [con EXCEPT !.line = Append(@, token)]

\* A text is printed token by token.
Printed(con, text) ==
  LET upto[n \in 0 .. Len(text)] ==
        IF n = 0 THEN con ELSE PrintToken(upto[n - 1], text[n])
  IN  upto[Len(text)]

\* The captured file: its last line may lack an end of line.
Captured(con) == IF con.line = <<>> THEN con.log ELSE Append(con.log, con.line)

\* The length of line.split(" "): a stamp that ends an open line leaves an
\* empty field behind it.
FieldCount(line) ==
  LET upto[n \in 0 .. Len(line)] ==
        IF n = 0 THEN (IF Last(line).kind \in LineEnds THEN 0 ELSE 1)
        ELSE upto[n - 1] + FieldsOf(line[n])
  IN  upto[Len(line)]

\* The lines read: up to the first one that is too short.
Read(file) ==
  LET short == {i \in DOMAIN file : FieldCount(file[i]) < 6}
  IN IF short = {} THEN file ELSE SubSeq(file, 1, Min(short) - 1)

\* float64() raises on a field that is no number: the script ends.
Raises(file) ==
  \E line \in Range(Read(file)) : line[1].kind \notin Stamps \/ line[2].kind \notin Stamps

Row(line) == [t1 |-> line[1], t4 |-> line[2]]

\* Slip: the fields of t1 are read twice.
Rows_copied(file) ==
  IF Raises(file) THEN <<>>
  ELSE [i \in DOMAIN Read(file) |-> [t1 |-> Read(file)[i][1], t4 |-> Read(file)[i][1]]]

\* gui_data: for each line read, what is taken for t1 and for t4.
Rows(file) ==
  IF Raises(file) THEN <<>> ELSE [i \in DOMAIN Read(file) |-> Row(Read(file)[i])]
=============================================================================
