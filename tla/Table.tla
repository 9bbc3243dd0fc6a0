-------------------------------- MODULE Table ---------------------------------
(***************************************************************************)
(* Bytes as the text of a C++ array, the way both table_outstream of       *)
(* cmd_write_res.cpp and tools/embed.py write them, and as the compiler    *)
(* reads it.  A row starts with a quote and ends with one and a line       *)
(* break; all else in the text is an escape sequence for one byte.         *)
(***************************************************************************)
EXTENDS Integers, Sequences, SequencesExt

CONSTANT row_width    (* bytes in a row: 16 in the code                      *)

TableAssumption == row_width \in Nat \ {0}

Quote == -1
EndQuote == -2

(* The text of some bytes, if so many are written already.                   *)
Rows(bytes, offset) ==
    FlattenSeq([i \in DOMAIN bytes |->
        (IF (offset + i - 1) % row_width = 0 THEN <<Quote>> ELSE <<>>)
        \o <<bytes[i]>>
        \o (IF (offset + i) % row_width = 0 THEN <<EndQuote>> ELSE <<>>)])

(* Mutant: the last row is ended, ended or not.                              *)
Ended_Always(text, offset) == Append(text, EndQuote)

Ended(text, offset) ==
    IF offset % row_width # 0 THEN Append(text, EndQuote) ELSE text

------------------------------------------------------------------------------
(* Literals next to each other are one, whose size is that of the array less *)
(* the zero at its end.                                                      *)

IsText(text) ==
    /\ \A i \in DOMAIN text :
        text[i] = Quote <=> (i = 1 \/ text[i - 1] = EndQuote)
    /\ text = <<>> \/ Last(text) = EndQuote

Bytes(text) ==
    FlattenSeq([i \in DOMAIN text |->
        IF text[i] \in {Quote, EndQuote} THEN <<>> ELSE <<text[i]>>])

==============================================================================
