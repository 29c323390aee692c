------------------------------ MODULE MCGoose ------------------------------
(* Instances of Goose for TLC: files of annotations, and Up sections of    *)
(* plain text.                                                             *)
EXTENDS Goose

Plain(text) == [mark |-> "none", text |-> text]
Annotation(mark) == [mark |-> mark, text |-> <<"--">>]

(* Every annotation, an ordinary statement and an interpolation. *)
MCSections == {Annotation(m) : m \in Marks \ {"none"}}
                \cup {Plain(<<"x", ";">>), Plain(<<"{{">>)}

(* An Up section of literals, comments and semicolons across lines. *)
MCUp == <<Annotation("Up")>>
MCTexts == {Plain(<<>>), Plain(<<"x">>), Plain(<<"x", ";", "x">>),
            Plain(<<"'">>), Plain(<<"--", ";">>), Plain(<<"'", ";", "'", ";">>),
            Plain(<<"--", "'">>), Plain(<<";", "--">>),
            Annotation("Begin"), Annotation("End")}

MCInputs == BoundedSeq(MCSections, 5) \cup {MCUp \o s : s \in BoundedSeq(MCTexts, 4)}

(* A form feed inside a literal. *)
MCFormFeed == {MCUp \o s : s \in
                 BoundedSeq({Plain(<<"x", ";">>), Plain(<<"'", "ff", "'", ";">>)}, 3)}
=============================================================================
