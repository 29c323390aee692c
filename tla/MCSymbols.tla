------------------------------ MODULE MCSymbols ------------------------------
(***************************************************************************)
(* Two tables, a parent and a child: a plain insert, one whose second row  *)
(* refers to its first, one that refers to the first parent, one that looks*)
(* a parent up by the value the plain insert gave it, and a raw statement. *)
(***************************************************************************)
EXTENDS Symbols

Plain(v) == [form |-> "plain", table |-> "parent", at |-> v]
Ref(t, i) == [form |-> "ref", table |-> t, at |-> i]

MCTable == [parents |-> "parent", child |-> "child", found |-> "child", sql |-> "parent"]

MCRows == [parents |-> <<Plain(7), Ref("parent", 0)>>,
           child   |-> <<Ref("parent", 1)>>,
           found   |-> <<[form |-> "lookup", table |-> "parent", at |-> 7]>>,
           sql     |-> <<>>]

MCOps == DOMAIN MCRows

MCStartup == <<"sql">>
=============================================================================
