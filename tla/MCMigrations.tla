---------------------------- MODULE MCMigrations ----------------------------
(* Instances of Migrations for TLC: six files, two with one version, one  *)
(* without statements, one with a bad name and one with a bad content.     *)
EXTENDS Migrations

MCFiles == {"schema", "index", "empty", "twin", "notes", "broken"}
MCVersion == [f \in MCFiles |-> CASE f = "schema" -> 10 [] f = "index" -> 9
                                  [] f = "empty" -> 11 [] f = "twin" -> 9
                                  [] f = "notes" -> 0 [] f = "broken" -> 12]
MCSize == [f \in MCFiles |-> IF f = "empty" THEN 0 ELSE IF f = "twin" THEN 3 ELSE 2]
=============================================================================
