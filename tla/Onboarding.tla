------------------------------ MODULE Onboarding ------------------------------
(***************************************************************************)
(* What pybuggy contributes to the onboarding session of `pybuggy init`    *)
(* (commands/init/session.py): from the answers of its question block and  *)
(* of the two surveys it asks itself, the amendments of the core answers   *)
(* and the payload of the tool config.                                     *)
(***************************************************************************)
EXTENDS Naturals, Sequences, SequencesExt

CONSTANTS Members,    \* the members of the tool config, in declaration order
          Unasked,    \* those never surveyed: headers and loader
          Numeric,    \* those whose answer must be a number
          SpecNames,  \* names a specification is given
          Axes        \* the pipelines that may run unattended

MemberSet == {Members[i] : i \in DOMAIN Members}

(* The answer to the group about one specification: complete when its      *)
(* name, its type and its location are.  The nth says which it was.        *)
SpecAnswer == [name : SpecNames, complete : BOOLEAN, nth : Nat]

(* The answers of the question block.  An optional member is skipped, or   *)
(* answered with a number or another text.                                 *)
Answers ==
  [image : BOOLEAN,
   scalars : {s \in [MemberSet -> {"skipped", "number", "text"}] :
                \A m \in Unasked : s[m] = "skipped"},
   first : [name : SpecNames, complete : BOOLEAN, nth : {0}]]

(* Bug: a name taken already is taken over. *)
OverSpec(specs, spec) ==
  LET others == SelectSeq(specs, LAMBDA s : s.name # spec.name)
  IN  IF spec.complete THEN Append(others, [name |-> spec.name, nth |-> spec.nth]) ELSE specs

(* Any number of specifications more; a name taken already is skipped.     *)
WithSpec(specs, spec) ==
  IF spec.complete /\ \A i \in DOMAIN specs : specs[i].name # spec.name
  THEN Append(specs, [name |-> spec.name, nth |-> spec.nth])
  ELSE specs

ParseSpecs(first, extras) ==
  LET specs[i \in 0..Len(extras)] ==
        IF i = 0 THEN <<[name |-> first.name, nth |-> first.nth]>>
        ELSE WithSpec(specs[i - 1], extras[i])
  IN  specs[Len(extras)]

(* The payload cannot be built: an incomplete first specification, or an   *)
(* answer that is no number.                                               *)
Raises(answers) == \/ ~answers.first.complete
                   \/ \E m \in Numeric : answers.scalars[m] = "text"

ConfigData(answers, extras, enabled) ==
  [active |-> {m \in MemberSet : answers.scalars[m] # "skipped"},
   axes   |-> enabled,
   specs  |-> ParseSpecs(answers.first, extras)]

(* The Dockerfile is asked for by its path and its base image, together.   *)
Amendments(answers) == [dockerfile |-> answers.image]

(* What the platform is handed, nothing when a step of it raised.          *)
Dropped == [amended |-> [dockerfile |-> FALSE], config |-> <<>>]
Contribution(answers, extras, enabled) ==
  IF Raises(answers) THEN Dropped
  ELSE [amended |-> Amendments(answers),
        config  |-> <<ConfigData(answers, extras, enabled)>>]
=============================================================================
