-------------------------------- MODULE Mtk --------------------------------
(***************************************************************************)
(* The exercises of MTK side by side: the expressions of block2 and the    *)
(* language nemo of block3.  One program runs, chosen in the first state;  *)
(* the variables the others have to themselves stay unused.                *)
(***************************************************************************)
EXTENDS Integers

CONSTANTS
    Labs, Sums, Exprs, Names, Envs,  \* of the expressions: see Algebra
    Sources, DeclLists, InitVars     \* of the language: see Nemo

ASSUME MtkAssumption ==
    /\ Labs \subseteq {"lab6", "lab7", "lab8", "lab9", "lab10"}
    /\ "x" \in Names
    /\ Envs \subseteq [Names -> Int]

VARIABLES
    lab,                                     \* the program that runs
    exp, pc, out, acc, env, answer,          \* of block2
    source, decls, phase, body, start, curr  \* of lab12

vars == <<lab, exp, pc, out, acc, env, answer, source, decls, phase, body, start, curr>>

Unused == "unused"

Block2 == INSTANCE Algebra
Lab12 == INSTANCE Nemo

Init ==
    \/ /\ Block2!Init
       /\ source = Unused /\ decls = Unused /\ phase = Unused
       /\ body = Unused /\ start = Unused /\ curr = Unused
    \/ /\ lab = "lab12" /\ Lab12!Init
       /\ exp = Unused /\ pc = Unused /\ out = Unused
       /\ acc = Unused /\ env = Unused /\ answer = Unused

Next ==
    \/ lab # "lab12" /\ Block2!Next /\ UNCHANGED <<source, decls, phase, body, start, curr>>
    \/ lab = "lab12" /\ Lab12!Next /\ UNCHANGED <<lab, exp, pc, out, acc, env, answer>>

Spec == Init /\ [][Next]_vars

-----------------------------------------------------------------------------
(* Properties. *)

\* What nemo's translation and type check promise between any two steps:
\* labels lead somewhere, and what passes the check meets no type error
\* (nemo_transl.flow, nemo_typecheck.flow, vnemo_run.flow).
Inv == lab = "lab12" => Lab12!Inv

\* What a program makes of its input means what the input means.  The
\* instructions of a nemo program can end in the states the program can and
\* in no others (nemo_transl.flow:59-99), and an exploration has found them
\* all, unless it was cut off by a configuration that came to the end before
\* another one (vnemo_run.flow:215).  What block2 makes of an expression has
\* its value, or is its derivative, with two exceptions: lab6 loses count
\* when a right operand is no number (its own example comes to 0), and lab10
\* has a rule that makes 1 of (x - y) * (y + x).
MeaningKept == IF lab = "lab12" THEN Lab12!MeaningKept ELSE Block2!ValueKept

=============================================================================
