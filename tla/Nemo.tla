-------------------------------- MODULE Nemo --------------------------------
(***************************************************************************)
(* MTK/block3: the language nemo, whose statements may choose and repeat   *)
(* at will.  A source is parsed into trees (nemo_ast.flow), checked for    *)
(* types (nemo_typecheck.flow), translated into instructions that name     *)
(* the sets of labels to go on with (nemo_transl.flow), and run, all       *)
(* configurations at once (vnemo_run.flow).                                *)
(*                                                                         *)
(* Trees are records with a kind k.  A type is the depth of the array: 0   *)
(* for an int.  Lists of labels, of which only the members matter, are     *)
(* sets.  The texts of messages and prints are left out, and ints are not  *)
(* cut to 32 bits.  What a program means is said by Meaning, on the trees  *)
(* of the source, without labels.                                          *)
(***************************************************************************)
EXTENDS Integers, SequencesExt

CONSTANTS
    Sources,    \* statements as they are written, "ifelse" and "while" included
    DeclLists,  \* lists of declarations, each with a var and a type
    InitVars    \* variables a caller of runVnemo may have set, with their values

VARIABLES
    source,  \* the statement as it is written
    decls,   \* prog.decls
    phase,   \* "parsed", "checked", "errors", "translated", "run", "done", "crash"
    body,    \* the instructions
    start,   \* the first state
    curr     \* the configurations that are explored

vars == <<source, decls, phase, body, start, curr>>

-----------------------------------------------------------------------------
(* Values and expressions.  vmEval answers a value or one of the ways it   *)
(* fails: None, in silence or reported, or the end of the process.         *)

IntVal(n) == [int |-> n]
ArrVal(a) == [arr |-> a]
None == [none |-> "silent"]     \* an index behind the end of an array
Wrong == [none |-> "reported"]  \* not of the type the operation needs
Stop == [none |-> "stopped"]    \* an index below 0, a division by 0
IsInt(v) == "int" \in DOMAIN v
IsArr(v) == "arr" \in DOMAIN v

\* The values of a Maybe.
Some(maybe) == {maybe} \ {None, Wrong, Stop}

\* maybeBind2: what an operation on the operands vs comes to when all of them
\* have been evaluated; their failures first, then its own.
Bind(vs, ok, outcome) ==
    CASE Stop \in vs -> Stop
      [] Stop \notin vs /\ Wrong \in vs -> Wrong
      [] {Stop, Wrong} \intersect vs = {} /\ None \in vs -> None
      [] {Stop, Wrong, None} \intersect vs = {} /\ ~ok -> Wrong
      [] OTHER -> outcome

Quotient(x, y) ==
    LET a == IF x < 0 THEN -x ELSE x
        b == IF y < 0 THEN -y ELSE y
    IN  IF (x < 0) = (y < 0) THEN a \div b ELSE -(a \div b)

\* apply_bin_op: "%" is parsed, but no operation is behind it.
ApplyBin(op, x, y) ==
    CASE op = "+" -> IntVal(x + y)
      [] op = "*" -> IntVal(x * y)
      [] op = "-" -> IntVal(x - y)
      [] op = "/" -> IF y = 0 THEN Stop ELSE IntVal(Quotient(x, y))
      [] OTHER -> IntVal(0)

\* The array with v at i: None behind its end, itself below 0.
Update(a, i, v) ==
    CASE i < Len(a) -> ArrVal([j \in DOMAIN a |-> IF j = i + 1 THEN v ELSE a[j]])
      [] i = Len(a) -> ArrVal(Append(a, v))
      [] OTHER -> None

Apply(a, i) ==
    CASE i < 0 -> Stop
      [] i \in 0 .. Len(a) - 1 -> a[i + 1]
      [] OTHER -> None

\* An update evaluates its array and index only when it has a value.
RECURSIVE VmEval(_, _)
VmEval(e, state) ==
    CASE e.k = "int" -> IntVal(e.val)
      [] e.k = "var" -> IF e.name \in DOMAIN state THEN state[e.name] ELSE Wrong
      [] e.k = "un" -> LET x == VmEval(e.e, state)
                       IN  Bind({x}, IsInt(x), IntVal(-x.int))
      [] e.k = "bin" -> LET x == VmEval(e.l, state)
                            y == VmEval(e.r, state)
                        IN  Bind({x, y}, IsInt(x) /\ IsInt(y), ApplyBin(e.op, x.int, y.int))
      [] e.k = "app" -> LET a == VmEval(e.arr, state)
                            i == VmEval(e.ind, state)
                        IN  Bind({a, i}, IsArr(a) /\ IsInt(i), Apply(a.arr, i.int))
      [] e.k = "upd" -> LET v == VmEval(e.val, state)
                            a == VmEval(e.arr, state)
                            i == VmEval(e.ind, state)
                        IN  IF Some(v) = {} THEN v
                            ELSE Bind({a, i}, IsArr(a) /\ IsInt(i), Update(a.arr, i.int, v))

CondOp(op, x, y) ==
    CASE op = "==" -> x = y
      [] op = "!=" -> x # y
      [] op = "<=" -> x <= y
      [] op = ">=" -> x >= y
      [] op = "<" -> x < y
      [] op = ">" -> x > y

VmEvalCond(op, e1, e2, state) ==
    LET x == VmEval(e1, state)
        y == VmEval(e2, state)
    IN  Bind({x, y}, IsInt(x) /\ IsInt(y), [bool |-> CondOp(op, x.int, y.int)])

-----------------------------------------------------------------------------
(* Statements, as the parser makes them. *)

Assign(v, e) == [k |-> "assign", var |-> v, exp |-> e]
Test(op, l, r) == [k |-> "test", op |-> op, l |-> l, r |-> r]
PrintOf(e) == [k |-> "print", e |-> e]
Block(ss) == [k |-> "seq", ss |-> ss]
Choice(ss) == [k |-> "choice", ss |-> ss]
Loop(s) == [k |-> "loop", body |-> s]
IfElse(op, l, r, s1, s2) ==
    [k |-> "ifelse", op |-> op, l |-> l, r |-> r, s1 |-> s1, s2 |-> s2]
While(op, l, r, s) == [k |-> "while", op |-> op, l |-> l, r |-> r, s |-> s]

NegOp(op) ==
    CASE op = "!=" -> "==" [] op = "==" -> "!="
      [] op = "<" -> ">=" [] op = ">" -> "<="
      [] op = "<=" -> ">" [] op = ">=" -> "<"

\* s2nm: createSeq, createChoice, createIfElse, createWhile
RECURSIVE Parsed(_)
Parsed(s) ==
    CASE s.k \in {"seq", "choice"} -> [s EXCEPT !.ss = [i \in DOMAIN @ |-> Parsed(@[i])]]
      [] s.k = "loop" -> Loop(Parsed(s.body))
      [] s.k = "ifelse" ->
           Choice(<<Block(<<Test(s.op, s.l, s.r), Parsed(s.s1)>>),
                    Block(<<Test(NegOp(s.op), s.l, s.r), Parsed(s.s2)>>)>>)
      [] s.k = "while" ->
           Block(<<Loop(Block(<<Test(s.op, s.l, s.r), Parsed(s.s)>>)),
                   Test(NegOp(s.op), s.l, s.r)>>)
      [] OTHER -> s

-----------------------------------------------------------------------------
(* nemo_typecheck.flow *)

NoType == -1

\* Mutant: what is put into an array may have any type.
Fits_Any(update, array) == update # NoType

\* The type of an update is that of the array's values.
Fits(update, array) == update = array - 1

\* evalNmType: NoType wherever an error was reported.
RECURSIVE EvalNmType(_, _)
EvalNmType(e, types) ==
    CASE e.k = "int" -> 0
      [] e.k = "var" -> IF e.name \in DOMAIN types THEN types[e.name] ELSE NoType
      [] e.k = "un" -> IF EvalNmType(e.e, types) = 0 THEN 0 ELSE NoType
      [] e.k = "bin" ->
           IF EvalNmType(e.l, types) = 0 /\ EvalNmType(e.r, types) = 0 THEN 0 ELSE NoType
      [] e.k = "app" ->
           LET a == EvalNmType(e.arr, types)
           IN  IF a > 0 /\ EvalNmType(e.ind, types) = 0 THEN a - 1 ELSE NoType
      [] e.k = "upd" ->
           LET a == EvalNmType(e.arr, types)
           IN  IF a > 0 /\ EvalNmType(e.ind, types) = 0
                  /\ Fits(EvalNmType(e.val, types), a) THEN a ELSE NoType

\* typecheckNmStat reports nothing.
RECURSIVE WellTyped(_, _)
WellTyped(s, types) ==
    CASE s.k = "assign" -> s.var \in DOMAIN types /\ EvalNmType(s.exp, types) = types[s.var]
      [] s.k = "test" -> EvalNmType(s.l, types) = 0 /\ EvalNmType(s.r, types) = 0
      [] s.k \in {"seq", "choice"} -> \A i \in DOMAIN s.ss : WellTyped(s.ss[i], types)
      [] s.k = "loop" -> WellTyped(s.body, types)
      [] s.k = "print" -> EvalNmType(s.e, types) # NoType

\* nmProgTypedecls: the last declaration of a variable counts, but a second
\* one is an error.
NmProgTypedecls(ds) ==
    [v \in {d.var : d \in Range(ds)} |-> SelectLastInSeq(ds, LAMBDA d : d.var = v)]

Types(ds) == [v \in DOMAIN NmProgTypedecls(ds) |-> ds[NmProgTypedecls(ds)[v]].type]

Duplicate(ds) == \E i, j \in DOMAIN ds : i # j /\ ds[i].var = ds[j].var

-----------------------------------------------------------------------------
(* nemo_transl.flow: label Len(body) is the end of a body. *)

VNmAssign(var, val, goto) == [k |-> "assign", var |-> var, val |-> val, goto |-> goto]
VNmIf(op, l, r, pos, neg) ==
    [k |-> "if", op |-> op, l |-> l, r |-> r, pos |-> pos, neg |-> neg]
VNmPrint(e, goto) == [k |-> "print", e |-> e, goto |-> goto]
Zero == [k |-> "int", val |-> 0]
Fork(goto) == VNmIf("==", Zero, Zero, goto, {})

Labels(s) == IF s.k = "if" THEN s.pos \union s.neg ELSE s.goto

MaxVmLabel(ss) == Max(UNION {Labels(ss[i]) : i \in DOMAIN ss} \union {-1})

Relabelled(ss, F(_)) ==
    [i \in DOMAIN ss |->
       IF ss[i].k = "if"
          THEN [ss[i] EXCEPT !.pos = {F(l) : l \in @}, !.neg = {F(l) : l \in @}]
          ELSE [ss[i] EXCEPT !.goto = {F(l) : l \in @}]]

AddVmLabel(ss, n) == Relabelled(ss, LAMBDA l : l + n)

ReplaceVmLabel(ss, n, m) == Relabelled(ss, LAMBDA l : IF l = n THEN m ELSE l)

RECURSIVE NmStat2vnmStat(_)
NmStat2vnmStat(s) ==
    LET Placed(acc, t) ==
            LET vs == NmStat2vnmStat(t)
                end == acc.max_lab + MaxVmLabel(vs)
            IN  [stats |-> Append(acc.stats, AddVmLabel(vs, acc.max_lab)),
                 starts |-> acc.starts \union {acc.max_lab},
                 ends |-> Append(acc.ends, end),
                 max_lab |-> end]
        From(n) == [stats |-> <<>>, starts |-> {}, ends |-> <<>>, max_lab |-> n]
    IN
    CASE s.k = "assign" -> <<VNmAssign(s.var, s.exp, {1})>>
      [] s.k = "print" -> <<VNmPrint(s.e, {1})>>
      [] s.k = "test" -> <<VNmIf(s.op, s.l, s.r, {1}, {})>>
      [] s.k = "seq" -> FlattenSeq(FoldLeft(Placed, From(0), s.ss).stats)
      [] s.k = "choice" ->
           LET choices == FoldLeft(Placed, From(1), s.ss)
           IN  <<Fork(choices.starts)>> \o
               FlattenSeq([i \in DOMAIN choices.stats |->
                             ReplaceVmLabel(choices.stats[i], choices.ends[i],
                                            choices.max_lab)])
      [] s.k = "loop" ->
           LET vs == AddVmLabel(NmStat2vnmStat(s.body), 1)
               size == MaxVmLabel(vs)
           IN  <<Fork({1, size})>> \o ReplaceVmLabel(vs, size, 0)

-----------------------------------------------------------------------------
(* vnemo_run.flow *)

Conf(lab, state) == [lab |-> lab, state |-> state]

\* What the expression or the condition of an instruction comes to.
Outcome(s, state) ==
    CASE s.k = "assign" -> VmEval(s.val, state)
      [] s.k = "if" -> VmEvalCond(s.op, s.l, s.r, state)
      [] s.k = "print" -> VmEval(s.e, state)

VmStep(conf) ==
    LET s == body[conf.lab + 1]
        out == Some(Outcome(s, conf.state))
    IN  CASE s.k = "assign" ->
               {Conf(l, [conf.state EXCEPT ![s.var] = v]) : l \in s.goto, v \in out}
          [] s.k = "if" ->
               {Conf(l, conf.state) : l \in UNION {IF b.bool THEN s.pos ELSE s.neg : b \in out}}
          [] s.k = "print" -> {Conf(l, conf.state) : l \in IF out = {} THEN {} ELSE s.goto}

MakeDefaultValue(type) == IF type = 0 THEN IntVal(0) ELSE ArrVal(<<>>)

AtEnd(conf) == conf.lab = Len(body)

\* The step of conf ends the process: it looks for an instruction behind the
\* last one, or at an index or a quotient there is not.
Breaks(conf) == AtEnd(conf) \/ Outcome(body[conf.lab + 1], conf.state) = Stop

\* The condition of the for: some configuration is not at the end.
GoesOn == {conf \in curr : ~AtEnd(conf)} # {}

Breaking == {conf \in curr : Breaks(conf)}

-----------------------------------------------------------------------------
(* main of lab12.flow, and a call of runVnemo. *)

Init ==
    /\ source \in Sources
    /\ decls \in DeclLists
    /\ phase = "parsed"
    /\ body = <<>>
    /\ start = <<>>
    /\ curr = {}

TypecheckNmProgram ==
    /\ phase = "parsed"
    /\ phase' = IF Duplicate(decls) \/ ~WellTyped(Parsed(source), Types(decls))
                   THEN "errors" ELSE "checked"
    /\ UNCHANGED <<source, decls, body, start, curr>>

Nm2vnm ==
    /\ phase = "checked"
    /\ phase' = "translated"
    /\ body' = NmStat2vnmStat(Parsed(source))
    /\ UNCHANGED <<source, decls, start, curr>>

\* The first state: what the caller has set, and defaults.
RunVnemo ==
    /\ phase = "translated"
    /\ phase' = "run"
    /\ \E init \in InitVars :
         start' = [v \in DOMAIN Types(decls) |->
                     IF v \in DOMAIN init THEN init[v] ELSE MakeDefaultValue(Types(decls)[v])]
    /\ curr' = {Conf(0, start')}
    /\ UNCHANGED <<source, decls, body>>

\* One round of the exploration: every configuration makes its step.
Explore ==
    /\ phase = "run" /\ GoesOn /\ Breaking = {}
    /\ curr' = UNION {VmStep(conf) : conf \in curr}
    /\ UNCHANGED <<source, decls, phase, body, start>>

Crash ==
    /\ phase = "run" /\ GoesOn /\ Breaking # {}
    /\ phase' = "crash"
    /\ UNCHANGED <<source, decls, body, start, curr>>

Finish ==
    /\ phase = "run" /\ ~GoesOn
    /\ phase' = "done"
    /\ UNCHANGED <<source, decls, body, start, curr>>

Next == TypecheckNmProgram \/ Nm2vnm \/ RunVnemo \/ Explore \/ Crash \/ Finish

Spec == Init /\ [][Next]_vars

-----------------------------------------------------------------------------
(* What a program means: the states in which it may end. *)

Values(e, state) == Some(VmEval(e, state))
Holds(op, l, r, state) ==
    [bool |-> TRUE] = VmEvalCond(op, l, r, state)
Fails(op, l, r, state) ==
    [bool |-> FALSE] = VmEvalCond(op, l, r, state)

RECURSIVE Meaning(_, _), Repeated(_, _)
\* The states in which s may end when it begins in one of states.
Meaning(s, states) ==
    CASE s.k = "assign" ->
           UNION {{[t EXCEPT ![s.var] = v] : v \in Values(s.exp, t)} : t \in states}
      [] s.k = "test" -> {t \in states : Holds(s.op, s.l, s.r, t)}
      [] s.k = "print" -> {t \in states : Values(s.e, t) # {}}
      [] s.k = "seq" -> FoldLeft(LAMBDA ts, u : Meaning(u, ts), states, s.ss)
      [] s.k = "choice" -> UNION {Meaning(s.ss[i], states) : i \in DOMAIN s.ss}
      [] s.k = "loop" -> Repeated(s.body, states)
      [] s.k = "ifelse" ->
           Meaning(s.s1, {t \in states : Holds(s.op, s.l, s.r, t)})
             \union Meaning(s.s2, {t \in states : Fails(s.op, s.l, s.r, t)})
      [] s.k = "while" ->
           {t \in Repeated(Block(<<Test(s.op, s.l, s.r), s.s>>), states) :
              Fails(s.op, s.l, s.r, t)}
Repeated(s, states) ==
    LET more == states \union Meaning(s, states)
    IN  IF more = states THEN states ELSE Repeated(s, more)

\* All configurations that steps lead to from confs, whenever they come.
RECURSIVE Reached(_)
Reached(confs) ==
    LET more == confs \union UNION {VmStep(c) : c \in {d \in confs : ~Breaks(d)}}
    IN  IF more = confs THEN confs ELSE Reached(more)

Ends(confs) == {c.state : c \in {d \in confs : AtEnd(d)}}

-----------------------------------------------------------------------------
(* Properties. *)

RECURSIVE HasType(_, _)
HasType(v, type) ==
    IF type = 0 THEN IsInt(v)
                ELSE IsArr(v) /\ \A i \in DOMAIN v.arr : HasType(v.arr[i], type - 1)

\* Labels lead to an instruction or to the end, which is reached by one at
\* least (nmStat2vnmStat).
LabelsWhole ==
    body # <<>> => MaxVmLabel(body) = Len(body)
                   /\ \A i \in DOMAIN body : Labels(body[i]) \subseteq 0 .. Len(body)

\* A program without type errors runs without type errors: every variable
\* keeps its type, and no operation meets a value of another one
\* (typecheckNmStat, evalNmType against vmEval, vmEvalCond).
TypedStaysTyped ==
    \A c \in curr :
        /\ \A v \in DOMAIN c.state : HasType(c.state[v], Types(decls)[v])
        /\ ~AtEnd(c) => Outcome(body[c.lab + 1], c.state) # Wrong

\* The phases, and the labels and types above.
Inv ==
    /\ phase \in {"parsed", "checked", "errors", "translated", "run", "done", "crash"}
    /\ phase \in {"parsed", "checked", "errors"} => body = <<>> /\ curr = {}
    /\ LabelsWhole
    /\ TypedStaysTyped

\* The instructions of a program can end in the states it means and in no
\* others, whatever choices and loops are inside each other (nm2vnm); and an
\* exploration that comes to its end has found all of them, although a
\* configuration that was over first would have ended the process (runVnemo).
MeaningKept ==
    /\ phase = "run" /\ curr = {Conf(0, start)} =>
         Ends(Reached(curr)) = Meaning(source, {start})
    /\ phase = "done" => Ends(curr) = Meaning(source, {start})

=============================================================================
