------------------------------- MODULE MCMtk -------------------------------
(* The run of Mtk: expressions up to two operations deep and the examples  *)
(* of the sources for block2, and for lab12 small statements around one    *)
(* int, one array and one array of arrays.                                 *)
EXTENDS Mtk, TLC, Sequences

-----------------------------------------------------------------------------
(* block2 *)

\* The trees alone.
Trees == INSTANCE Algebra WITH Labs <- {}, Sums <- {}, Exprs <- {}, Names <- {}, Envs <- {}

Arith(ls, rs) ==
    {Trees!Add(l, r) : l \in ls, r \in rs} \union {Trees!Sub(l, r) : l \in ls, r \in rs}
    \union {Trees!Mult(l, r) : l \in ls, r \in rs} \union {Trees!Div(l, r) : l \in ls, r \in rs}
Negatives(es) == {Trees!Neg(e) : e \in es}
XY == {Trees!x, Trees!y}
Leaves == XY \union {Trees!Number(n) : n \in 0 .. 2}
OneDeep == Arith(Leaves, Leaves) \union Negatives(Leaves)
TwoDeep ==
    Arith(OneDeep, Leaves) \union Arith(Leaves, OneDeep) \union Negatives(OneDeep)
    \union Arith(Arith(XY, XY), Arith(XY, XY))
    \union Arith(Negatives(Leaves), Negatives(Leaves))

\* A quotient of lab9.flow and the difference it has commented out.
Quotients ==
    LET N(n) == Trees!Number(n)
        A == Trees!Add(Trees!a, N(1))
        X == Trees!x
    IN  {Trees!Div(Trees!Mult(Trees!Div(A, Trees!Mult(N(7), Trees!y)),
                                Trees!Div(Trees!Add(N(7), Trees!Mult(N(6), Trees!y)), X)),
                    Trees!Div(Trees!Mult(N(3), A), Trees!Mult(X, X))),
         Trees!Sub(Trees!Div(Trees!Sub(Trees!Mult(N(9), Trees!Mult(X, X)), N(4)),
                               Trees!Add(Trees!Mult(N(3), X), N(2))),
                    Trees!Mult(N(3), X))}

MCExprs == Leaves \union OneDeep \union TwoDeep \union Quotients
           \union {Trees!Rules[i][1] : i \in DOMAIN Trees!Rules}

SumsOver(ls, rs) ==
    {Trees!Add(l, r) : l \in ls, r \in rs} \union {Trees!Mult(l, r) : l \in ls, r \in rs}
Digits == {Trees!Number(n) : n \in {2, 3, 5}}
Pairs == SumsOver(Digits, Digits)
MCSums == Digits \union Pairs \union SumsOver(Pairs, Digits) \union SumsOver(Digits, Pairs)
          \union SumsOver(Pairs, Pairs) \union SumsOver(SumsOver(Pairs, Digits), Digits)

MCNames == {"x", "y", "z", "a", "b"}
MCEnvs ==
    {[v \in MCNames |-> CASE v = "x" -> i [] v = "y" -> j [] OTHER -> i + j + 2] :
       i, j \in {-1, 0, 2, 3}}

-----------------------------------------------------------------------------
(* lab12 *)

Syntax == INSTANCE Nemo WITH Sources <- {}, DeclLists <- {}, InitVars <- {}

Assign(v, e) == Syntax!Assign(v, e)
Test(op, l, r) == Syntax!Test(op, l, r)
PrintOf(e) == Syntax!PrintOf(e)
Block(ss) == Syntax!Block(ss)
Choice(ss) == Syntax!Choice(ss)
Loop(s) == Syntax!Loop(s)
IfElse(op, l, r, s1, s2) == Syntax!IfElse(op, l, r, s1, s2)
While(op, l, r, s) == Syntax!While(op, l, r, s)
IntVal(n) == Syntax!IntVal(n)
ArrVal(vs) == Syntax!ArrVal(vs)
Var(v) == [k |-> "var", name |-> v]
Num(n) == [k |-> "int", val |-> n]
Neg(e) == [k |-> "un", e |-> e]
Bin(op, l, r) == [k |-> "bin", op |-> op, l |-> l, r |-> r]
App(a, i) == [k |-> "app", arr |-> a, ind |-> i]
Upd(a, i, v) == [k |-> "upd", arr |-> a, ind |-> i, val |-> v]

\* Expressions, well typed or not, up to two operations deep.
Atoms == {Var("x"), Var("a"), Var("m"), Var("u"), Num(0), Num(1)}
Over(es, fs) ==
    {Neg(e) : e \in es} \union {Bin(op, e, f) : op \in {"-", "/"}, e \in es, f \in fs}
    \union {App(e, f) : e \in es, f \in fs}
Once == Over(Atoms, Atoms) \union {Upd(e, f, g) : e, f, g \in Atoms}
Twice == Over(Once, {Var("x")}) \union {Upd(Var("m"), Num(0), e) : e \in Once}
         \union {Upd(Var("a"), e, Num(1)) : e \in Once}
\* One operand fails in silence, the other one stops the process.
Failing == {App(Var("a"), Num(1)), Bin("/", Num(1), Num(0))}
Failures == Over(Failing, Failing) \union {Upd(Var("a"), e, f) : e, f \in Failing}
Exps == Atoms \union Once \union Twice \union Failures

Lines == {Assign(v, e) : v \in {"x", "a", "m"}, e \in Exps}
         \union {PrintOf(e) : e \in Atoms \union Once}
         \union {Test("<", e, f) : e \in Atoms \union Once, f \in Atoms}

\* Statements that loop and choose, over variables that stay small.
Steps == {Assign("x", Bin("-", Num(1), Var("x"))),
          Assign("a", Upd(Var("a"), Var("x"), Var("x"))),
          Test("<", Var("x"), Num(1)),
          PrintOf(App(Var("a"), Var("x")))}
Nested(ss) ==
    {Block(<<s, t>>) : s, t \in ss} \union {Choice(<<s, t>>) : s, t \in ss}
    \union {Loop(s) : s \in ss}
    \union {IfElse("<=", Var("x"), Num(0), s, t) : s, t \in ss}
    \union {While("!=", Var("x"), Num(1), s) : s \in ss}
Control == Nested(Steps)
           \union {Choice(<<s, t, u>>) : s, t, u \in Steps}
           \union {Block(<<s, t, u>>) : s, t, u \in Steps}
           \union Nested(Steps \union Nested(Steps))

\* The repository's examples test0.nm, with a beginning, and test1.nm, to 2.
Set(v, n) == Assign(v, Num(n))
Less(v, w) == Block(<<Test("<", Var(v), Var(w)), Assign(w, Bin("-", Var(w), Var(v)))>>)
Examples ==
    {Block(<<Set("x", 4), Set("y", 2), Loop(Choice(<<Less("y", "x"), Less("x", "y")>>)),
             Test("==", Var("x"), Var("y"))>>),
     Block(<<Set("n", 2), Set("x", 0), Set("y", 0),
             While("<=", Var("y"), Var("n"),
                   Block(<<Assign("y", Bin("+", Var("y"), Bin("+", Var("x"),
                                           Bin("+", Var("x"), Num(1))))),
                           Assign("x", Bin("+", Var("x"), Num(1)))>>)),
             Assign("x", Bin("-", Var("x"), Num(1)))>>)}

MCSources == Lines \union Control \union Examples
MCDeclLists ==
    LET all == <<[var |-> "x", type |-> 0], [var |-> "a", type |-> 1],
                 [var |-> "m", type |-> 2], [var |-> "y", type |-> 0],
                 [var |-> "n", type |-> 0]>>
    IN  {all, Append(all, [var |-> "x", type |-> 1])}
MCInitVars ==
    {<<>>, "x" :> IntVal(1) @@ "a" :> ArrVal(<<IntVal(1)>>),
     "x" :> IntVal(-1) @@ "m" :> ArrVal(<<ArrVal(<<IntVal(0)>>)>>)}
=============================================================================
