------------------------------- MODULE Scopes -------------------------------
(***************************************************************************)
(* Expressions and what their names refer to, for Terraform directories    *)
(* and Terragrunt units: variables, data blocks and locals.                *)
(*                                                                         *)
(* An expression is a sequence of alternatives, as in try(a, b), and of    *)
(* one alternative if it is not a try; an alternative is a value or a      *)
(* reference.                                                              *)
(***************************************************************************)
EXTENDS Values

Scope(vars, locals, data) == [var |-> vars, local |-> locals, data |-> data]
EmptyScope == Scope(<<>>, <<>>, <<>>)

Resolves(a, scope) ==
    a[1] = "value" \/ (a[1] \in DOMAIN scope /\ a[2] \in DOMAIN scope[a[1]])

Evaluate(expr, scope) ==
    LET i == SelectInSeq(expr, LAMBDA a : Resolves(a, scope))
    IN  IF i = 0 THEN Failed
        ELSE IF expr[i][1] = "value" THEN expr[i][2]
        ELSE scope[expr[i][1]][expr[i][2]]

\* A data block has the attributes it spells out, and an id.
CollectDataBlocks(d) ==
    LET value(p) == IF p[2] \in DOMAIN d.data[p[1]]
                    THEN Evaluate(d.data[p[1]][p[2]], EmptyScope)
                    ELSE Text("id of a data block")
        named == UNION {{b} \X (DOMAIN d.data[b] \cup {"id"}) : b \in DOMAIN d.data}
    IN  [p \in {q \in named : value(q) # Failed} |-> value(p)]

-----------------------------------------------------------------------------
(* Locals: passes over what is pending, until one resolves nothing or      *)
(* nothing is pending.  The attributes of a locals block come in the order *)
(* of a Go map; an order is one of all names.                              *)

Look(exprs, name, known, vars, data) ==
    LET v == Evaluate(exprs[name], Scope(vars, known, data))
    IN  IF name \notin DOMAIN exprs \ DOMAIN known THEN known
        ELSE IF v = Failed THEN known
        ELSE Layered(Setting(name, v), known)

Pass(exprs, order, known, vars, data) ==
    LET after[k \in 0 .. Len(order)] ==
            IF k = 0 THEN known ELSE Look(exprs, order[k], after[k - 1], vars, data)
    IN  after[Len(order)]

\* Faulty ResolveLocals: one pass is made.
ResolveLocalsOnce(d, vars, data, order) == Pass(d.locals, order, <<>>, vars, data)

ResolveLocals(d, vars, data, order) ==
    LET known[n \in 0 .. Len(order) + 1] ==
            IF n = 0 THEN <<>> ELSE Pass(d.locals, order, known[n - 1], vars, data)
        last(n) == known[n] = known[n - 1] \/ DOMAIN known[n] = DOMAIN d.locals
    IN  known[Min({n \in 1 .. Len(order) + 1 : last(n)})]

ScopeOf(d, vars, order) ==
    LET data == CollectDataBlocks(d)
    IN  Scope(vars, ResolveLocals(d, vars, data, order), data)
=============================================================================
