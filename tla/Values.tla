------------------------------- MODULE Values -------------------------------
(***************************************************************************)
(* The values of attributes, and domain.Resource: what the parsers return  *)
(* and what the calculator, the rules and the overlays read.  A value is a *)
(* pair of its type and its content.                                       *)
(***************************************************************************)
EXTENDS Integers, SequencesExt, TLC

CONSTANTS Failed, Broken, None      \* no value, an unreadable file, nothing there

Null == <<"null">>
Number(n) == <<"number", n>>
Text(s) == <<"string", s>>
Truth(b) == <<"bool", b>>
Object(f) == <<"object", f>>
List(s) == <<"list", s>>

Ref(kind, module, name, key) ==
    [kind |-> kind, module |-> module, name |-> name, key |-> key]

\* AttrString, AttrInt and AttrBool: an attribute of the wrong type is none.
Has(r, a, type) == a \in DOMAIN r.attrs /\ r.attrs[a][1] = type
AttrString(r, a) == IF Has(r, a, "string") THEN r.attrs[a][2] ELSE ""
AttrInt(r, a) == IF Has(r, a, "number") THEN r.attrs[a][2] ELSE 0
AttrBool(r, a) == Has(r, a, "bool") /\ r.attrs[a][2]

ResolveRegion(r, default) == IF r.region = "" THEN default ELSE r.region

\* Attributes: of one value, and of some laid over others.
Setting(a, value) == [x \in {a} |-> value]
Layered(upper, lower) ==
    [a \in DOMAIN upper \cup DOMAIN lower |-> IF a \in DOMAIN upper THEN upper[a] ELSE lower[a]]

\* The attributes of a resource that something else sets.
WithAttrs(r, attrs) == [r EXCEPT !.attrs = Layered(attrs, @)]

\* What a number holds is one.
IsAttributes(attrs) == \A a \in DOMAIN attrs : attrs[a][1] = "number" => attrs[a][2] \in Int

IsResource(r) ==
    /\ r = [ref |-> r.ref, attrs |-> r.attrs, region |-> r.region, action |-> r.action]
    /\ r.attrs = [a \in DOMAIN r.attrs |-> r.attrs[a]]
    /\ IsAttributes(r.attrs)
=============================================================================
