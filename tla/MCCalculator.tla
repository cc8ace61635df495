---------------------------- MODULE MCCalculator ----------------------------
(* A small catalog, small projects and price lists for TLC.                 *)
EXTENDS Calculator

MCSizes == {"small", "large"}
Of(small, large) == [size \in MCSizes |-> IF size = "small" THEN small ELSE large]
By(m, n) == [mapping |-> m, number |-> n, spelled |-> TRUE]
Computed(m, n) == [By(m, n) EXCEPT !.spelled = FALSE]

Expr(key, e) == [key |-> key, const |-> "", expr |-> e]
Const(key, v) == [key |-> key, const |-> v, expr |-> None]
Dim(id, when, n, rate) ==
    [id |-> id, when |-> when, quantity |-> n, rate |-> rate]

File(def) == [directories |-> {"aws"}, free |-> FALSE, content |-> def]
Kind(kind, mappings, dimensions) ==
    [kind |-> kind, provider |-> "aws", mappings |-> mappings, dimensions |-> dimensions]

\* Two kinds that share dimension identifiers, two mappings that share a filter
\* key, filters of both kinds, evaluations that fail, and a mapping whose name
\* is computed, which the loader does not check, and not declared.
Vm ==
    Kind("vm",
         "compute" :> <<Const("os", "linux"), Expr("usagetype", Of("vm1", "vm2"))>>
           @@ "storage" :> <<Expr("usagetype", Of("gp2", "gp2"))>>,
         <<Dim("hours", Always, Constantly(3), By("compute", 1)),
           Dim("disk", Of(FALSE, TRUE), Of(0, 5), By("storage", 2))>>)
Db == Kind("db", <<>>, <<Dim("hours", Of(TRUE, FALSE), Of(7, 1), Literal(3))>>)
Fn == Kind("fn", <<>>, <<Dim("calls", Always, Of(Failed, 1), Computed("lost", 1))>>)
Fs ==
    Kind("fs", "bytes" :> <<Expr("tier", Of(Failed, "cold")), Expr("usagetype", Of("gp2", "gp2"))>>,
         <<Dim("bytes", Always, Constantly(2), By("bytes", 1))>>)
Vpc == Kind("vpc", <<>>, <<Dim("free", Of(FALSE, Failed), Zero, Literal(0))>>)

Free == [directories |-> {"aws"}, free |-> TRUE,
         content |-> [provider |-> "aws", kinds |-> "subnet" :> "no charge"]]

Embedded == <<File(Db), File(Fn), Free, File(Fs), File(Vm), File(Vpc)>>

\* One entry of a bundle.
Entry(kind, content) == [provider |-> "aws", kind |-> kind, content |-> content]
Bundle(entries) == [supported |-> TRUE, entries |-> entries]

\* The second disk would be priced by the first one's expressions.
TwoDisks == [Vm EXCEPT !.dimensions = Append(@, Dim("disk", Always, Of(1, 2), By("compute", 3)))]
\* A price of nothing.
Typo == [Vm EXCEPT !.dimensions[2].rate = By("storrage", 2)]
Both == [Vm EXCEPT !.mappings["storage"][1].const = "gp2"]
Elsewhere == [Db EXCEPT !.provider = "gcp"]

\* Bundles that replace the database, twice, and that are refused for one of
\* their files; and binaries' catalogs that are refused.
MCCatalogs ==
    {[embedded |-> Embedded, bundle |-> b] :
        b \in {None,
               Bundle(<<Entry("db", Typo), Entry("vm", Vm),
                        Entry("db", [Db EXCEPT !.dimensions[1].rate = Literal(1)])>>),
               [Bundle(<<Entry("vm", Vm)>>) EXCEPT !.supported = FALSE],
               Bundle(<<>>), Bundle(<<Entry("", Vm)>>),
               Bundle(<<Entry("vm", TwoDisks)>>), Bundle(<<Entry("vm", Typo)>>),
               Bundle(<<Entry("vm", Both)>>), Bundle(<<Entry("db", Elsewhere)>>),
               Bundle(<<Entry("vm", Vm), Entry("machine", Vm)>>),
               Bundle(<<Entry("vm", Broken)>>),
               Bundle(<<Entry("vm", Vm),
                        Entry("free", [provider |-> "aws", kinds |-> "vm" :> "free"])>>),
               Bundle(<<Entry("free", [provider |-> "aws", kinds |-> "vpc" :> ""])>>)}}
      \cup {[embedded |-> <<>>, bundle |-> None]}

R(kind, name, size) == [kind |-> kind, name |-> name, size |-> size, action |-> "none"]
Planned(r, action) == [r EXCEPT !.action = action]

MCProjects ==
    {<<>>,
     <<R("vm", "a", "small")>>,
     <<R("vm", "a", "large"), R("db", "b", "small")>>,
     <<R("db", "b", "small"), R("vm", "c", "small"), R("vm", "a", "large")>>,
     <<R("mystery", "m", "small"), R("vpc", "v", "small"), R("subnet", "s", "small"),
       R("db", "b", "large")>>,
     <<R("vpc", "v", "large"), R("vm", "a", "small")>>,
     <<R("db", "b", "small"), R("fn", "f", "small")>>,
     <<R("fn", "f", "large")>>,
     <<R("fs", "s", "large"), R("vm", "a", "large")>>,
     <<R("fs", "s", "small")>>,
     <<R("vm", "a", "small"), R("vm", "a", "large")>>,
     <<Planned(R("vm", "c", "large"), "update"),
       Planned(R("vm", "a", "large"), "delete")>>}

List(v1, v2, g) ==
    <<"linux", "vm1">> :> v1 @@ <<"linux", "vm2">> :> v2 @@ <<"gp2">> :> g
      @@ <<"cold", "gp2">> :> 1

MCChains ==
    {List(1, 3, 2), List(2, 3, 1), List(5, 0, 1), List(Failed, 3, 1), List(2, 2, Failed)}
=============================================================================
