----------------------------- MODULE MCInslerDev -----------------------------
EXTENDS InslerDev

T(w) == <<w>>
Dotted(a, b) == <<a, ".", b>>
Dashed(a, b) == <<a, "-", b>>

Plain(name) ==
    [name |-> name, kind |-> "ephemeral", contract |-> name, methods |-> {"get"},
     taskQueue |-> None, needs |-> <<>>, calls |-> <<>>,
     scale |-> [on |-> None, min |-> None, max |-> None], isolation |-> None,
     http |-> <<>>, websocket |-> None]

Http(path, handler) == [method |-> "GET", path |-> path, handler |-> handler, stream |-> None]

\* Names that flatten alike, a name in the default namespace written out, an own
\* name shared by two namespaces, needs that are and are not databases, calls that
\* some fleets serve, colliding routes, every kind and scale bounds at the edges.
Orders == [Plain(Dotted("a", "b")) EXCEPT !.needs = <<Dashed("o", "db")>>,
             !.http = <<Http(T("x"), T("get"))>>]
OrdersFlat == [Plain(Dashed("a", "b")) EXCEPT !.kind = "persistent", !.needs = <<T("c")>>,
                 !.scale = [on |-> "rps", min |-> None, max |-> 0]]
Billing == [Plain(Dotted("c", "b")) EXCEPT !.calls = <<[kind |-> Dotted("a", "b"), method |-> "get"]>>,
              !.websocket = [path |-> T("x"), handler |-> None], !.isolation = "gvisor"]
Bare == [Plain(T("a")) EXCEPT !.needs = <<<<"b", "-", "c">>, T("c")>>, !.contract = T("k"),
           !.http = <<Http(T("x"), None), [Http(T("y"), None) EXCEPT !.method = "POST"]>>]
Written0 == [Plain(Dotted("default", "a")) EXCEPT !.calls = <<[kind |-> T("k"), method |-> "get"]>>]
Flow == [Plain(T("w")) EXCEPT !.kind = "workflow", !.taskQueue = T("q"), !.needs = <<Dashed("o", "db")>>,
           !.calls = <<[kind |-> T("k"), method |-> "get"]>>,
           !.scale = [on |-> None, min |-> 3, max |-> 4], !.http = <<Http(T("y"), T("get"))>>]
Blank == [Plain(T("z")) EXCEPT !.http = <<Http(<<>>, None)>>]
NoFloor == [Plain(T("n")) EXCEPT !.kind = "persistent", !.scale = [on |-> None, min |-> 0, max |-> None]]
Twice == [Plain(T("t")) EXCEPT !.needs = <<T("c"), T("c")>>]

Declarations == {Orders, OrdersFlat, Billing, Bare, Written0, Flow, Blank, NoFloor, Twice}

MCFiles == <<"f1", "f2", "f3">>
MCScriptDisks == [{"f1", "f2", "f3"} -> Declarations \cup {Absent}]

\* The sessions start from nothing, from one service or from a broken file; what is
\* saved makes the fleet invalid (a call nobody serves) or valid again.
MCDevDisks == {[f \in {"f1", "f2", "f3"} |-> Absent],
               [f \in {"f1", "f2", "f3"} |-> IF f = "f1" THEN Bare ELSE Absent],
               [f \in {"f1", "f2", "f3"} |-> IF f = "f1" THEN Broken ELSE Absent]}
MCContents == {Bare, Flow, Absent, Broken}

MCPlatform == [minScaleFloor |-> 0, maxScaleCeiling |-> 2]
MCRegistered == {T("c")}
==============================================================================
