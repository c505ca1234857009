------------------------------ MODULE MCCrawl ------------------------------
(* A seed with two links, one of them in a budgeted section; both lead to a *)
(* third page, which links back.                                            *)
EXTENDS Crawl, TLC

CONSTANTS s, a, b, c, d, e

MCLink == {s, a, b, c, d, e}

MCPoints ==
    (s :> {a, b}) @@ (a :> {c, d}) @@ (b :> {a, c, e}) @@ (c :> {s})
        @@ (d :> {}) @@ (e :> {})

MCBudgets ==
    {[wild |-> NoLimit, path |-> NoLimit], [wild |-> 0, path |-> NoLimit],
     [wild |-> 1, path |-> NoLimit], [wild |-> 3, path |-> NoLimit],
     [wild |-> 5, path |-> 1]}

MCEvent == {"crawl", "signal", "link", "hit", "panic", "others", "tick", "close"}

Only(f) == [k \in MCEvent |-> IF k \in DOMAIN f THEN f[k] ELSE 0]

MCAllowances ==
    {Only(("crawl" :> 1) @@ ("signal" :> 2)),
     Only(("crawl" :> 1) @@ ("others" :> 1) @@ ("signal" :> 1)),
     Only(("crawl" :> 1) @@ ("link" :> 2)),
     Only(("crawl" :> 2) @@ ("link" :> 1)),
     Only(("crawl" :> 2) @@ ("signal" :> 1)),
     Only(("crawl" :> 1) @@ ("panic" :> 1) @@ ("close" :> 1)),
     Only(("crawl" :> 1) @@ ("hit" :> 3)),
     Only(("crawl" :> 1) @@ ("tick" :> 2))}
=============================================================================
