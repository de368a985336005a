------------------------------ MODULE MCRetrieval ------------------------------
(* The instance of Retrieval that TLC checks: a directory d, a directory e in  *)
(* it, a file f in that one; the rows of machine m1 in the order in which they *)
(* should be, and with the file before its directory; the file as in its row,  *)
(* modified or removed offline; and a second machine with one file.            *)
EXTENDS Retrieval

CONSTANTS d, e, f, m1, m2, h1, h2, t1, t2, p1, p2

Chain == [p \in Path |-> CASE p = d -> {} [] p = e -> {d} [] p = f -> {d, e}]
Sizes == [h \in Hash |-> IF h = h1 THEN 1 ELSE 2]

RowOf(p) == [path |-> p, entry |-> IF p = f THEN File(h1, t1) ELSE Dir(t1)]
Saved(x) == [p \in Path |-> IF p = f THEN x ELSE Dir(t1)]
One(h) == [p \in Path |-> IF p = d THEN File(h, t1) ELSE Absent]

Data(rows, x, h) ==
    [table |-> [m \in Mac |-> IF m = m1 THEN [i \in DOMAIN rows |-> RowOf(rows[i])]
                              ELSE <<[path |-> d, entry |-> File(h, t1)]>>],
     backup |-> [m \in Mac |-> IF m = m1 THEN Saved(x) ELSE One(h)]]

MCServerData == {Data(<<d, e, f>>, x, h1) : x \in {File(h1, t1), File(h2, t1), Absent}}
                    \cup {Data(<<d, f, e>>, File(h1, t1), h2)}

MCCommandLines == {{"start"}, {"remove"}, {"add", "start"}, {"update", "start"},
                   {"delete", "start"}, {"deleteMac", "start"}}

MCDestinations == {[m \in Mac |-> NoTree], [m \in Mac |-> One(h1)]}
=============================================================================
