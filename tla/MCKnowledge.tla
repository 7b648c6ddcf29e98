---------------------------- MODULE MCKnowledge -----------------------------
(* Two facts, one of them what a cut may leave of the other, and a text of   *)
(* two lines that reads as both; a name with a space, and a name that is     *)
(* what a cut leaves of another.                                             *)
EXTENDS Knowledge
WordsOf   == {"net", "net-dns"}
RemainsOf == [w \in Words \cup {Cut} |-> IF w = "net-dns" THEN {"net", Cut} ELSE {Cut}]
TextsOf   == {<<Plain(w)>> : w \in Words} \cup {<<Plain("net-dns"), Bullet("net")>>}
NamesOf   == {"net", "net-dns", "net dns"}
CleanOf   == [n \in NamesOf |-> IF n = "net dns" THEN "net-dns" ELSE n]
StemsOf   == <<"net-dns", "net">>
=============================================================================
