--------------------------- MODULE MCDomainMatch ---------------------------
(* DomainMatch for names with up to two www labels before one that has a   *)
(* subdomain label or not.                                                 *)
EXTENDS DomainMatch

Stems == {<<"example", "com">>, <<"app", "example", "com">>}
Labels == Stems \cup {<<WWW>> \o s : s \in Stems} \cup {<<WWW, WWW>> \o s : s \in Stems}

MCPatterns == {Name(l, <<>>) : l \in Labels} \cup {Wildcard(l) : l \in Labels}
MCHosts == {Name(l, t) : l \in Labels, t \in Tails}
=============================================================================
