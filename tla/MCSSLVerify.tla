---------------------------- MODULE MCSSLVerify ----------------------------
(* SSLVerify on small instances.                                            *)
EXTENDS SSLVerify

CONSTANTS MaxName, MaxEntry

Texts(n) == UNION {[1..len -> {"a", "."}] : len \in 1..n}

HostNames == Texts(MaxName)

EntryTexts == Texts(MaxEntry) \cup {<<"*">> \o t : t \in Texts(MaxEntry)}

Dns(t) == [kind |-> "dns", text |-> t]

\* A few entries for the lists of two, which are about the loop: names, a star,
\* an entry the loop skips and an address that looks like one of the names.
FewEntries ==
    {Dns(<<"a">>), Dns(<<"a", ".">>), Dns(<<"*", ".", "a", ".", "a">>),
     [kind |-> "dnsWithNull", text |-> <<"a">>], [kind |-> "other", text |-> <<"a">>],
     [kind |-> "ip4", text |-> <<"a", ".", "a">>]}

Lists ==
    {<<>>} \cup {<<Dns(t)>> : t \in EntryTexts} \cup {<<e, f>> : e, f \in FewEntries}

=============================================================================
