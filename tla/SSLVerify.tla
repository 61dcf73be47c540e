----------------------------- MODULE SSLVerify -----------------------------
(***************************************************************************)
(* How a client decides whether a certificate is for the host it connected *)
(* to (ssl_verify.c, called by handleHandshake of uv_ssl.c): first the     *)
(* common name, then the list of alternative names, entry by entry.  A     *)
(* name is a sequence of characters, of which only the dot and a leading   *)
(* star mean anything.                                                     *)
(***************************************************************************)
EXTENDS Naturals, Sequences, SequencesExt

CONSTANTS
    Names,          \* the host names a client may connect to
    EntryLists      \* the lists of alternative names certificates have

CommonNames == {"none", "withNull", "some"}

EntryKinds == {"dns", "dnsWithNull", "ip4", "other"}

ASSUME NamesAssumption == Names \subseteq Seq(STRING)

ASSUME EntriesAssumption ==
    EntryLists \subseteq Seq([kind : EntryKinds, text : Seq(STRING)])

VARIABLES
    subject,        \* the host name
    common,         \* the common name of the certificate, as far as it matters
    entries,        \* its alternative names: kind and text
    at,             \* 0: the common name; i: about to look at entry i
    answer          \* "none" yet, "yes" or "no"

vars == <<subject, common, entries, at, answer>>

----------------------------------------------------------------------------
(* Names.                                                                   *)

\* strchr(s, '.'), as an index; 0 when there is none.
FirstDot(s) == SelectInSeq(s, LAMBDA ch : ch = ".")

\* strstr(s, t), as an index; 0 when t does not occur.
FirstOccurrence(t, s) ==
    LET At == {i \in 1..Len(s) : IsPrefix(t, SubSeq(s, i, Len(s)))}
    IN  IF At = {} THEN 0 ELSE CHOOSE i \in At : \A j \in At : i <= j

\* (mutant of MatchesWildcardName: the star may stand for several labels)
MatchesAnyLabels(name, cert) ==
    \/ name = cert
    \/ /\ Len(cert) > 3 /\ SubSeq(cert, 1, 2) = <<"*", ".">>
       /\ FirstDot(SubSeq(cert, 3, Len(cert))) # 0
       /\ FirstOccurrence(Tail(cert), name) # 0

\* (tmp is never the certificate's name without its "*.": it is longer.)
MatchesWildcardName(name, cert) ==
    \/ name = cert
    \/ /\ Len(cert) > 3 /\ SubSeq(cert, 1, 2) = <<"*", ".">>
       /\ FirstDot(SubSeq(cert, 3, Len(cert))) # 0
       /\ FirstOccurrence(Tail(cert), name) # 0
       /\ FirstOccurrence(Tail(cert), name) = FirstDot(name)

\* One final dot is cut off.
WithoutFinalDot(cert) ==
    IF cert # <<>> /\ Last(cert) = "." THEN Front(cert) ELSE cert

----------------------------------------------------------------------------

Init ==
    /\ subject \in Names /\ common \in CommonNames /\ entries \in EntryLists
    /\ at = 0 /\ answer = "none"

\* matches_common_name: its last test asks a name to differ and be equal at once,
\* so that every common name without a null character will do.
MatchesCommonName ==
    /\ at = 0 /\ answer = "none"
    /\ IF common = "some" THEN answer' = "yes" /\ UNCHANGED at
       ELSE at' = 1 /\ UNCHANGED answer
    /\ UNCHANGED <<subject, common, entries>>

Matches(e) ==
    \/ e.kind = "dns" /\ MatchesWildcardName(subject, WithoutFinalDot(e.text))
    \/ e.kind = "ip4" /\ subject = e.text

\* One turn of the loop of matches_san_list.
MatchesSanEntry ==
    /\ at \in 1..Len(entries) /\ answer = "none"
    /\ IF Matches(entries[at]) THEN answer' = "yes" /\ UNCHANGED at
       ELSE at' = at + 1 /\ UNCHANGED answer
    /\ UNCHANGED <<subject, common, entries>>

SanListEnds ==
    /\ at > Len(entries) /\ answer = "none"
    /\ answer' = "no"
    /\ UNCHANGED <<subject, common, entries, at>>

Next == MatchesCommonName \/ MatchesSanEntry \/ SanListEnds

Spec == Init /\ [][Next]_vars

----------------------------------------------------------------------------
(* Properties.                                                              *)

\* An entry covers a name when it is the name, perhaps followed by a dot of its
\* own; or, without that dot, a star and a text that starts with a dot and has
\* another, which the name continues with from its first dot on.
Covers(e, name) ==
    LET Dots(s) == {k \in 1..Len(s) : s[k] = "."}
        ownDot == IF Len(e.text) \in Dots(e.text) THEN 1 ELSE 0
        text == SubSeq(e.text, 1, Len(e.text) - ownDot)
        Stands(star, rest) ==
            /\ star = "*" /\ Len(rest) > 2
            /\ 1 \in Dots(rest) /\ Dots(rest) # {1}
            /\ \E label, more \in 0..Len(name) :
                  /\ name = SubSeq(name, 1, label) \o rest \o SubSeq(name, more + 1, Len(name))
                  /\ Dots(name) \cap 1..label = {}
    IN  \/ e.kind \in {"dns", "ip4"} /\ name = (IF e.kind = "dns" THEN text ELSE e.text)
        \/ e.kind = "dns" /\ text # <<>> /\ Stands(Head(text), Tail(text))

\* Whatever strstr, strchr and the loop with its early return and its skipped
\* entries do, the answer is yes exactly when the certificate has a common name or
\* some entry, wherever in the list, that covers the host's name.
AnswerIsCover ==
    answer # "none" =>
        (answer = "yes" <=>
            common = "some" \/ \E i \in 1..Len(entries) : Covers(entries[i], subject))

=============================================================================
