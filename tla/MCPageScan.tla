----------------------------- MODULE MCPageScan -----------------------------
(***************************************************************************)
(* Every page of up to MaxElements elements of a site in the United        *)
(* Kingdom: links in several spellings, inside and outside of the job's    *)
(* scope, to a contact page and to others, and one email, one profile and  *)
(* three phone numbers in several places.  Pairs of a query are 1 and 2,   *)
(* and 3, which is a tracking parameter.                                   *)
(***************************************************************************)
EXTENDS PageScan

Site == <<"site", "uk">>
At(path) == Location("https", Site, "", path, <<>>)

MCPageUrl == {At(<<"a", "b">>), At(<<"team">>)}
MCAllowedDomains == {Site}

Relative(rooted, path, query) ==
  [Location("", <<>>, "", path, query) EXCEPT !.rooted = rooted]
A(href, within) == [tag |-> "a", href |-> href, within |-> within]
Canonical(href) == [tag |-> "canonical", href |-> href, within |-> <<>>]

LinkElements == {
  A(Relative(TRUE, <<"", "team", "">>, <<>>), <<>>),
  A(Location("https", Site, "443", <<"team">>, <<3>>), <<"header">>),
  A(Relative(FALSE, <<"..", "c">>, <<2, 3, 1>>), <<>>),
  A(Location("https", Site, "", <<"c">>, <<1, 2>>), <<>>),
  A(Location("http", <<"www", "site", "uk">>, "80", <<"d">>, <<>>), <<>>),
  A(Location("https", <<"other", "uk">>, "", <<"team">>, <<>>), <<>>),
  A(Relative(TRUE, <<"logo.png">>, <<>>), <<>>),
  A(Relative(TRUE, <<"e">>, <<>>), <<"noscript">>),
  Canonical(At(<<"c">>)),
  Canonical(Location("empty", <<>>, "", <<>>, <<>>)) }

Profile(host) == Location("https", host, "", <<"in", "ann">>, <<>>)
Ann == Profile(<<"uk", "linkedin", "com">>)

Number(prefix, code, national) ==
  [prefix |-> prefix, code |-> code, national |-> national, noise |-> FALSE]
Home == Number("none", 0, 20)
Abroad == Number("plus", 44, 20)
Dialled == Number("idd", 44, 20)
Unassigned(code) == Number("plus", code, 555)
Date == [Home EXCEPT !.noise = TRUE]

Node(within, emails, obfuscated, phones, profiles) ==
  [tag |-> "text", within |-> within, emails |-> emails,
   obfuscated |-> obfuscated, phones |-> phones, profiles |-> profiles]
Mailto(email, within) == [tag |-> "mailto", email |-> email, within |-> within]
Tel(phone, within) == [tag |-> "tel", phone |-> phone, within |-> within]

ContactElements == {
  A(Profile(<<"notlinkedin", "com">>), <<"footer">>),
  Mailto("mail", <<>>),
  Mailto("mail", <<"footer", "address">>),
  Mailto("logo@2x.png", <<"footer">>),
  Tel(Home, <<"header", "footer">>),
  Node(<<>>, <<"mail">>, <<"mail">>, <<Date, Abroad>>, <<Ann>>),
  Node(<<"address", "footer">>, <<>>, <<"mail">>, <<Home>>, <<Ann, Ann>>),
  Node(<<"header">>, <<>>, <<>>, <<Unassigned(49)>>, <<>>),
  Node(<<"header">>, <<>>, <<>>, <<Unassigned(1), Dialled>>, <<>>) }

MCElement == LinkElements \union ContactElements

MCProfilePath == {<<"in", "ann">>}
MCRegionOf == [l \in {"uk", "de"} |-> IF l = "uk" THEN "GB" ELSE "DE"]
MCCallingCode == [r \in {"US", "GB", "DE"} |->
                    CASE r = "US" -> 1 [] r = "GB" -> 44 [] r = "DE" -> 49]
\* The numbers of Germany have one region, valid or not; those with code 1 have
\* several, and one that is not valid is in none of them.
MCPossible == {<<44, 20>>, <<1, 555>>, <<49, 555>>}
MCValid == {<<44, 20>>}
MCCountryOf == [n \in {<<44, 20>>, <<49, 555>>} |-> IF n[1] = 44 THEN "GB" ELSE "DE"]
=============================================================================
