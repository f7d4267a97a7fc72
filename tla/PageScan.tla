------------------------------ MODULE PageScan ------------------------------
(***************************************************************************)
(* What CrawlEngine takes from a fetched page: the links it queues         *)
(* (ParsedHtmlDocument.get_links) and the contacts it hands to             *)
(* save_contacts (get_attribute_contacts, get_text_nodes_with_context and  *)
(* the extractors of emails, phones and LinkedIn profiles).                *)
(*                                                                         *)
(* A page is the sequence of its elements in document order, chosen        *)
(* freely; it is read as a whole each time it has grown.  Each element     *)
(* knows the containers around it, innermost first.                        *)
(*                                                                         *)
(*   canonical   <link rel=canonical>                                      *)
(*   a           an anchor whose href is a URL, linkedin.com included      *)
(*   mailto, tel an anchor whose href is a contact                         *)
(*   text        a text node with what the regular expressions and         *)
(*               PhoneNumberMatcher find in it, by kind; a comment in the  *)
(*               page is such a node too                                   *)
(*                                                                         *)
(* An email stands for its lower-case form; one that is not valid          *)
(* (is_valid_email_candidate) is outside ValidEmail.  A phone number is    *)
(* written with its country's code, after a plus or after the digits that  *)
(* are dialled to call abroad, or without.  An empty href is skipped by    *)
(* the code; it is no link and stands with those whose scheme is not one   *)
(* of the web.  An href that has a fragment only leads to the page itself. *)
(* Context snippets and titles are left out, and so are profiles in an     *)
(* href without a scheme.                                                  *)
(*                                                                         *)
(* The definitions named Faulty... are deliberate faults that no           *)
(* definition uses: each stands in for the definition after it to show     *)
(* that a property notices.                                                *)
(***************************************************************************)
EXTENDS Url

CONSTANTS
  Element,            \* what a page may hold
  PageUrl,            \* normalised URLs a page may be fetched from
  AllowedDomains,     \* allowed_domains
  IncludeSubdomains,  \* include_subdomains
  FollowExternal,     \* follow_external_links
  MaxLinks,           \* max_links: 200
  ValidEmail,
  LinkedInLabel,      \* labels that end in linkedin
  ProfilePath,        \* pairs (category, slug) that are profiles
  RegionOf,           \* TLD_TO_REGION
  CallingCode,        \* [region -> Nat]
  Possible,           \* the numbers <<code, national>> of which
                      \* is_possible_number holds
  Valid,              \* those of which is_valid_number does
  CountryOf,          \* region_code_for_number: a function from the numbers
                      \* that have a region, be they valid or not
  MaxElements         \* bound: elements of a page

Region == DOMAIN CallingCode

Phone == [prefix : {"plus", "idd", "none"}, code : Nat, national : Nat,
          noise : BOOLEAN]

Text == [tag : {"text"}, within : Seq(STRING), emails : Seq(STRING),
         obfuscated : Seq(STRING), phones : Seq(Phone), profiles : Seq(Href)]

ASSUME PageAssumption ==
  /\ Element \subseteq
       [tag : {"canonical", "a"}, within : Seq(STRING), href : Href]
         \union [tag : {"mailto"}, within : Seq(STRING), email : STRING]
         \union [tag : {"tel"}, within : Seq(STRING), phone : Phone]
         \union Text
  /\ PageUrl \subseteq Href
  /\ IncludeSubdomains \in BOOLEAN /\ FollowExternal \in BOOLEAN
  /\ AllowedDomains \subseteq Seq(STRING)
  /\ MaxLinks \in Nat /\ MaxLinks > 1
  /\ CallingCode \in [Region -> Nat] /\ "US" \in Region /\ "none" \notin Region
  /\ \A label \in DOMAIN RegionOf : RegionOf[label] \in Region
  /\ Valid \subseteq DOMAIN CountryOf
  /\ \A n \in DOMAIN CountryOf : CountryOf[n] # "none"
  /\ MaxElements \in Nat

VARIABLES
  url,   \* the page's URL
  page   \* its elements

scanVars == <<url, page>>

ScanInit == url \in PageUrl /\ page = <<>>

\* The page has one more element.
Grow(e) ==
  /\ Len(page) < MaxElements
  /\ page' = Append(page, e)
  /\ UNCHANGED url

ScanNext == \E e \in Element : Grow(e)

ScanSpec == ScanInit /\ [][ScanNext]_scanVars

-----------------------------------------------------------------------------
FaultyContent == page
\* _clean_tree: what is inside a tag of DISCARD_TAGS is gone.
Content == Keep(page, LAMBDA e : "noscript" \notin ToSet(e.within))

Tagged(tag) == Keep(Content, LAMBDA e : e.tag = tag)

-----------------------------------------------------------------------------
(***************************************************************************)
(* get_links.                                                              *)
(***************************************************************************)
InScope(u) ==
  FollowExternal \/ IsSameDomain(u, AllowedDomains, IncludeSubdomains)

IsLink(u) == u # NoUrl /\ IsCrawlable(u) /\ InScope(u)

Candidate(e, bonus) ==
  LET u == NormalizeUrl(e.href, url)
  IN [url |-> u, priority |-> UrlPriority(u) + bonus]

\* The first canonical link of the page, which counts ten more.
CanonicalLink ==
  LET found == Tagged("canonical")
      first == Candidate(found[1], 10)
  IN IF found # <<>> /\ IsLink(first.url) THEN <<first>> ELSE <<>>

IsSeen(links, u) == \E i \in DOMAIN links : links[i].url = u

\* The link of an anchor is passed over or added; with max_links links the
\* loop is left.
Consider(links, e) ==
  LET c == Candidate(e, 0)
  IN IF Len(links) >= MaxLinks \/ ~IsLink(c.url) \/ IsSeen(links, c.url)
       THEN links ELSE Append(links, c)

\* By priority, the highest first; the sort is stable.
ByPriority(links) ==
  LET Before(i, k) == \/ links[i].priority > links[k].priority
                      \/ links[i].priority = links[k].priority /\ i < k
      order == InOrder(DOMAIN links, Before)
  IN [i \in DOMAIN links |-> links[order[i]]]

GetLinks ==
  ByPriority(FoldLeft(Consider, CanonicalLink, Tagged("a")))

-----------------------------------------------------------------------------
(***************************************************************************)
(* Where a contact stands.                                                 *)
(***************************************************************************)
\* get_text_nodes_with_context: the innermost container.
TextSource(e) == IF e.within = <<>> THEN "body" ELSE e.within[1]

\* get_attribute_contacts: the strongest of the containers the kind of anchor
\* looks for, at whatever distance.
AnchorSource(e, kind, containers) ==
  LET holds(i) == containers[i] \in ToSet(e.within)
  IN IF \E i \in DOMAIN containers : holds(i)
       THEN containers[CHOOSE i \in DOMAIN containers :
              holds(i) /\ \A k \in 1 .. i - 1 : ~holds(k)]
       ELSE kind

OnContactPage == IsContactUrl(url)

\* calculate_email_confidence, in percent.
EmailConfidence(source, obfuscated) ==
  CASE source = "mailto"  -> 99
    [] source = "address" -> 95
    [] OTHER -> IF obfuscated THEN 75
                ELSE IF OnContactPage THEN 90
                ELSE IF source \in {"header", "footer"} THEN 88 ELSE 85

\* calculate_phone_confidence.
PhoneConfidence(source, plus, valid) ==
  CASE source = "tel"     -> 98
    [] source = "address" -> 92
    [] OTHER -> IF plus /\ valid THEN 95
                ELSE IF OnContactPage THEN 90
                ELSE IF valid THEN 88 ELSE 75

\* calculate_linkedin_confidence.
ProfileConfidence(source) ==
  CASE source \in {"header", "footer", "address"} -> 98
    [] source = "anchor" -> 95
    [] OTHER -> IF OnContactPage THEN 90 ELSE 85

-----------------------------------------------------------------------------
(***************************************************************************)
(* The extractors: each goes through the anchors of its kind and then      *)
(* through the text nodes.                                                 *)
(***************************************************************************)
Hit(contact, confidence, country) ==
  [contact |-> contact, confidence |-> confidence, country |-> country]

FaultyAddUnseen(list, hit) == Append(list, hit)
\* A contact that the list has already is passed over, whatever its place.
AddUnseen(list, hit) ==
  IF \E i \in DOMAIN list : list[i].contact = hit.contact
    THEN list ELSE Append(list, hit)

AddAll(list, hits) == FoldLeft(AddUnseen, list, hits)

\* The loop over the elements that have the hits in hitLists, in this order.
Collect(list, hitLists) == FoldLeft(AddAll, list, hitLists)

\* is_valid_email_candidate.
IsEmail(m) == m \in ValidEmail

EmailHit(m, source, obfuscated) ==
  Hit(<<"email", m>>, EmailConfidence(source, obfuscated), "none")

EmailHits(emails, source, obfuscated) ==
  LET valid == Keep(emails, IsEmail)
  IN [i \in DOMAIN valid |-> EmailHit(valid[i], source, obfuscated)]

MailtoHit(e) ==
  EmailHit(e.email, AnchorSource(e, "mailto", <<"address", "footer">>), FALSE)

\* In each node the obfuscated emails come after the plain ones.
EmailTextHits(e) ==
  EmailHits(e.emails, TextSource(e), FALSE)
    \o EmailHits(e.obfuscated, TextSource(e), TRUE)

\* EmailExtractor: the mailto anchors are listed as they come, a text node
\* adds what is not listed yet.
Emails ==
  LET anchors == Keep(Tagged("mailto"), LAMBDA e : IsEmail(e.email))
      texts == Tagged("text")
  IN Collect([i \in DOMAIN anchors |-> MailtoHit(anchors[i])],
             [i \in DOMAIN texts |-> EmailTextHits(texts[i])])

\* get_default_region_for_domain, by the last label of the page's host.
DefaultRegion ==
  LET label == Last(url.host)
  IN IF Len(url.host) > 1 /\ label \in DOMAIN RegionOf THEN RegionOf[label]
                                                       ELSE "US"

\* phonenumbers.parse with the default region, in E.164.
E164(phone) ==
  <<IF phone.prefix = "none" THEN CallingCode[DefaultRegion] ELSE phone.code,
    phone.national>>

\* The country of a number that has a region; a number with code 1 and without
\* one gets that of the page's host.
Country(n) ==
  IF n \in DOMAIN CountryOf THEN CountryOf[n]
  ELSE IF n[1] = 1 THEN DefaultRegion ELSE "none"

\* What looks like a date or a counter (is_obvious_false_positive) is no
\* phone number, nor is an impossible one.
IsPhone(phone) == ~phone.noise /\ E164(phone) \in Possible

PhoneHits(phones, source) ==
  LET kept == Keep(phones, IsPhone)
  IN [i \in DOMAIN kept |->
        LET n == E164(kept[i])
        IN Hit(<<"phone", n>>,
               PhoneConfidence(source, kept[i].prefix = "plus", n \in Valid),
               Country(n))]

TelHits(e) ==
  PhoneHits(<<e.phone>>, AnchorSource(e, "tel", <<"address", "footer">>))

PhoneTextHits(e) == PhoneHits(e.phones, TextSource(e))

\* PhoneExtractor.
Phones ==
  LET anchors == Tagged("tel")
      texts == Tagged("text")
  IN Collect(Collect(<<>>, [i \in DOMAIN anchors |-> TelHits(anchors[i])]),
             [i \in DOMAIN texts |-> PhoneTextHits(texts[i])])

\* The category and the slug of a profile, in lower case.
ProfileOf(u) ==
  LET first == SelectInSeq(u.segments, LAMBDA s : s # "")
  IN IF first \in 1 .. Len(u.segments) - 1
       THEN SubSeq(u.segments, first, first + 1) ELSE <<>>

\* parse_and_validate_linkedin_url.  The name of the host ends in
\* "linkedin.com", which need not be its domain.
IsProfile(u) ==
  /\ u.scheme \in {"http", "https"}
  /\ \E l \in LinkedInLabel : IsSuffix(<<l, "com">>, u.host)
  /\ ProfileOf(u) \in ProfilePath

ProfileHits(hrefs, source) ==
  LET kept == Keep(hrefs, IsProfile)
  IN [i \in DOMAIN kept |->
        Hit(<<"linkedin", ProfileOf(kept[i])>>, ProfileConfidence(source), "none")]

ProfileAnchorHits(e) ==
  ProfileHits(<<e.href>>,
              AnchorSource(e, "anchor", <<"address", "footer", "header">>))

ProfileTextHits(e) == ProfileHits(e.profiles, TextSource(e))

\* LinkedInExtractor.
Profiles ==
  LET anchors == Tagged("a")
      texts == Tagged("text")
  IN Collect(Collect(<<>>, [i \in DOMAIN anchors |-> ProfileAnchorHits(anchors[i])]),
             [i \in DOMAIN texts |-> ProfileTextHits(texts[i])])

\* all_contacts of the engine.
AllContacts == Emails \o Phones \o Profiles
-----------------------------------------------------------------------------
(***************************************************************************)
(* The page as a reader sees it, without the order in which it is gone     *)
(* through: the elements that are not discarded.                           *)
(***************************************************************************)
Shown == {i \in DOMAIN page : "noscript" \notin ToSet(page[i].within)}

ShownAs(tag) == {i \in Shown : page[i].tag = tag}

FirstOf(S) == {i \in S : \A k \in S : i <= k}

\* Where the page links to u: its first canonical link, at 0, or an anchor.
PlacesOf(u) ==
  {i \in ShownAs("a") : NormalizeUrl(page[i].href, url) = u}
    \union {0 : i \in {k \in FirstOf(ShownAs("canonical")) :
                        NormalizeUrl(page[k].href, url) = u}}

LinkedUrls ==
  {u \in {NormalizeUrl(page[i].href, url) :
            i \in ShownAs("a") \union FirstOf(ShownAs("canonical"))} : IsLink(u)}

IsNormal(u) ==
  /\ u.scheme \in {"http", "https"} /\ u.host # <<>>
  /\ u.port = "80" => u.scheme # "http"
  /\ u.port = "443" => u.scheme # "https"
  /\ "" \notin ToSet(u.segments)
  /\ ToSet(u.query) \intersect DeniedPair = {}
  /\ \A i, k \in DOMAIN u.query : i < k => u.query[i] <= u.query[k]

IsPageInScope(u) ==
  /\ IsNormal(u)
  /\ NormalizeUrl(u, url) = u
  /\ FollowExternal \/ \E d \in AllowedDomains :
       IF IncludeSubdomains THEN IsSuffix(d, u.host) ELSE d = u.host

WellFormed(links) ==
  /\ \A i \in DOMAIN links : IsPageInScope(links[i].url)
  /\ \A i, k \in DOMAIN links : i < k =>
       /\ links[i].url # links[k].url
       /\ links[i].priority >= links[k].priority
       /\ IsContactUrl(links[k].url) => IsContactUrl(links[i].url)

(***************************************************************************)
(* The links the frontier gets are different pages within the job's scope: *)
(* none twice in two spellings, none that differs from another one by what *)
(* normalisation takes away; contact pages come before all others.         *)
(***************************************************************************)
LinksWellFormed == WellFormed(GetLinks)

NoneMissing(listed) ==
  /\ listed \subseteq LinkedUrls
  /\ Cardinality(listed) <= MaxLinks
  /\ \A u \in LinkedUrls \ listed :
       /\ Cardinality(listed) = MaxLinks
       /\ \A v \in listed, i \in PlacesOf(u) : \E k \in PlacesOf(v) : k < i

(***************************************************************************)
(* No link of the page is missing unless max_links was reached, and then   *)
(* what is missing comes later in the page than all that is there, be it a *)
(* contact page or not: the cut is made before the sort.                   *)
(***************************************************************************)
LinksComplete == NoneMissing({link.url : link \in ToSet(GetLinks)})

\* All that one element shows: the contacts in the href of an anchor.
AnchorHits(e) == CASE e.tag = "mailto" /\ IsEmail(e.email) -> <<MailtoHit(e)>>
                   [] e.tag = "tel"    -> TelHits(e)
                   [] e.tag = "a"      -> ProfileAnchorHits(e)
                   [] OTHER            -> <<>>

\* And those in a text, of which the plain form of an email comes first.
TextHits(e) ==
  IF e.tag = "text" THEN EmailTextHits(e) \o PhoneTextHits(e) \o ProfileTextHits(e)
                    ELSE <<>>

Mentions(hits, c) == {i \in DOMAIN hits : hits[i].contact = c}

\* The shown elements with the contact c among their hits.
InAnchors(c) == {i \in Shown : Mentions(AnchorHits(page[i]), c) # {}}
InTexts(c) == {i \in Shown : Mentions(TextHits(page[i]), c) # {}}

\* What list says first of the contact c is what hits says first of it.
SameFirst(list, hits, c) ==
  \A i \in FirstOf(Mentions(list, c)), k \in FirstOf(Mentions(hits, c)) :
    list[i] = hits[k]

\* The contact c is in the list, as often and with what it should.
ListedOnce(list, c) ==
  LET anchors == InAnchors(c)
  IN /\ Cardinality(Mentions(list, c)) =
          IF c[1] = "email" /\ anchors # {} THEN Cardinality(anchors) ELSE 1
     /\ \A i \in FirstOf(anchors) : SameFirst(list, AnchorHits(page[i]), c)
     /\ anchors = {} =>
          \A i \in FirstOf(InTexts(c)) : SameFirst(list, TextHits(page[i]), c)

OnceIn(list) ==
  /\ \A hit \in ToSet(list) :
       InAnchors(hit.contact) \union InTexts(hit.contact) # {}
  /\ \A i \in Shown : \A hit \in ToSet(AnchorHits(page[i]) \o TextHits(page[i])) :
       ListedOnce(list, hit.contact)

(***************************************************************************)
(* What is stored of a page: every contact it shows is listed, once,       *)
(* except that an email is listed once for each mailto anchor that has     *)
(* one; and an anchor decides on its confidence before any text does, the  *)
(* first one before the others, wherever in the page they are.  The        *)
(* highest confidence the page gives a contact is not always the one.      *)
(***************************************************************************)
ContactsOnce == OnceIn(AllContacts)
=============================================================================
