---------------------------- MODULE ContactStore ----------------------------
(***************************************************************************)
(* The transactions in which the workers of all crawls store a page, the   *)
(* contacts found on it and the job's counters: create_page, save_contacts *)
(* and increment_job_stats of CrawlRepository in one session, as the       *)
(* engine calls them.                                                      *)
(*                                                                         *)
(* Every statement is awaited, so transactions interleave statement by     *)
(* statement.  What they may do to each other depends on the database:     *)
(*                                                                         *)
(*   sqlite      the INSERT of the page takes the database's write lock    *)
(*               and keeps it to the end, so that one transaction runs at  *)
(*               a time; who waits too long fails                          *)
(*   postgresql  (READ COMMITTED) a statement sees what is committed; one  *)
(*               that writes a row which another transaction has written   *)
(*               waits for its end; a cycle of waits is broken by failing  *)
(*               one transaction                                           *)
(*                                                                         *)
(* A failed transaction is rolled back as a whole and the engine logs it:  *)
(* the page and its contacts are lost.  The country of a contact is left   *)
(* out; its confidence is what stands for the columns that are updated.    *)
(*                                                                         *)
(* The definitions named Faulty... are deliberate faults that no action    *)
(* uses: each stands in for the definition after it to show that a         *)
(* property notices.                                                       *)
(***************************************************************************)
EXTENDS Integers, FiniteSets, Sequences

CONSTANTS
  Page,         \* fetched pages, each stored by one worker
  Contact,      \* pairs (type, normalized_value)
  Extracted,    \* [Page -> Seq([contact, confidence])], what save_contacts gets
  MaxFailures   \* bound: transactions that fail for a reason of their own

Listed(p) == {Extracted[p][i].contact : i \in DOMAIN Extracted[p]}

\* A contact may be listed twice, by two mailto: links, and not with the same
\* confidence (ContactsOnce of PageScan).
ASSUME StoreAssumption ==
  /\ IsFiniteSet(Page) /\ IsFiniteSet(Contact)
  /\ Extracted \in
       [Page -> Seq([contact : Contact, confidence : Nat \ {0}])]
  /\ MaxFailures \in Nat

VARIABLES
  backend,     \* the database behind DATABASE_URL, fixed at start-up
  contacts,    \* committed confidence of each contact; 0: no such row
  sources,     \* committed contact_sources: the pages of each contact
  found,       \* committed emails_found + phones_found + linkedin_found
  pc,          \* where the transaction of each page is
  position,    \* the list element it is at
  draft,       \* the contact rows it has written: their confidence, or 0
  inserted,    \* those among them that it has inserted
  failures     \* transactions that failed for a reason of their own so far

committedVars == <<contacts, sources, found>>
vars == <<backend, committedVars, pc, position, draft, inserted, failures>>

(***************************************************************************)
(* idle    the page has been parsed, its session is not open yet           *)
(* select  about to look for the current contact                           *)
(* update  about to write a higher confidence into the row it saw          *)
(* insert  about to insert the contact and its source                      *)
(* commit  about to add to the job's counters and commit                   *)
(* saved   committed           lost    rolled back                         *)
(***************************************************************************)
Inside == {"select", "update", "insert", "commit"}

NoDraft == [c \in Contact |-> 0]

Init ==
  /\ backend \in {"sqlite", "postgresql"}
  /\ contacts = [c \in Contact |-> 0]
  /\ sources = [c \in Contact |-> {}]
  /\ found = 0
  /\ pc = [p \in Page |-> "idle"]
  /\ position = [p \in Page |-> 1]
  /\ draft = [p \in Page |-> NoDraft]
  /\ inserted = [p \in Page |-> {}]
  /\ failures = 0

GoTo(p, where) == pc' = [pc EXCEPT ![p] = where]

\* The element of the list that p is at.
Entry(p) == Extracted[p][position[p]]
Current(p) == Entry(p).contact

FaultyRollBack(p) ==
  /\ GoTo(p, "lost")
  /\ UNCHANGED <<draft, inserted>>

RollBack(p) ==
  /\ GoTo(p, "lost")
  /\ draft' = [draft EXCEPT ![p] = NoDraft]
  /\ inserted' = [inserted EXCEPT ![p] = {}]

FaultyAdvance(p) ==
  /\ UNCHANGED position
  /\ GoTo(p, "select")

\* On to the next element, or to the end of save_contacts.
Advance(p) ==
  /\ position' = [position EXCEPT ![p] = @ + 1]
  /\ GoTo(p, IF position[p] < Len(Extracted[p]) THEN "select" ELSE "commit")

\* p cannot write the row of c now: another transaction has.
Waits(p, q) ==
  /\ pc[p] \in {"update", "insert"}
  /\ q # p /\ draft[q][Current(p)] > 0

-----------------------------------------------------------------------------
\* The write lock of SQLite is taken.
Locked(p) == backend = "sqlite" /\ \E q \in Page \ {p} : pc[q] \in Inside

\* create_page: the row of the page is inserted.
Open(p) ==
  /\ pc[p] = "idle" /\ ~Locked(p)
  /\ GoTo(p, IF Extracted[p] = <<>> THEN "commit" ELSE "select")
  /\ UNCHANGED <<backend, committedVars, position, draft, inserted, failures>>

\* "database is locked", after five seconds.
LockTimeout(p) ==
  /\ pc[p] = "idle" /\ Locked(p)
  /\ RollBack(p)
  /\ UNCHANGED <<backend, committedVars, position, failures>>

\* The confidence that a SELECT of p finds for c: its own write or what is
\* committed.  The session keeps the attributes of an object it has loaded, but
\* refers to it weakly: an earlier reading survives only from one entry of the
\* page to the next with the same contact, which is the behaviour in which no
\* other page commits between the two.
Seen(p, c) == IF draft[p][c] > 0 THEN draft[p][c] ELSE contacts[c]

FaultyOutranks(new, old) == new < old
Outranks(new, old) == new > old

Select(p) ==
  /\ pc[p] = "select"
  /\ LET row == Seen(p, Current(p)) IN
       \/ row = 0 /\ GoTo(p, "insert") /\ UNCHANGED position
       \/ /\ row > 0 /\ Outranks(Entry(p).confidence, row)
          /\ GoTo(p, "update") /\ UNCHANGED position
       \/ row > 0 /\ ~Outranks(Entry(p).confidence, row) /\ Advance(p)
  /\ UNCHANGED <<backend, committedVars, draft, inserted, failures>>

Write(p) ==
  draft' = [draft EXCEPT ![p][Current(p)] = Entry(p).confidence]

\* The row is written whatever its confidence is by now.
Update(p) ==
  /\ pc[p] = "update" /\ ~\E q \in Page : Waits(p, q)
  /\ Write(p) /\ Advance(p)
  /\ UNCHANGED <<backend, committedVars, inserted, failures>>

FaultyTaken(c) == FALSE

\* The unique constraint on (type, normalized_value) refuses c.
Taken(c) == contacts[c] > 0

Insert(p) ==
  /\ pc[p] = "insert" /\ ~\E q \in Page : Waits(p, q)
  /\ ~Taken(Current(p))
  /\ Write(p) /\ Advance(p)
  /\ inserted' = [inserted EXCEPT ![p] = @ \union {Current(p)}]
  /\ UNCHANGED <<backend, committedVars, failures>>

\* IntegrityError: another page has stored the contact since the SELECT.
InsertRefused(p) ==
  /\ pc[p] = "insert" /\ ~\E q \in Page : Waits(p, q)
  /\ Taken(Current(p))
  /\ RollBack(p)
  /\ UNCHANGED <<backend, committedVars, position, failures>>

\* The database fails one transaction of a cycle of waits.
Deadlocked(p) ==
  /\ \E cycle \in SUBSET Page :
       /\ p \in cycle
       /\ \A q \in cycle :
            (\E r \in cycle : Waits(q, r)) /\ (\E r \in cycle : Waits(r, q))
  /\ RollBack(p)
  /\ UNCHANGED <<backend, committedVars, position, failures>>

\* Any statement may fail, the COMMIT included.
Fails(p) ==
  /\ pc[p] \in Inside
  /\ failures < MaxFailures /\ failures' = failures + 1
  /\ RollBack(p)
  /\ UNCHANGED <<backend, committedVars, position>>

FaultyGained(p) == Len(Extracted[p])

\* What save_contacts returns: only the contacts it has inserted count.
Gained(p) == Cardinality(inserted[p])

\* increment_job_stats and the COMMIT.
Commit(p) ==
  /\ pc[p] = "commit"
  /\ contacts' = [c \in Contact |->
                    IF draft[p][c] > 0 THEN draft[p][c] ELSE contacts[c]]
  /\ sources' = [c \in Contact |->
                   sources[c] \union (IF c \in inserted[p] THEN {p} ELSE {})]
  /\ found' = found + Gained(p)
  /\ GoTo(p, "saved")
  /\ draft' = [draft EXCEPT ![p] = NoDraft]
  /\ inserted' = [inserted EXCEPT ![p] = {}]
  /\ UNCHANGED <<backend, position, failures>>

-----------------------------------------------------------------------------
PageStep(p) ==
  \/ Open(p) \/ LockTimeout(p) \/ Select(p) \/ Update(p) \/ Insert(p)
  \/ InsertRefused(p) \/ Deadlocked(p) \/ Fails(p) \/ Commit(p)

Next == \E p \in Page : PageStep(p)

\* The event loop runs every task; the database answers, and finds deadlocks.
\* Nothing has to fail for a reason of its own.
Fairness == \A p \in Page : WF_vars(PageStep(p) /\ UNCHANGED failures)

Spec == Init /\ [][Next]_vars /\ Fairness

-----------------------------------------------------------------------------
(***************************************************************************)
(* Properties.                                                             *)
(***************************************************************************)
\* Every variable keeps its type, and who is not inside a transaction has
\* written nothing that is neither committed nor rolled back.
TypeOK ==
  /\ backend \in {"sqlite", "postgresql"}
  /\ contacts \in [Contact -> Nat]
  /\ sources \in [Contact -> SUBSET Page]
  /\ found \in Nat
  /\ pc \in [Page -> Inside \union {"idle", "saved", "lost"}]
  /\ position \in [Page -> Nat \ {0}]
  /\ draft \in [Page -> [Contact -> Nat]]
  /\ inserted \in [Page -> SUBSET Contact]
  /\ failures \in 0 .. MaxFailures
  /\ \A p \in Page :
       pc[p] \notin Inside => draft[p] = NoDraft /\ inserted[p] = {}

\* A stored contact has exactly one source, and that is a page which was
\* stored and lists it, whatever other pages with the contact are stored at
\* the same time.
OneSourcePerContact ==
  \A c \in Contact :
    /\ contacts[c] > 0 => \E p \in Page : sources[c] = {p}
    /\ contacts[c] = 0 => sources[c] = {}
    /\ \A p \in sources[c] : pc[p] = "saved" /\ c \in Listed(p)

\* The job counters add up to the contacts with a source: no contact is
\* counted twice by pages that race for it, none goes uncounted.
FoundMatchesSources ==
  found = Cardinality({c \in Contact : sources[c] # {}})

\* Every contact of a stored page is stored, and on SQLite with at least the
\* confidence that the page gave it.
StoredPageCovered ==
  \A p \in Page : pc[p] = "saved" =>
    \A i \in DOMAIN Extracted[p] :
      LET kept == contacts[Extracted[p][i].contact] IN
      /\ kept > 0
      /\ backend = "sqlite" => kept >= Extracted[p][i].confidence

\* Every page that is being stored ends up stored or lost: transactions do
\* not wait for each other for ever.
PagesSettle ==
  \A p \in Page : pc[p] \in Inside ~> pc[p] \in {"saved", "lost"}

=============================================================================
