----------------------------- MODULE NewsFetcher -----------------------------
(***************************************************************************)
(* The news side of the fetch service: FetchNow asks GDELT and the feeds,  *)
(* drops what has a dedupe key in the cache, saves the rest and announces  *)
(* it.  One thread calls it, round after round; the cache or the store may *)
(* be the memory fallback, which a restart empties.  Titles, hashes and    *)
(* keywords are abstract: an article is its hash.  Audits and the events   *)
(* news.deduplicated and news.fetch.completed are left out: nothing acts   *)
(* on them.                                                                *)
(***************************************************************************)
EXTENDS Integers, Sequences, FiniteSets, SequencesExt

CONSTANTS
    GdeltNews,    \* articles that GDELT lists
    FeedNews,     \* articles that the RSS feeds list
    Undated,      \* those without a date that can be read
    MaxRecords,   \* articles asked of GDELT, 50 in the code
    MaxListed,    \* bound on the articles that the feeds list
    MaxFaults     \* bound on failing calls and restarts

ASSUME NewsAssumption == GdeltNews \cap FeedNews = {} /\ Undated \subseteq GdeltNews \cup FeedNews

VARIABLES
    durable,      \* which of "rows" and "keys" is not the memory fallback
    pc, todo, unique,   \* where FetchNow is, what its loop has left, unique
    keys,         \* cache: dedupe keys that have not expired
    rows,         \* store: news_articles
    announced,    \* news.arrived events under the present key of an article
    doubts,       \* failed checks of an article, since a key of it ended
    told,         \* articles ever announced
    aged,         \* older than the day that GDELT looks back
    excused,      \* hit by a fault since their key was set
    faults

local == <<pc, todo, unique>>
count == <<announced, doubts>>
vars  == <<durable, local, keys, rows, count, told, aged, excused, faults>>

News == GdeltNews \cup FeedNews

Init ==
    /\ durable \in SUBSET {"rows", "keys"}
    /\ pc = "idle" /\ todo = <<>> /\ unique = <<>>
    /\ keys = {} /\ rows = {}
    /\ announced = [a \in News |-> 0] /\ doubts = [a \in News |-> 0]
    /\ told = {} /\ aged = {} /\ excused = {}
    /\ faults = 0

Fault == faults < MaxFaults /\ faults' = faults + 1

-----------------------------------------------------------------------------
(* FetchNow.                                                               *)

\* GDELT lists the news of a day, and fails with nothing.
GdeltAnswers == SeqOf(GdeltNews \ aged, MaxRecords)

\* A feed that fails only shortens what the feeds list.
FeedAnswers == SeqOf(FeedNews, MaxListed)

Answers == {gdelt \o feeds : gdelt \in GdeltAnswers, feeds \in FeedAnswers}

Fetch(all) ==
    /\ pc = "idle" /\ all \in Answers
    /\ pc' = "check" /\ todo' = all
    /\ UNCHANGED <<durable, unique, keys, rows, count, told, aged, excused, faults>>

\* Fault: a key is looked up and set in two calls, the second one later.
CheckNewUnset ==
    /\ pc = "check" /\ todo # <<>>
    /\ Head(todo) \notin keys
    /\ keys' = IF Len(todo) = 1 THEN keys \cup (ToSet(Append(unique, Head(todo))) \ Undated) ELSE keys
    /\ unique' = Append(unique, Head(todo))
    /\ todo' = Tail(todo)
    /\ UNCHANGED <<durable, pc, rows, count, told, aged, excused, faults>>

\* The hash of an undated article has the time of the fetch in it: its key is
\* never asked for again.
CheckNew ==
    /\ pc = "check" /\ todo # <<>>
    /\ LET a == Head(todo) IN
          /\ a \notin keys
          /\ keys' = IF a \in Undated THEN keys ELSE keys \cup {a}
          /\ unique' = Append(unique, a)
    /\ todo' = Tail(todo)
    /\ UNCHANGED <<durable, pc, rows, count, told, aged, excused, faults>>

CheckDuplicate ==
    /\ pc = "check" /\ todo # <<>>
    /\ Head(todo) \in keys
    /\ todo' = Tail(todo)
    /\ UNCHANGED <<durable, pc, unique, keys, rows, count, told, aged, excused, faults>>

\* An article whose key the cache cannot tell counts as unique; the key may
\* be set all the same.
CheckFails ==
    /\ pc = "check" /\ todo # <<>>
    /\ Fault
    /\ LET a == Head(todo) IN
          /\ \/ UNCHANGED keys
             \/ a \notin Undated /\ keys' = keys \cup {a}
          /\ unique' = Append(unique, a)
          /\ doubts' = [doubts EXCEPT ![a] = @ + 1]
    /\ todo' = Tail(todo)
    /\ UNCHANGED <<durable, pc, rows, announced, told, aged, excused>>

CheckDone ==
    /\ pc = "check" /\ todo = <<>>
    /\ pc' = "save" /\ todo' = unique
    /\ UNCHANGED <<durable, unique, keys, rows, count, told, aged, excused, faults>>

\* Postgres saves row by row and leaves a row it has alone; the memory store
\* saves all at once, which nobody can tell.
SaveArticle ==
    /\ pc = "save" /\ todo # <<>>
    /\ rows' = rows \cup {Head(todo)}
    /\ todo' = Tail(todo)
    /\ UNCHANGED <<durable, pc, unique, keys, count, told, aged, excused, faults>>

\* FetchNow returns the error; every key it has set stays.
SaveFails ==
    /\ pc = "save" /\ todo # <<>> /\ "rows" \in durable
    /\ Fault
    /\ pc' = "idle" /\ todo' = <<>> /\ unique' = <<>>
    /\ excused' = excused \cup ToSet(unique)
    /\ UNCHANGED <<durable, keys, rows, count, told, aged>>

SaveDone ==
    /\ pc = "save" /\ todo = <<>>
    /\ pc' = "announce" /\ todo' = unique
    /\ UNCHANGED <<durable, unique, keys, rows, count, told, aged, excused, faults>>

Announce ==
    /\ pc = "announce" /\ todo # <<>>
    /\ LET a == Head(todo) IN
          /\ told' = told \cup {a}
          /\ announced' = IF a \in keys THEN [announced EXCEPT ![a] = @ + 1] ELSE announced
    /\ todo' = Tail(todo)
    /\ UNCHANGED <<durable, pc, unique, keys, rows, doubts, aged, excused, faults>>

\* The bus logs and drops the error of the producer.
AnnounceFails ==
    /\ pc = "announce" /\ todo # <<>>
    /\ Fault
    /\ excused' = excused \cup {Head(todo)}
    /\ todo' = Tail(todo)
    /\ UNCHANGED <<durable, pc, unique, keys, rows, count, told, aged>>

\* Fault: FetchNow returns after the first article.
FetchDoneEarly ==
    /\ pc = "announce" /\ Len(todo) < Len(unique)
    /\ pc' = "idle" /\ todo' = <<>> /\ unique' = <<>>
    /\ UNCHANGED <<durable, keys, rows, count, told, aged, excused, faults>>

FetchDone ==
    /\ pc = "announce" /\ todo = <<>>
    /\ pc' = "idle" /\ unique' = <<>>
    /\ UNCHANGED <<durable, todo, keys, rows, count, told, aged, excused, faults>>

FetchNow ==
    \/ CheckNew
    \/ CheckDuplicate
    \/ CheckDone
    \/ SaveArticle
    \/ SaveDone
    \/ Announce
    \/ FetchDone

-----------------------------------------------------------------------------
(* Time and restarts.                                                      *)

\* Fault: a key is set without its time to live.
ExpireNever(a) == FALSE /\ UNCHANGED vars

\* A key outlives the round that set it.  After its day the article is out of
\* GDELT's timespan; a feed may go on listing it.
Expire(a) ==
    /\ a \in keys /\ a \notin ToSet(unique)
    /\ keys' = keys \ {a}
    /\ announced' = [announced EXCEPT ![a] = 0]
    /\ doubts' = [doubts EXCEPT ![a] = 0]
    /\ excused' = excused \ {a}
    /\ aged' = IF a \in GdeltNews THEN aged \cup {a} ELSE aged
    /\ UNCHANGED <<durable, local, rows, told, faults>>

Restart ==
    /\ Fault
    /\ pc' = "idle" /\ todo' = <<>> /\ unique' = <<>>
    /\ rows' = IF "rows" \in durable THEN rows ELSE {}
    /\ IF "keys" \in durable
          THEN /\ excused' = excused \cup ToSet(unique)
               /\ UNCHANGED <<keys, count>>
          ELSE /\ keys' = {} /\ excused' = {}
               /\ announced' = [a \in News |-> 0]
               /\ doubts' = [a \in News |-> 0]
    /\ UNCHANGED <<durable, told, aged>>

Next ==
    \/ \E all \in Answers : Fetch(all)
    \/ FetchNow
    \/ CheckFails
    \/ SaveFails
    \/ AnnounceFails
    \/ \E a \in News : Expire(a)
    \/ Restart

Spec == Init /\ [][Next]_vars

Lists(a) == \E all \in Answers : a \in ToSet(all) /\ Fetch(all)

\* FetchNow returns, keys expire, and a feed lists its articles again and
\* again.  Faults are bounded.
FairSpec ==
    /\ Spec
    /\ WF_vars(FetchNow)
    /\ \A a \in FeedNews : SF_vars(Lists(a))
    /\ \A a \in News : WF_vars(Expire(a))

-----------------------------------------------------------------------------
(* Locals and counters have their types.                                   *)
TypeOK ==
    /\ durable \subseteq {"rows", "keys"}
    /\ pc \in {"idle", "check", "save", "announce"}
    /\ todo \in Seq(News) /\ unique \in Seq(News)
    /\ pc = "idle" => todo = <<>> /\ unique = <<>>
    /\ keys \subseteq News \ Undated
    /\ rows \subseteq News /\ told \subseteq News
    /\ aged \subseteq GdeltNews
    /\ excused \subseteq News
    /\ announced \in [News -> Nat] /\ doubts \in [News -> Nat]
    /\ faults \in Nat

(* Whoever reads news.arrived finds the row: an announcement waits for the *)
(* saves of the whole round, whatever fails.                               *)
RowBeforeNews == pc = "announce" => ToSet(unique) \subseteq rows

(* Under one key an article is announced once, even one that an answer     *)
(* lists twice; each further time needs a cache that failed to tell.       *)
OncePerKey == \A a \in News : announced[a] <= 1 + doubts[a]

(* The key is set before the work is done, so it must not outlast work     *)
(* that is not: an article held back by its key has been announced, is in  *)
(* the round that set it, or was hit by a fault in between.                *)
KeyStandsForNews ==
    \A a \in keys : announced[a] > 0 \/ a \in ToSet(unique) \/ a \in excused

(* A fault costs an article of a feed a day and no more: in the end it is  *)
(* announced, by a round after its key has expired.                        *)
FeedsAreTold == \A a \in FeedNews : <>(a \in told)
=============================================================================
