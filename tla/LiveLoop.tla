------------------------------ MODULE LiveLoop ------------------------------
(***************************************************************************)
(* The live loop of the process service: Start, Stop, the loop goroutine   *)
(* with its ticker, and RunOnce, which POST /live/run-once calls as well.  *)
(* loopMu makes Start, Stop and the goroutine's last act atomic; RunOnce   *)
(* is admitted by runMu.TryLock.                                           *)
(***************************************************************************)
EXTENDS SeenTracker, FiniteSets

CONSTANTS
    Loops,       \* loop goroutines that may be started, a bound
    Requests,    \* concurrent POST /live/run-once handlers
    ListLimit,   \* ListNewsArticles(ctx, 100)
    Sorted,      \* Postgres lists the newest articles, the memory store any
    Poisoned,    \* articles whose processing may panic
    NoRunner

\* An article is its place in the order of publication, which is not the order
\* of arrival: feeds deliver late, and date articles in the future.
ASSUME ArticlesAssumption ==
    IsFiniteSet(Articles) /\ Articles = 1..Cardinality(Articles)
ASSUME ListLimitAssumption == ListLimit \in Nat
ASSUME LoopSeenAssumption == MaxSeen > 0    \* maxSeenArticles is 1000
ASSUME RunnersAssumption  == NoRunner \notin Loops \cup Requests

VARIABLES
    running, stopping,  \* Service.running and .stopping
    cancel,             \* the loop whose context Service.cancel cancels
    cancelled,          \* loops whose context is cancelled
    ticked,             \* loops with a tick waiting in the ticker's channel
    phase,              \* where a loop goroutine or a request is
    runMu,              \* holder of runMu
    list,               \* articles the holder has yet to look at
    stored,             \* the articles in the store
    since               \* for each article, how many others were remembered
                        \* since it last went into processArticle

loopState == <<running, stopping, cancel, cancelled>>
runState  == <<runMu, list, since, tracker>>
vars      == <<loopState, ticked, phase, runState, stored>>

Runners == Loops \cup Requests
Phases  == {"unborn", "ready", "run", "process", "select", "exit", "done"}
Never   == -1     \* since of an article that was not processed yet
SinceCap == MaxSeen   \* since saturates here

Alive(l) == phase[l] \notin {"unborn", "done"}

Init ==
    /\ running = FALSE
    /\ stopping = FALSE
    /\ cancel = NoRunner
    /\ cancelled = {}
    /\ ticked = {}
    /\ phase = [r \in Runners |-> IF r \in Loops THEN "unborn" ELSE "ready"]
    /\ runMu = NoRunner
    /\ list = [r \in Runners |-> <<>>]
    /\ stored = {}
    /\ since = [a \in Articles |-> Never]
    /\ TrackerInit

GoTo(r, label) == phase' = [phase EXCEPT ![r] = label]

-----------------------------------------------------------------------------
(* Control.  A Start while running and a Stop while stopped or stopping    *)
(* change nothing.                                                         *)

\* Fault: Start does not wait for a stopping loop.
StartAgain(l) ==
    /\ ~running \/ stopping
    /\ phase[l] = "unborn"
    /\ running' = TRUE
    /\ stopping' = FALSE
    /\ cancel' = l
    /\ GoTo(l, "ready")
    /\ UNCHANGED <<cancelled, ticked, runState, stored>>

Start(l) ==
    /\ ~running
    /\ phase[l] = "unborn"
    /\ running' = TRUE
    /\ stopping' = FALSE
    /\ cancel' = l
    /\ GoTo(l, "ready")
    /\ UNCHANGED <<cancelled, ticked, runState, stored>>

\* Fault: Stop forgets the context.
StopWithoutCancel ==
    /\ running
    /\ ~stopping
    /\ stopping' = TRUE
    /\ UNCHANGED <<running, cancel, cancelled, ticked, phase, runState, stored>>

Stop ==
    /\ running
    /\ ~stopping
    /\ cancelled' = cancelled \cup ({cancel} \ {NoRunner})
    /\ stopping' = TRUE
    /\ UNCHANGED <<running, cancel, ticked, phase, runState, stored>>

-----------------------------------------------------------------------------
(* RunOnce.                                                                *)

\* What ListNewsArticles may return: at most ListLimit different articles, from
\* Postgres the newest, newest first (the memory store walks a map).
Count == IF Cardinality(stored) < ListLimit THEN Cardinality(stored) ELSE ListLimit

Listings ==
    {s \in [1..Count -> stored] :
        /\ \A j, k \in 1..Count : s[j] = s[k] => j = k
        /\ Sorted => /\ \A j, k \in 1..Count : j < k => s[j] > s[k]
                     /\ \A a \in stored : \A k \in 1..Count :
                           a > s[k] => \E j \in 1..Count : s[j] = a}

AfterRun(r) == GoTo(r, IF r \in Loops THEN "select" ELSE "ready")

\* Fault: RunOnce without its lock.
EnterRunUnlocked(r) ==
    /\ phase[r] = "ready"
    /\ runMu' = r
    /\ \E loaded \in Listings \cup {<<>>} : list' = [list EXCEPT ![r] = loaded]
    /\ GoTo(r, "run")
    /\ UNCHANGED <<loopState, ticked, since, tracker, stored>>

\* Loading the markets or the articles may fail: then the run is empty.
EnterRun(r) ==
    /\ phase[r] = "ready"
    /\ runMu = NoRunner
    /\ runMu' = r
    /\ \E loaded \in Listings \cup {<<>>} : list' = [list EXCEPT ![r] = loaded]
    /\ GoTo(r, "run")
    /\ UNCHANGED <<loopState, ticked, since, tracker, stored>>

SkipRun(r) ==
    /\ phase[r] = "ready"
    /\ runMu # NoRunner
    /\ AfterRun(r)
    /\ UNCHANGED <<loopState, ticked, runState, stored>>

\* Fault: a stopped run skips its remaining articles.
TakeArticleUntilCancelled(r) ==
    /\ phase[r] = "run"
    /\ list[r] # <<>>
    /\ LET a == Head(list[r])
       IN  IF Has(a) \/ r \in cancelled
           THEN list' = [list EXCEPT ![r] = Tail(@)] /\ UNCHANGED <<phase, since>>
           ELSE since' = [since EXCEPT ![a] = 0] /\ GoTo(r, "process") /\ UNCHANGED list
    /\ UNCHANGED <<loopState, ticked, runMu, tracker, stored>>

\* An article that is remembered is passed over, another one is processed.
TakeArticle(r) ==
    /\ phase[r] = "run"
    /\ list[r] # <<>>
    /\ LET a == Head(list[r])
       IN  IF Has(a)
           THEN list' = [list EXCEPT ![r] = Tail(@)] /\ UNCHANGED <<phase, since>>
           ELSE since' = [since EXCEPT ![a] = 0] /\ GoTo(r, "process") /\ UNCHANGED list
    /\ UNCHANGED <<loopState, ticked, runMu, tracker, stored>>

Older(a) ==
    [b \in Articles |->
        IF b = a \/ since[b] \in {Never, SinceCap} THEN since[b] ELSE since[b] + 1]

\* Add follows whether or not processArticle met errors.
FinishArticle(r) ==
    /\ phase[r] = "process"
    /\ LET a == Head(list[r])
       IN  /\ Add(a)
           /\ since' = IF Has(a) THEN since ELSE Older(a)
    /\ list' = [list EXCEPT ![r] = Tail(@)]
    /\ GoTo(r, "run")
    /\ UNCHANGED <<loopState, ticked, runMu, stored>>

FinishRun(r) ==
    /\ phase[r] = "run"
    /\ list[r] = <<>>
    /\ runMu' = NoRunner
    /\ AfterRun(r)
    /\ UNCHANGED <<loopState, ticked, list, since, tracker, stored>>

\* Fault: the lock is not freed by a panic.
PanicKeepingLock(r) ==
    /\ phase[r] = "process"
    /\ Head(list[r]) \in Poisoned
    /\ list' = [list EXCEPT ![r] = <<>>]
    /\ AfterRun(r)
    /\ UNCHANGED <<loopState, ticked, runMu, since, tracker, stored>>

\* The deferred recover ends the run, the deferred Unlock frees runMu.
PanicInRun(r) ==
    /\ phase[r] = "process"
    /\ Head(list[r]) \in Poisoned
    /\ list' = [list EXCEPT ![r] = <<>>]
    /\ runMu' = NoRunner
    /\ AfterRun(r)
    /\ UNCHANGED <<loopState, ticked, since, tracker, stored>>

RunOnce(r) ==
    EnterRun(r) \/ SkipRun(r) \/ TakeArticle(r) \/ FinishArticle(r) \/ FinishRun(r) \/ PanicInRun(r)

-----------------------------------------------------------------------------
(* The goroutine's select and its deferred end.                            *)

Tick(l) ==
    /\ Alive(l)
    /\ l \notin ticked
    /\ ticked' = ticked \cup {l}
    /\ UNCHANGED <<loopState, phase, runState, stored>>

SelectTick(l) ==
    /\ phase[l] = "select"
    /\ l \in ticked
    /\ ticked' = ticked \ {l}
    /\ GoTo(l, "ready")
    /\ UNCHANGED <<loopState, runState, stored>>

SelectDone(l) ==
    /\ phase[l] = "select"
    /\ l \in cancelled
    /\ GoTo(l, "exit")
    /\ UNCHANGED <<loopState, ticked, runState, stored>>

Exit(l) ==
    /\ phase[l] = "exit"
    /\ running' = FALSE
    /\ stopping' = FALSE
    /\ cancel' = NoRunner
    /\ GoTo(l, "done")
    /\ UNCHANGED <<cancelled, ticked, runState, stored>>

Loop(l) == RunOnce(l) \/ SelectTick(l) \/ SelectDone(l) \/ Exit(l)

\* The fetch service stores an article, however old or new it claims to be.
Arrive(a) ==
    /\ a \notin stored
    /\ stored' = stored \cup {a}
    /\ UNCHANGED <<loopState, ticked, phase, runState>>

Next ==
    \/ \E l \in Loops : Start(l) \/ Tick(l) \/ Loop(l)
    \/ Stop
    \/ \E q \in Requests : RunOnce(q)
    \/ \E a \in Articles : Arrive(a)

Spec == Init /\ [][Next]_vars

\* Goroutines are scheduled, tickers tick, a request once admitted runs on;
\* select chooses at random among the ready cases, so it cannot ignore a
\* cancelled context for ever.
Fairness ==
    /\ \A l \in Loops : WF_vars(Loop(l)) /\ WF_vars(Tick(l)) /\ SF_vars(SelectDone(l))
    /\ \A q \in Requests : WF_vars(phase[q] # "ready" /\ RunOnce(q))

FairSpec == Spec /\ Fairness

-----------------------------------------------------------------------------
(* Every flag, lock and list has its type.  Only the holder of runMu is in *)
(* a run and has a list, and what it is processing is not remembered yet.  *)
TypeOK ==
    /\ running \in BOOLEAN
    /\ stopping \in BOOLEAN
    /\ cancel \in Loops \cup {NoRunner}
    /\ cancelled \subseteq Loops
    /\ ticked \subseteq Loops
    /\ phase \in [Runners -> Phases]
    /\ runMu \in Runners \cup {NoRunner}
    /\ list \in [Runners -> Seq(Articles)]
    /\ stored \subseteq Articles
    /\ since \in [Articles -> Never..SinceCap]
    /\ \A r \in Runners :
          /\ phase[r] \in {"run", "process"} <=> runMu = r
          /\ list[r] # <<>> => runMu = r
          /\ phase[r] = "process" => list[r] # <<>> /\ ~Has(Head(list[r]))

(* The flags tell the truth: there is at most one loop goroutine, running  *)
(* is set exactly while it lives, cancel is its own, and stopping is set   *)
(* exactly when its context has been cancelled - so a Stop can never miss  *)
(* and a restart never doubles the loop.                                   *)
FlagsMatchLoop ==
    /\ running <=> \E l \in Loops : Alive(l)
    /\ stopping => running
    /\ \A l \in Loops : Alive(l) => cancel = l /\ (stopping <=> l \in cancelled)

Begins(r) == phase[r] = "run" /\ phase'[r] = "process"

(* An article that does not panic goes through processArticle again only   *)
(* after MaxSeen others were remembered since (live_run_once.go:108 to 112,*)
(* seen_tracker.go:27), whoever runs RunOnce, however runs overlap and in  *)
(* whatever order articles arrive and are listed.  It may well go through  *)
(* again: one dated in the future stays listed while the tracker fills up. *)
RememberedForMaxSeen ==
    [][\A r \in Runners :
          Begins(r) => Head(list[r]) \in Poisoned \/ since[Head(list[r])] \in {Never, MaxSeen}]_vars

(* A Stop takes effect: the service stops being in the stopping state.     *)
StopTakesEffect == stopping ~> ~running

AheadOfPanics(a) ==
    \E r \in Runners : \E k \in 1..Len(list[r]) :
        list[r][k] = a /\ \A j \in 1..(k - 1) : list[r][j] \notin Poisoned

(* What a run has listed is remembered in the end, and so was processed,   *)
(* even when the loop is stopped in the middle of the run; a panic costs   *)
(* only what is listed behind it.                                          *)
ListedIsProcessed ==
    \A a \in Articles :
        AheadOfPanics(a) ~> (a \in items \/ (a \in Poisoned /\ since[a] # Never))
=============================================================================
