------------------------------ MODULE SessionInbox ------------------------------
(***************************************************************************)
(* Prompts that wait for their session to become idle                      *)
(* (Native/src/session_inbox.cpp; rows and claim in repository.cpp).       *)
(*                                                                         *)
(* A client's thread stores a prompt and then enters its session in a map  *)
(* in memory.  One dispatcher thread takes the sessions that are due,      *)
(* reads the session's rows, submits the first prompt that waits and tries *)
(* again half a second later, until it reads none.  The transaction that   *)
(* creates the run claims the row.  The rows survive the process, the map  *)
(* does not: the next dispatcher starts by reading every session.          *)
(*                                                                         *)
(* A step is one transaction or one critical section of the map's mutex.   *)
(***************************************************************************)
EXTENDS Naturals, FiniteSets

CONSTANTS
    Inboxes,        \* sessions
    Inputs,         \* identities of prompts
    Home,           \* Home[i]: the session that prompt i is sent to
    Attached,       \* prompts with files of the workspace
    Clients,        \* threads that send prompts
    Nothing,        \* no prompt, no session
    QueueLimit,     \* prompts that may wait in a session (32)
    Window,         \* rows that session_inbox returns (128)
    InboxLives      \* bound on restarts

ASSUME InboxAssumption ==
    /\ Home \in [Inputs -> Inboxes] /\ IsFiniteSet(Inputs)
    /\ Nothing \notin Inputs \cup Inboxes
    /\ QueueLimit \in Nat \ {0} /\ Window \in Nat \ {0}
    /\ InboxLives \in Nat

VARIABLES
    item,           \* item[i]: state of row i, "none" before it exists
    rank,           \* rank[i]: its place by created_ms and identity
    started,        \* started[i]: runs created for prompt i
    rooted,         \* sessions with an active root run, which admit no other
    stale,          \* prompts whose files belong to a membership that has changed
    process,        \* the process, counted
    entry,          \* entry[s]: s in the map, "later" before its retry_at
    bumped,         \* sessions entered since the dispatcher took its generations
    dispatcher,     \* what the dispatcher is doing
    due,            \* sessions it has left to scan, or to dispatch
    serving,        \* the session it dispatches
    picked,         \* the prompt it read there
    sender,         \* sender[c]: the prompt that client c has stored and not announced
    retiring,       \* how far close() got
    missed          \* history: this process kept silent about a read that failed

rows == <<item, rank, started, rooted, stale>>
duty == <<dispatcher, due, serving, picked>>
map == <<entry, bumped>>
inboxVars == <<rows, process, map, duty, sender, retiring, missed>>

InboxTypeOK ==
    /\ item \in [Inputs -> {"none", "queued", "claimed", "cancelled"}]
    /\ rank \in [Inputs -> 0..Cardinality(Inputs)]
    /\ started \in [Inputs -> 0..1]
    /\ rooted \subseteq Inboxes /\ stale \subseteq Attached
    /\ process \in 0..InboxLives
    /\ entry \in [Inboxes -> {"none", "later", "due"}]
    /\ bumped \subseteq Inboxes
    /\ dispatcher \in {"off", "scanning", "waiting", "batch", "erasing", "submitting",
                       "deferring", "gone"}
    /\ due \subseteq Inboxes
    /\ serving \in Inboxes \cup {Nothing} /\ picked \in Inputs \cup {Nothing}
    /\ sender \in [Clients -> Inputs \cup {Nothing}]
    /\ retiring \in {"open", "closing", "stopped"} /\ missed \in BOOLEAN

InboxInit ==
    /\ item = [i \in Inputs |-> "none"] /\ rank = [i \in Inputs |-> 0]
    /\ started = [i \in Inputs |-> 0] /\ rooted = {} /\ stale = {}
    /\ process = 0
    /\ entry = [s \in Inboxes |-> "none"] /\ bumped = {}
    /\ dispatcher = "off" /\ due = {} /\ serving = Nothing /\ picked = Nothing
    /\ sender = [c \in Clients |-> Nothing]
    /\ retiring = "open" /\ missed = FALSE

--------------------------------------------------------------------------------
(* Rows *)

InputsOf(s) == {i \in Inputs : Home[i] = s}

QueuedIn(s) == {i \in InputsOf(s) : item[i] = "queued"}

Shown(s) == {i \in InputsOf(s) : item[i] \in {"queued", "claimed"}}

\* session_inbox: the first rows that were not cancelled, whatever became of them.
Listed(s) == {i \in Shown(s) : Cardinality({j \in Shown(s) : rank[j] < rank[i]}) < Window}

\* What the dispatcher finds in them, and what it takes: the first.
Findable(s) == Listed(s) \cap QueuedIn(s)

NextQueued(s) == {i \in Findable(s) : \A j \in Findable(s) : rank[i] <= rank[j]}

\* Mutant of StartsRun: the claim does not look at the row again.
StartsRunAgain(i) ==
    /\ Home[i] \notin rooted
    /\ item' = [item EXCEPT ![i] = "claimed"]
    /\ started' = [started EXCEPT ![i] = started[i] + 1]
    /\ rooted' = rooted \cup {Home[i]}
    /\ UNCHANGED <<rank, stale>>

\* start_prompt_run with an inbox_id.
StartsRun(i) ==
    /\ item[i] = "queued" /\ Home[i] \notin rooted
    /\ item' = [item EXCEPT ![i] = "claimed"]
    /\ started' = [started EXCEPT ![i] = started[i] + 1]
    /\ rooted' = rooted \cup {Home[i]}
    /\ UNCHANGED <<rank, stale>>

--------------------------------------------------------------------------------
(* Clients *)

Free(c) == retiring = "open" /\ sender[c] = Nothing

\* enqueue of a new row.  Rows are ordered by wall clock and, within a millisecond, by
\* identity, so that a new one may come anywhere.
StoreInput(c, i) ==
    /\ Free(c)
    /\ item[i] = "none" /\ Cardinality(QueuedIn(Home[i])) < QueueLimit
    /\ item' = [item EXCEPT ![i] = "queued"]
    /\ \E k \in 1..Cardinality(InputsOf(Home[i])) :
          /\ \A j \in InputsOf(Home[i]) : rank[j] # k
          /\ rank' = [rank EXCEPT ![i] = k]
    /\ sender' = [sender EXCEPT ![c] = i]
    /\ UNCHANGED <<started, rooted, stale, process, map, duty, retiring, missed>>

\* enqueue of a prompt that is there: its row is returned, and announced once more.
SendAgain(c, i) ==
    /\ Free(c) /\ item[i] \in {"queued", "claimed"}
    /\ sender' = [sender EXCEPT ![c] = i]
    /\ UNCHANGED <<rows, process, map, duty, retiring, missed>>

\* enqueue_session_for_dispatch.  Whether the session is busy only chooses the delay, so
\* the read is part of the step.
Announce(c) ==
    /\ sender[c] # Nothing
    /\ LET s == Home[sender[c]] IN
        /\ entry' = [entry EXCEPT ![s] = IF s \in rooted THEN "due" ELSE "later"]
        /\ bumped' = bumped \cup {s}
    /\ sender' = [sender EXCEPT ![c] = Nothing]
    /\ UNCHANGED <<rows, process, duty, retiring, missed>>

\* The read fails and the failure is swallowed.
AnnounceFails(c) ==
    /\ sender[c] # Nothing
    /\ sender' = [sender EXCEPT ![c] = Nothing] /\ missed' = TRUE
    /\ UNCHANGED <<rows, process, map, duty, retiring>>

CancelInput(i) ==
    /\ retiring = "open" /\ item[i] = "queued"
    /\ item' = [item EXCEPT ![i] = "cancelled"]
    /\ UNCHANGED <<rank, started, rooted, stale, process, map, duty, sender, retiring, missed>>

\* POST /v1/runs with an inbox_id, as clients did before the backend dispatched.
ClientDrains(i) ==
    /\ StartsRun(i)
    /\ UNCHANGED <<process, map, duty, sender, retiring, missed>>

\* Any other run of a session, and its end.
StartDirect(s) ==
    /\ s \notin rooted /\ rooted' = rooted \cup {s}
    /\ UNCHANGED <<item, rank, started, stale, process, map, duty, sender, retiring, missed>>

RootEnds(s) ==
    /\ s \in rooted /\ rooted' = rooted \ {s}
    /\ UNCHANGED <<item, rank, started, stale, process, map, duty, sender, retiring, missed>>

MembershipChanges ==
    /\ stale' = stale \cup {i \in Attached : item[i] = "queued"} /\ stale' # stale
    /\ UNCHANGED <<item, rank, started, rooted, process, map, duty, sender, retiring, missed>>

--------------------------------------------------------------------------------
(* The dispatcher *)

Elapse(s) ==
    /\ entry[s] = "later" /\ entry' = [entry EXCEPT ![s] = "due"]
    /\ UNCHANGED <<rows, process, bumped, duty, sender, retiring, missed>>

StartDispatcher ==
    /\ dispatcher = "off" /\ retiring = "open"
    /\ dispatcher' = "scanning" /\ due' = Inboxes
    /\ UNCHANGED <<rows, process, map, serving, picked, sender, retiring, missed>>

\* recover_queued_sessions.
Scan(s) ==
    /\ dispatcher = "scanning" /\ s \in due /\ due' = due \ {s}
    /\ IF Findable(s) # {}
       THEN entry' = [entry EXCEPT ![s] = "due"] /\ bumped' = bumped \cup {s}
       ELSE UNCHANGED map
    /\ UNCHANGED <<rows, process, dispatcher, serving, picked, sender, retiring, missed>>

ScanEnds ==
    /\ dispatcher = "scanning" /\ due = {} /\ dispatcher' = "waiting"
    /\ UNCHANGED <<rows, process, map, due, serving, picked, sender, retiring, missed>>

\* One read that fails ends the scan.
ScanFails ==
    /\ dispatcher = "scanning" /\ due # {}
    /\ dispatcher' = "waiting" /\ due' = {} /\ missed' = TRUE
    /\ UNCHANGED <<rows, process, map, serving, picked, sender, retiring>>

Collect ==
    /\ dispatcher = "waiting" /\ retiring # "stopped"
    /\ due' = {s \in Inboxes : entry[s] = "due"} /\ due' # {}
    /\ dispatcher' = "batch" /\ bumped' = {}
    /\ UNCHANGED <<rows, process, entry, serving, picked, sender, retiring, missed>>

BatchEnds ==
    /\ dispatcher = "batch" /\ due = {} /\ dispatcher' = "waiting"
    /\ UNCHANGED <<rows, process, map, due, serving, picked, sender, retiring, missed>>

\* dispatch_queued_session enters the service, which keeps close() out until it leaves.
ReadInbox(s) ==
    /\ dispatcher = "batch" /\ s \in due /\ retiring = "open"
    /\ due' = due \ {s} /\ serving' = s
    /\ \/ /\ Findable(s) = {} /\ picked' = Nothing /\ dispatcher' = "erasing"
       \/ picked' \in NextQueued(s) /\ dispatcher' = "submitting"
    /\ UNCHANGED <<rows, process, map, sender, retiring, missed>>

\* The service is closing: the entry stays as it is.
PassOver(s) ==
    /\ dispatcher = "batch" /\ s \in due /\ retiring = "closing"
    /\ due' = due \ {s}
    /\ UNCHANGED <<rows, process, map, dispatcher, serving, picked, sender, retiring, missed>>

\* So it does when the read fails.
ReadFails(s) ==
    /\ dispatcher = "batch" /\ s \in due /\ retiring = "open"
    /\ due' = due \ {s}
    /\ UNCHANGED <<rows, process, map, dispatcher, serving, picked, sender, retiring, missed>>

\* Mutant of EraseSession: the generation is not compared.
EraseSessionAnyway ==
    /\ dispatcher = "erasing" /\ dispatcher' = "batch"
    /\ entry' = [entry EXCEPT ![serving] = "none"]
    /\ serving' = Nothing
    /\ UNCHANGED <<rows, process, bumped, due, picked, sender, retiring, missed>>

\* Nothing was queued: the session leaves the map, unless it was entered again.
EraseSession ==
    /\ dispatcher = "erasing" /\ dispatcher' = "batch"
    /\ entry' = [entry EXCEPT ![serving] = IF serving \in bumped THEN @ ELSE "none"]
    /\ serving' = Nothing
    /\ UNCHANGED <<rows, process, bumped, due, picked, sender, retiring, missed>>

SubmitQueued ==
    /\ dispatcher = "submitting" /\ picked \notin stale
    /\ StartsRun(picked) /\ dispatcher' = "deferring"
    /\ UNCHANGED <<process, map, due, serving, picked, sender, retiring, missed>>

Refusable == picked \in stale \/ item[picked] # "queued" \/ serving \in rooted

\* The membership changed, the session is busy, or the row is gone or claimed.
SubmitRefused ==
    /\ dispatcher = "submitting" /\ Refusable /\ dispatcher' = "deferring"
    /\ UNCHANGED <<rows, process, map, due, serving, picked, sender, retiring, missed>>

\* The service does not admit runs, or a call of the persistence thread throws.
SubmitFails ==
    /\ dispatcher = "submitting" /\ ~Refusable /\ dispatcher' = "deferring"
    /\ UNCHANGED <<rows, process, map, due, serving, picked, sender, retiring, missed>>

Defer ==
    /\ dispatcher = "deferring" /\ dispatcher' = "batch"
    /\ entry' = [entry EXCEPT ![serving] = IF serving \in bumped THEN @ ELSE "later"]
    /\ serving' = Nothing /\ picked' = Nothing
    /\ UNCHANGED <<rows, process, bumped, due, sender, retiring, missed>>

--------------------------------------------------------------------------------
(* Close and restart *)

\* close() sets `stopping` when nobody is inside.
CloseInbox ==
    /\ retiring = "open" /\ \A c \in Clients : sender[c] = Nothing
    /\ dispatcher \notin {"erasing", "submitting"}
    /\ retiring' = "closing"
    /\ UNCHANGED <<rows, process, map, duty, sender, missed>>

StopDispatcher ==
    /\ retiring = "closing" /\ retiring' = "stopped"
    /\ UNCHANGED <<rows, process, map, duty, sender, missed>>

DispatcherReturns ==
    /\ retiring = "stopped" /\ dispatcher \in {"waiting", "batch"}
    /\ dispatcher' = "gone"
    /\ UNCHANGED <<rows, process, map, due, serving, picked, sender, retiring, missed>>

\* The next process, after a close or a crash.  A paused root stays active.
NextProcess ==
    /\ process < InboxLives /\ process' = process + 1
    /\ rooted' \in SUBSET rooted
    /\ entry' = [s \in Inboxes |-> "none"] /\ bumped' = {}
    /\ dispatcher' = "off" /\ due' = {} /\ serving' = Nothing /\ picked' = Nothing
    /\ sender' = [c \in Clients |-> Nothing] /\ retiring' = "open" /\ missed' = FALSE
    /\ UNCHANGED <<item, rank, started, stale>>

--------------------------------------------------------------------------------

DispatcherStep ==
    \/ StartDispatcher \/ ScanEnds \/ ScanFails \/ Collect \/ BatchEnds \/ EraseSession
    \/ SubmitQueued \/ SubmitRefused \/ SubmitFails \/ Defer \/ DispatcherReturns
    \/ \E s \in Inboxes : Scan(s) \/ ReadInbox(s) \/ PassOver(s) \/ ReadFails(s)

InboxNext ==
    \/ DispatcherStep
    \/ \E c \in Clients :
        Announce(c) \/ AnnounceFails(c) \/ \E i \in Inputs : StoreInput(c, i) \/ SendAgain(c, i)
    \/ \E i \in Inputs : CancelInput(i) \/ ClientDrains(i)
    \/ \E s \in Inboxes : StartDirect(s) \/ RootEnds(s) \/ Elapse(s)
    \/ MembershipChanges \/ CloseInbox \/ StopDispatcher \/ NextProcess

\* The dispatcher's and the clients' threads go on, and time passes.  Nothing is assumed
\* of the runs, nor of the people who send and cancel.
InboxFairness ==
    /\ WF_inboxVars(DispatcherStep)
    /\ \A c \in Clients : WF_inboxVars(Announce(c) \/ AnnounceFails(c))
    /\ \A s \in Inboxes : WF_inboxVars(Elapse(s))

InboxSpec == InboxInit /\ [][InboxNext]_inboxVars /\ InboxFairness

--------------------------------------------------------------------------------
(* Properties *)

\* A prompt starts one run however many dispatchers, clients and retries try, and none
\* if its cancellation found it waiting; a row is claimed exactly when its run exists.
InputRunsOnce == \A i \in Inputs : started[i] = IF item[i] = "claimed" THEN 1 ELSE 0

\* The dispatcher never loses a session: one in which it would find a prompt is in the
\* map, about to be entered or still to be scanned, unless one of the two reads failed
\* that nobody hears of.
QueuedInputIsScheduled ==
    ~missed =>
      \A s \in Inboxes : Findable(s) # {} =>
        \/ entry[s] # "none" \/ \E c \in Clients : sender[c] \in InputsOf(s)
        \/ dispatcher \in {"off", "gone"}
        \/ dispatcher = "scanning" /\ s \in due

\* The rows, the runs and the map agree.
NoInputIsLostOrRepeated == InputRunsOnce /\ QueuedInputIsScheduled

Unattachable(s) == QueuedIn(s) \cap stale # {}

\* What can keep a session's prompt waiting as often as it happens: a run started past
\* the inbox, which may be there at each retry; a prompt sent again, which postpones the
\* next one; a read or an admission that fails; a restart.
Disturbance(s) ==
    \/ StartDirect(s) \/ ReadFails(s) \/ (SubmitFails /\ serving = s) \/ NextProcess
    \/ \E c \in Clients, i \in InputsOf(s) : SendAgain(c, i)

\* A waiting prompt does not wait for ever: it becomes a run or is cancelled, if in its
\* session runs end and the disturbances above cease; unless the service closes, a prompt
\* waits there whose files cannot be attached any more, or a failure was swallowed.  Its
\* client need not come back.
InputIsDispatched ==
    \A i \in Inputs :
        []<>(Home[i] \notin rooted) /\ <>[][~Disturbance(Home[i])]_inboxVars =>
            []<>(item[i] # "queued" \/ retiring # "open" \/ Unattachable(Home[i]) \/ missed)

================================================================================
